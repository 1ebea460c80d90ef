---- MODULE Glsa ----
(***************************************************************************)
(* An advisory of the GLSA corpus (src/internal/glsa/glsa.go).             *)
(*                                                                         *)
(* A file is [id, packages, uris]: an entry of packages is [name, arch,    *)
(* unaffected, vulnerable], where name is <<category, name>> and the last  *)
(* two are sequences of ranges [op, slot, version, star]; a uri is the     *)
(* sequence of the CVE identifiers that cveRegexp finds in it.             *)
(***************************************************************************)
EXTENDS Portage, Lists

CONSTANTS
  Place,     \* string -> its place in the order of strings
  ArchWords  \* arch attribute -> the words in it, without their "~"

ASSUME PlaceAssumption ==
  /\ Place \in [DOMAIN Place -> Nat]
  /\ \A s, t \in DOMAIN Place : Place[s] = Place[t] => s = t

\* The strings that are compared.
Words == DOMAIN Place

StringLess(s, t) == Place[s] < Place[t]

RangeType == [op : STRING, slot : STRING, version : STRING, star : BOOLEAN]

AdvisoryFiles ==
  [id       : Words,
   packages : Seq([name : Words \X Words, arch : DOMAIN ArchWords,
                   unaffected : Seq(RangeType), vulnerable : Seq(RangeType)]),
   uris     : Seq(Seq(Words))]

----
\* The identifiers of all references, each one once.
cves(uris) == Sorted(UNION {ToSet(uris[i]) : i \in DOMAIN uris}, StringLess)

loadFile(x) == [id |-> x.id, packages |-> x.packages, cves |-> cves(x.uris)]

MatchesArch(ap, arch) == ap.arch \in {"", "*"} \/ arch \in ArchWords[ap.arch]
====
