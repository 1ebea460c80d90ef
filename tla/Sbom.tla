---- MODULE Sbom ----
(***************************************************************************)
(* sbom.Load (src/internal/sbom/sbom.go): the packages of an SPDX document *)
(* split into those matched against advisories (ebuild) and those OSV.dev  *)
(* is asked about (golang, cargo).                                         *)
(*                                                                         *)
(* The document is [name, packages]; an SPDX package is [versionInfo,      *)
(* externalRefs], a reference [type, locator].  What a purl is made of is  *)
(* given by Purl: its type; the path up to the "@"; that path cut at its   *)
(* first "/" into category and name, both "" without one; and whether      *)
(* there is an "@".                                                        *)
(***************************************************************************)
EXTENDS VexBuild

CONSTANTS
  Purl,         \* purl -> [type, path, category, name, at]
  TrimSpace(_)  \* a version without the white space around it

ASSUME PurlAssumption ==
  /\ DOMAIN Purl \subseteq Words
  /\ Purl \in [DOMAIN Purl ->
                [type : Words, path : Words, category : Words, name : Words, at : BOOLEAN]]

ASSUME PrefixAssumption == HasPrefix("(devel)", "(") /\ HasPrefix("../api", ".")

Documents ==
  [name     : STRING,
   packages : Seq([versionInfo  : Words,
                   externalRefs : Seq({r \in [type : STRING, locator : STRING] :
                                         r.type = "purl" => r.locator \in DOMAIN Purl})])]

osvEcosystems == {"golang", "cargo"}

\* The purls of an SPDX package of some types; the first one counts.
PurlsIn(sp, types) ==
  LET refs == Select(sp.externalRefs,
                     LAMBDA r : r.type = "purl" /\ Purl[r.locator].type \in types)
  IN  [i \in DOMAIN refs |-> refs[i].locator]

parseEbuildPurlOk(purl) == Purl[purl].category # "" /\ Purl[purl].name # ""

isQueryableVersion(v) == TrimSpace(v) # "" /\ ~HasPrefix(TrimSpace(v), "(")

parseOSVPurlOk(purl) ==
  Purl[purl].at /\ Purl[purl].path # "" /\ ~HasPrefix(Purl[purl].path, ".")

EbuildPackage(sp, purl) ==
  [category |-> Purl[purl].category, name |-> Purl[purl].name,
   version |-> sp.versionInfo, purl |-> purl]

OsvPackage(sp, purl) ==
  [category |-> Purl[purl].type, name |-> Purl[purl].path,
   version |-> sp.versionInfo, purl |-> purl]

EbuildOf(sp) ==
  LET purls == PurlsIn(sp, {"ebuild"})
  IN  IF purls = <<>> \/ ~parseEbuildPurlOk(Head(purls)) THEN <<>>
      ELSE <<EbuildPackage(sp, Head(purls))>>

\* Slip: a package with an ebuild purl is asked about as well.
OsvOfAny(sp) ==
  LET purls == PurlsIn(sp, osvEcosystems)
  IN  IF purls = <<>> \/ ~parseOSVPurlOk(Head(purls)) \/ ~isQueryableVersion(sp.versionInfo)
      THEN <<>> ELSE <<OsvPackage(sp, Head(purls))>>

\* A package with an ebuild purl is no OSV package, even when that purl has no name.
OsvOf(sp) ==
  LET purls == PurlsIn(sp, osvEcosystems)
  IN  IF PurlsIn(sp, {"ebuild"}) # <<>> \/ purls = <<>> \/ ~parseOSVPurlOk(Head(purls))
           \/ ~isQueryableVersion(sp.versionInfo)
      THEN <<>> ELSE <<OsvPackage(sp, Head(purls))>>

Load(document) ==
  [name        |-> document.name,
   packages    |-> ForEach(document.packages, EbuildOf),
   osvPackages |-> ForEach(document.packages, OsvOf)]
====
