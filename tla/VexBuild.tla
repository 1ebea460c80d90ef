---- MODULE VexBuild ----
(***************************************************************************)
(* vexgen.Build (src/internal/vexgen/vexgen.go): findings grouped by (CVE, *)
(* status) into the statements of an OpenVEX document, which the project   *)
(* hands to the library go-vex.  The timestamp, the author and the         *)
(* document's hash are left out.                                           *)
(***************************************************************************)
EXTENDS Matching

GroupKey(f) == [cve |-> f.cve, affected |-> f.affected]

\* "fixed" goes before "affected".
KeyLess(k, l) ==
  StringLess(k.cve, l.cve) \/ (k.cve = l.cve /\ ~k.affected /\ l.affected)

\* Slip: a package is listed once for every finding about it.
subcomponentsRepeated(group) ==
  Arranged([i \in DOMAIN group |-> group[i].package.purl], StringLess)

subcomponents(group) ==
  Sorted({f.package.purl : f \in ToSet(group)}, StringLess)

\* The advisories of the group, for each source that has one, GLSA first.
actionStatement(group) ==
  LET RefsOf(source) ==
        Sorted({f.ref : f \in {g \in ToSet(group) : g.source = source}} \ {""}, StringLess)
  IN  [resolves |-> IF HasPrefix(Head(group).cve, "CVE-") THEN "CVE" ELSE "vulnerability",
       see |-> Select(<<<<"glsa", RefsOf("glsa")>>, <<"osv", RefsOf("osv")>>>>,
                      LAMBDA part : part[2] # <<>>)]

NoAction == [resolves |-> "", see |-> <<>>]

Statement(key, group, productID) ==
  [cve |-> key.cve,
   product |-> productID,
   status |-> IF key.affected THEN "affected" ELSE "fixed",
   subcomponents |-> subcomponents(group),
   action |-> IF key.affected THEN actionStatement(group) ELSE NoAction]

\* The statements of the document.  (An empty product ID is an error before this.)
Build(findings, productID) ==
  LET keys == Sorted({GroupKey(f) : f \in ToSet(findings)}, KeyLess)
  IN  [i \in DOMAIN keys |->
        Statement(keys[i], Select(findings, LAMBDA f : GroupKey(f) = keys[i]), productID)]
====
