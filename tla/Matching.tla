---- MODULE Matching ----
(***************************************************************************)
(* What an advisory says about an installed package (src/internal/match):  *)
(* Run, isAffected, sortFindings, and the pairing half of RunOSV.          *)
(*                                                                         *)
(* A package is [category, name, version, purl], as sbom.Package; the      *)
(* category of a golang or cargo package is its ecosystem.                 *)
(***************************************************************************)
EXTENDS Glsa

CategoryName(pkg) == <<pkg.category, pkg.name>>

----
\* The loop over ranges ends at the first one that matches or is not understood.
Scan(installed, ranges) ==
  LET decided == Select([i \in DOMAIN ranges |-> Satisfies(installed, ranges[i])],
                        LAMBDA verdict : verdict # "no")
  IN  IF decided = <<>> THEN "no" ELSE Head(decided)

\* Slip: the unaffected ranges are not looked at.
isAffectedByVulnerable(installed, ap) ==
  CASE Scan(installed, ap.vulnerable) = "match" -> "affected"
    [] Scan(installed, ap.vulnerable) = "no"    -> "fixed"
    [] OTHER                                    -> "unknown"

\* "affected", "fixed", or "unknown" when a range is not understood.
isAffected(installed, ap) ==
  LET vulnerable == Scan(installed, ap.vulnerable)
      unaffected == Scan(installed, ap.unaffected)
  IN  CASE vulnerable = "match" /\ unaffected = "no" -> "affected"
        [] vulnerable = "no" \/ (vulnerable = "match" /\ unaffected = "match") -> "fixed"
        [] OTHER -> "unknown"

\* The findings of entry ap of advisory g about package pkg, one for each CVE.
FindingsAbout(g, ap, pkg) ==
  LET status == isAffected(pkg.version, ap)
  IN  IF status = "unknown" THEN <<>>
      ELSE [i \in DOMAIN g.cves |->
             [cve |-> g.cves[i], source |-> "glsa", ref |-> g.id, package |-> pkg,
              affected |-> status = "affected"]]

EntryFindings(g, ap, pkgs) ==
  ForEach(Select(pkgs, LAMBDA pkg : CategoryName(pkg) = ap.name),
          LAMBDA pkg : FindingsAbout(g, ap, pkg))

AdvisoryFindings(g, pkgs, arch) ==
  ForEach(Select(g.packages, LAMBDA ap : MatchesArch(ap, arch)),
          LAMBDA ap : EntryFindings(g, ap, pkgs))

\* (Build sorts by other keys again, so the "/" in category/name does not matter.)
SortKey(f) ==
  <<f.cve, f.package.category, f.package.name, f.package.version, f.source, f.ref>>

FindingLess(f, g) ==
  \E i \in 1 .. 6 :
    /\ StringLess(SortKey(f)[i], SortKey(g)[i])
    /\ \A j \in 1 .. i - 1 : SortKey(f)[j] = SortKey(g)[j]

\* (sort.Slice may leave findings with equal keys in another order, which Build does not look at.)
sortFindings(findings) == Arranged(findings, FindingLess)

Run(pkgs, glsas, arch) ==
  sortFindings(ForEach(glsas, LAMBDA g : AdvisoryFindings(g, pkgs, arch)))

----
\* The purl RunOSV queries for a package: no qualifiers, no subpath.
QueryPurl(pkg) == <<pkg.category, pkg.name, pkg.version>>

\* Slip: the first alias is taken for the CVE.
firstAlias(id, aliases) == IF aliases = <<>> THEN id ELSE Head(aliases)

\* Vulnerability.CVE: the first CVE among the aliases of a record, or its ID.
CVE(id, aliases) ==
  LET found == Select(aliases, LAMBDA alias : HasPrefix(alias, "CVE-"))
  IN  IF found = <<>> THEN id ELSE Head(found)

\* The findings of RunOSV when Query answers with the given records for each purl.
RunOSV(pkgs, results, aliases) ==
  sortFindings(ForEach(pkgs, LAMBDA pkg :
    LET ids == results[QueryPurl(pkg)]
    IN  [i \in DOMAIN ids |->
          [cve |-> CVE(ids[i], aliases[ids[i]]), source |-> "osv", ref |-> ids[i], package |-> pkg,
           affected |-> TRUE]]))
====
