---- MODULE MCGenerate ----
(***************************************************************************)
(* Generate for TLC: SBOMs with a package installed twice, two purls of    *)
(* one module, purls and versions nobody can use; advisories with two      *)
(* entries for a package, entries for slots, exclusive and odd arches,     *)
(* ranges that are not understood, stray and malformed files; a sync that  *)
(* changes, removes and adds files.                                        *)
(***************************************************************************)
EXTENDS Generate

\* All strings that are compared, in alphabetical order.
Strings ==
  <<"", " ", " (devel)", "(devel)", "..", "../api", "1.0", "2.0", "201-01", "201-02", "201-03", "3.0", "CVE-1", "CVE-2", "GHSA-1", "GHSA-9", "GO-1",
    "README", "api", "app-arch", "app-arch/xz", "bash", "cargo", "deb", "ebuild", "fuse", "glsa", "glsa-1.txt", "glsa-1.xml", "glsa-2.xml", "glsa-3.xml",
    "golang", "grpc", "live", "nothing", "osv", "pkg:cargo/ring", "pkg:cargo/ring@1", "pkg:deb/bash@5",
    "pkg:ebuild/fuse@1", "pkg:ebuild/fuse@2", "pkg:ebuild/nothing@1", "pkg:ebuild/xz", "pkg:ebuild/xz@1",
    "pkg:golang/../api@1", "pkg:golang/grpc@1", "pkg:golang/grpc@1#sub", "ring", "sys-fs", "sys-fs/fuse",
    "v1", "xz">>

MCPlace == [s \in ToSet(Strings) |-> CHOOSE i \in DOMAIN Strings : Strings[i] = s]

HasAsPrefix ==
  {<<"CVE-1", "CVE-">>, <<"CVE-2", "CVE-">>, <<"../api", ".">>, <<"(devel)", "(">>,
   <<"2.0", "2.">>} \cup ({"glsa-1.txt", "glsa-1.xml", "glsa-2.xml", "glsa-3.xml"} \X {"glsa-"})

MCHasPrefix(s, prefix) == <<s, prefix>> \in HasAsPrefix

MCHasSuffix(s, suffix) == s \in {"glsa-1.xml", "glsa-2.xml", "glsa-3.xml"} /\ suffix = ".xml"

MCTrimSpace(s) == CASE s = " " -> "" [] s = " (devel)" -> "(devel)" [] OTHER -> s

MCArchWords ==
  ("" :> {}) @@ ("*" :> {"*"}) @@ (" * " :> {"*"}) @@ ("arm64" :> {"arm64"}) @@ ("~amd64" :> {"amd64"}) @@
  ("amd64 ~x86" :> {"amd64", "x86"})

MCCaptures ==
  [s \in {"1.0", "2.0", "3.0"} |->
    [numeric |-> IF s = "1.0" THEN <<1, 0>> ELSE IF s = "2.0" THEN <<2, 0>> ELSE <<3, 0>>,
     letter |-> 0, suffixKind |-> "", suffixNum |-> -1, revision |-> -1]]

Made(type, path, category, name, at) ==
  [type |-> type, path |-> path, category |-> category, name |-> name, at |-> at]

MCPurl ==
  ("pkg:ebuild/fuse@1"     :> Made("ebuild", "sys-fs/fuse", "sys-fs", "fuse", TRUE)) @@
  ("pkg:ebuild/fuse@2"     :> Made("ebuild", "sys-fs/fuse", "sys-fs", "fuse", TRUE)) @@
  ("pkg:ebuild/xz@1"       :> Made("ebuild", "app-arch/xz", "app-arch", "xz", TRUE)) @@
  ("pkg:ebuild/xz"         :> Made("ebuild", "app-arch/xz", "app-arch", "xz", FALSE)) @@
  ("pkg:ebuild/nothing@1"  :> Made("ebuild", "nothing", "", "", TRUE)) @@
  ("pkg:golang/grpc@1"     :> Made("golang", "grpc", "", "", TRUE)) @@
  ("pkg:golang/grpc@1#sub" :> Made("golang", "grpc", "", "", TRUE)) @@
  ("pkg:golang/../api@1"   :> Made("golang", "../api", "..", "api", TRUE)) @@
  ("pkg:cargo/ring@1"      :> Made("cargo", "ring", "", "", TRUE)) @@
  ("pkg:cargo/ring"        :> Made("cargo", "ring", "", "", FALSE)) @@
  ("pkg:deb/bash@5"        :> Made("deb", "bash", "", "", TRUE))

Ref(purl) == [type |-> "purl", locator |-> purl]

Spdx(version, refs) == [versionInfo |-> version, externalRefs |-> refs]

Ebuilds ==
  <<Spdx("2.0", <<Ref("pkg:ebuild/fuse@2")>>), Spdx("1.0", <<Ref("pkg:ebuild/xz@1")>>),
    Spdx("live", <<Ref("pkg:ebuild/xz")>>),
    Spdx("1.0", <<Ref("pkg:deb/bash@5"), Ref("pkg:ebuild/fuse@1")>>),
    Spdx("v1", <<Ref("pkg:ebuild/nothing@1"), Ref("pkg:cargo/ring@1")>>)>>

Modules ==
  <<Spdx("v1", <<Ref("pkg:golang/grpc@1#sub")>>), Spdx("v1", <<Ref("pkg:cargo/ring@1")>>),
    Spdx("v1", <<Ref("pkg:golang/grpc@1")>>), Spdx("v1", <<Ref("pkg:golang/grpc@1")>>),
    Spdx("v1", <<Ref("pkg:golang/../api@1")>>), Spdx(" (devel)", <<Ref("pkg:golang/grpc@1")>>),
    Spdx(" ", <<Ref("pkg:cargo/ring@1")>>), Spdx("v1", <<Ref("pkg:cargo/ring")>>)>>

MCSboms ==
  {[name |-> "dev", packages |-> Ebuilds], [name |-> "stable-1", packages |-> Ebuilds \o Modules]}

MCRelease == "stable-1" :> "flatcar@1"

In(slot, op, version) == [op |-> op, slot |-> slot, version |-> version, star |-> FALSE]

R(op, version) == In("*", op, version)

Entry(name, arch, vulnerable, unaffected) ==
  [name |-> name, arch |-> arch, vulnerable |-> vulnerable, unaffected |-> unaffected]

Advisory(id, uris, packages) == [id |-> id, uris |-> uris, packages |-> packages]

Fuse == Advisory("201-01", <<<<"CVE-1", "CVE-1">>>>,
  <<Entry(<<"sys-fs", "fuse">>, "*", <<R("lt", "2.0")>>, <<R("ge", "2.0")>>),
    Entry(<<"app-arch", "xz">>, "arm64", <<R("ge", "1.0")>>, <<>>),
    Entry(<<"sys-fs", "fuse">>, " * ", <<R("ge", "1.0")>>, <<>>)>>)

\* One entry per slot, as advisories for several slots have.
FuseSlots == Advisory("201-03", <<<<"CVE-2">>, <<>>, <<"CVE-1", "CVE-2">>>>,
  <<Entry(<<"sys-fs", "fuse">>, "", <<In("0", "lt", "2.0")>>, <<In("0", "ge", "2.0")>>),
    Entry(<<"sys-fs", "fuse">>, "", <<In("3", "lt", "3.0")>>, <<In("3", "ge", "3.0")>>),
    Entry(<<"sys-fs", "fuse">>, "", <<R("lt", "3.0")>>, <<R("ge", "3.0"), R("rge", "live")>>)>>)

\* The affected versions are the newer ones.
Xz == Advisory("201-02", <<<<"CVE-2", "CVE-1">>>>,
  <<Entry(<<"app-arch", "xz">>, "amd64 ~x86", <<R("ge", "2.0")>>, <<R("lt", "2.0")>>)>>)

Odd == Advisory("201-02", <<<<"CVE-2">>>>,
  <<Entry(<<"sys-fs", "fuse">>, "~amd64", <<[op |-> "eq", slot |-> "", version |-> "2.", star |-> TRUE], R("eq", "live")>>,
          <<R("rlt", "1.0"), R("gt", "2.0")>>)>>)

Nameless == [Odd EXCEPT !.id = ""]

NoCves == Advisory("201-01", <<<<>>>>, <<Entry(<<"sys-fs", "fuse">>, "*", <<R("ge", "1.0")>>, <<>>)>>)

Commit(f1, f2, f3) ==
  ("glsa-1.xml" :> f1) @@ ("glsa-2.xml" :> f2) @@ ("glsa-3.xml" :> f3) @@ ("README" :> Garbled) @@
  ("glsa-1.txt" :> Garbled)

\* The advisory IDs do not follow the file names.
MCUpdates ==
  {[from |-> Commit(Fuse, Xz, NoFile), to |-> Commit(NoCves, NoFile, Odd)],
   [from |-> Commit(FuseSlots, Garbled, Fuse), to |-> Commit(FuseSlots, Odd, Garbled)],
   [from |-> Commit(NoFile, NoFile, NoFile), to |-> Commit(NoFile, Nameless, NoFile)],
   [from |-> Commit(NoFile, Garbled, NoFile), to |-> Commit(NoFile, Garbled, NoFile)],
   [from |-> NoDirectory, to |-> NoDirectory]}

Flags(productID, osvEnabled, osvTimeout, osvBaseURL, outPath) ==
  [productID |-> productID, osvEnabled |-> osvEnabled, osvTimeout |-> osvTimeout, osvBaseURL |-> osvBaseURL,
   outPath |-> outPath]

MCOptions ==
  {Flags("product", FALSE, 1, "api", ""), Flags("", TRUE, 1, "api", "out/vex.json"), Flags("", TRUE, 0, "api", ""),
   Flags("", TRUE, -1, "api", ""), Flags("", TRUE, 1, "", "")}

\* For the run against the comments: advisories alone, and nothing that changes.
StatusSboms == {d \in MCSboms : d.name = "dev"}

StatusOptions == {Flags("product", FALSE, 1, "api", "")}

StatusUpdates ==
  LET commit == Commit([FuseSlots EXCEPT !.uris = <<<<"CVE-1">>>>], Xz, Odd)
  IN  {[from |-> commit, to |-> commit]}

MCOsvDb ==
  (<<"golang", "grpc", "v1">> :> <<"GHSA-1", "GO-1">>) @@ (<<"cargo", "ring", "v1">> :> <<"GO-1">>)

MCAliases == ("GHSA-1" :> <<"GO-1", "CVE-1", "CVE-2">>) @@ ("GO-1" :> <<"GHSA-9">>)
====
