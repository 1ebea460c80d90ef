---- MODULE MCPortage ----
(***************************************************************************)
(* The laws of the comparator, checked over every triple of a set of       *)
(* version strings that has each pair of fields in conflict, missing       *)
(* trailing components, unwritten numbers, every suffix kind, numbers at   *)
(* and beyond MaxInt, and a string that does not match the pattern.        *)
(***************************************************************************)
EXTENDS PortageLaws, TLC

V(numeric, letter, kind, num, rev) ==
  [numeric |-> numeric, letter |-> letter, suffixKind |-> kind,
   suffixNum |-> num, revision |-> rev]

MCCaptures ==
  "1"         :> V(<<1>>, 0, "", -1, -1)        @@
  "1.0"       :> V(<<1, 0>>, 0, "", -1, -1)     @@
  "1.0.2"     :> V(<<1, 0, 2>>, 0, "", -1, -1)  @@
  "1.1"       :> V(<<1, 1>>, 0, "", -1, -1)     @@
  "10-r0"     :> V(<<10>>, 0, "", -1, 0)        @@
  "1.0b"      :> V(<<1, 0>>, 2, "", -1, -1)     @@
  "1.0_alpha2" :> V(<<1, 0>>, 0, "alpha", 2, -1) @@
  "1.0_rc-r1" :> V(<<1, 0>>, 0, "rc", -1, 1)    @@
  "1_rc0"     :> V(<<1>>, 0, "rc", 0, -1)       @@
  "1.0_p"     :> V(<<1, 0>>, 0, "p", -1, -1)    @@
  "1.0_p3-r2" :> V(<<1, 0>>, 0, "p", 3, 2)      @@
  "1.0-r1"    :> V(<<1, 0>>, 0, "", -1, 1)      @@
  "1.0_pre"   :> V(<<1, 0>>, 0, "pre", -1, -1)  @@
  "1.0_beta9" :> V(<<1, 0>>, 0, "beta", 9, -1)  @@
  "1.0_p20"   :> V(<<1, 0>>, 0, "p", 20, -1)    @@
  "1.0_p21"   :> V(<<1, 0>>, 0, "p", 21, -1)    @@
  "22"        :> V(<<22>>, 0, "", -1, -1)

MCStrings == DOMAIN MCCaptures \cup {"9999-live"}

MCHasPrefix(s, prefix) == s = prefix
====
