---- MODULE PortageLaws ----
(***************************************************************************)
(* The laws of the version comparator (Portage), of any three strings: a   *)
(* state is three of them, and a step takes another one for the oldest.    *)
(***************************************************************************)
EXTENDS Portage

CONSTANT Strings  \* the version strings

VARIABLES a, b, c

Init == a \in Strings /\ b \in Strings /\ c \in Strings

\* Forget the oldest of the three and take another.
Next == \E s \in Strings : a' = b /\ b' = c /\ c' = s

Spec == Init /\ [][Next]_<<a, b, c>>

Bound(op, version) == [op |-> op, version |-> version, star |-> FALSE]

(* Compare is a total preorder: each string equals itself, swapping the    *)
(* operands flips the sign, and order and equality carry through a third   *)
(* string.  (An advisory with several ranges relies on it.)                *)
TotalPreorder ==
  Parses(a) /\ Parses(b) /\ Parses(c) =>
    /\ Compare(a, a) = 0
    /\ Compare(a, b) = -Compare(b, a)
    /\ Compare(a, b) <= 0 /\ Compare(b, c) <= 0 => Compare(a, c) <= 0
    /\ Compare(a, b) = 0 => Compare(a, c) = Compare(b, c)

(* The reference: what was captured as a row of numbers, the dotted ones   *)
(* padded with zeros to the given width, ordered as in a dictionary, with  *)
(* pre-releases before and patches after.                                  *)
KindOrder == <<"alpha", "beta", "pre", "rc", "", "p">>

Written(n) == IF n = Unwritten THEN 0 ELSE n

Row(s, width) ==
  LET v == Captures[s]
      rank == CHOOSE i \in DOMAIN KindOrder : KindOrder[i] = v.suffixKind
  IN  [i \in 1 .. width |-> Component(v.numeric, i)]
        \o <<v.letter, rank, Written(v.suffixNum), Written(v.revision)>>

\* As wide as the longer of the two.
Width(s, t) ==
  LET m == Len(Captures[s].numeric)
      n == Len(Captures[t].numeric)
  IN  IF m > n THEN m ELSE n

Before(row, other) ==
  \E i \in DOMAIN row : row[i] < other[i] /\ \A j \in 1 .. i - 1 : row[j] = other[j]

(* Compare, which stops at the first field that differs, agrees with the   *)
(* reference above: two versions are equal exactly when their rows are.    *)
(* No number is cut off at MaxInt on the way.                              *)
AgreesWithReference ==
  Parses(a) /\ Parses(b) =>
    LET w == Width(a, b)
    IN  /\ Compare(a, b) < 0 <=> Before(Row(a, w), Row(b, w))
        /\ Compare(a, b) = 0 <=> Row(a, w) = Row(b, w)

(* The operators cut the versions in two at every boundary: exactly one of *)
(* lt and ge, of gt and le holds, eq is what is in both ge and le, and     *)
(* what is below a boundary is below every greater one (Satisfies).        *)
RangesPartition ==
  Parses(a) /\ Parses(b) =>
    LET Is(op) == Satisfies(a, Bound(op, b)) = "match"
    IN  /\ Is("lt") <=> ~Is("ge")
        /\ Is("gt") <=> ~Is("le")
        /\ Is("eq") <=> Is("ge") /\ Is("le")
        /\ Parses(c) /\ Is("lt") /\ Satisfies(b, Bound("lt", c)) = "match" =>
             Satisfies(a, Bound("lt", c)) = "match"
====
