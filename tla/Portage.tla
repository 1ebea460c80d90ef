---- MODULE Portage ----
(***************************************************************************)
(* The Portage version comparator (src/internal/portage/version.go) and    *)
(* the ranges of an advisory it decides.                                   *)
(*                                                                         *)
(* Version strings are strings.  What versionPattern captures of each one  *)
(* is given as a constant: the dotted numbers, the letter (0: none, 1: a,  *)
(* ...), the suffix kind ("" for none), the suffix number and the revision *)
(* (Unwritten where the string has no digits), whatever their size.  A     *)
(* string that the pattern rejects has no entry.                           *)
(***************************************************************************)
EXTENDS Integers, Sequences, FiniteSetsExt

CONSTANTS
  Captures,        \* version string -> its fields
  MaxInt,          \* the greatest int
  HasPrefix(_, _)  \* strings.HasPrefix

Unwritten == -1

SuffixKinds == {"alpha", "beta", "pre", "rc", "", "p"}

ASSUME CapturesAssumption ==
  /\ MaxInt \in Nat
  /\ \A s \in DOMAIN Captures :
       Captures[s] \in [numeric : Seq(Nat), letter : Nat, suffixKind : SuffixKinds,
                        suffixNum : Nat \cup {Unwritten}, revision : Nat \cup {Unwritten}]

\* strconv.Atoi: the value for a number that is too great comes with an error.
Atoi(n) == IF n > MaxInt THEN MaxInt ELSE n

Numbers(s) ==
  {Captures[s].numeric[i] : i \in DOMAIN Captures[s].numeric}
    \cup {Captures[s].suffixNum, Captures[s].revision}

\* Slip: that error is not looked at.
ParsesWhatMatches(s) == s \in DOMAIN Captures

Parses(s) == s \in DOMAIN Captures /\ \A n \in Numbers(s) : n <= MaxInt

Number(n) == IF n = Unwritten THEN 0 ELSE Atoi(n)

parseVersion(s) ==
  LET c == Captures[s]
  IN  [c EXCEPT !.numeric = [i \in DOMAIN @ |-> Atoi(@[i])],
                !.suffixNum = Number(@), !.revision = Number(@)]

----
sign(n) == IF n < 0 THEN -1 ELSE IF n > 0 THEN 1 ELSE 0

\* Slip: a patch release ranks with the pre-releases.
suffixRankPatchFirst ==
  [k \in SuffixKinds |->
    CASE k = "p" -> 0 [] k = "alpha" -> 1 [] k = "beta" -> 2
      [] k = "pre" -> 3 [] k = "rc" -> 4 [] k = "" -> 5]

suffixRank ==
  [k \in SuffixKinds |->
    CASE k = "alpha" -> 0 [] k = "beta" -> 1 [] k = "pre" -> 2
      [] k = "rc" -> 3 [] k = "" -> 4 [] k = "p" -> 5]

\* The i-th component; a missing trailing one counts as 0.
Component(s, i) == IF i \in DOMAIN s THEN s[i] ELSE 0

\* Slip: the loop ends with the shorter list.
DifferencesInBoth(a, b) ==
  {i \in DOMAIN a \cap DOMAIN b : Component(a, i) # Component(b, i)}

Differences(a, b) ==
  {i \in DOMAIN a \cup DOMAIN b : Component(a, i) # Component(b, i)}

\* The first component that differs decides.
compareNumeric(a, b) ==
  IF Differences(a, b) = {} THEN 0
  ELSE LET i == Min(Differences(a, b))
       IN  sign(Component(a, i) - Component(b, i))

compareByte(a, b) == sign(a - b)

\* version.compare: the first field that differs decides.
compare(v, o) ==
  LET byNumber == compareNumeric(v.numeric, o.numeric)
      byLetter == compareByte(v.letter, o.letter)
      byKind   == sign(suffixRank[v.suffixKind] - suffixRank[o.suffixKind])
      bySuffix == sign(v.suffixNum - o.suffixNum)
  IN  CASE byNumber # 0 -> byNumber
        [] byNumber = 0 /\ byLetter # 0 -> byLetter
        [] byNumber = 0 /\ byLetter = 0 /\ byKind # 0 -> byKind
        [] byNumber = 0 /\ byLetter = 0 /\ byKind = 0 /\ bySuffix # 0 -> bySuffix
        [] OTHER -> sign(v.revision - o.revision)

\* For two strings that parse.
Compare(a, b) == compare(parseVersion(a), parseVersion(b))

----
(* A range of a GLSA: its operator, its version, and whether the version   *)
(* ends in "*".                                                            *)

Ops == {"ge", "rge", "gt", "le", "lt", "rlt", "eq"}

\* Slip: the boundary itself satisfies "gt".
HoldsInclusive(op, c) ==
  \/ op \in {"ge", "rge", "gt"} /\ c >= 0
  \/ op = "le" /\ c <= 0
  \/ op \in {"lt", "rlt"} /\ c < 0
  \/ op = "eq" /\ c = 0

Holds(op, c) ==
  \/ op \in {"ge", "rge"} /\ c >= 0
  \/ op = "gt" /\ c > 0
  \/ op = "le" /\ c <= 0
  \/ op \in {"lt", "rlt"} /\ c < 0
  \/ op = "eq" /\ c = 0

\* "match", "no", or "error" when a version or the operator is not understood.
\* An "eq" with a trailing "*" compares strings and parses neither version.
Satisfies(installed, r) ==
  IF r.op = "eq" /\ r.star
  THEN IF HasPrefix(installed, r.version) THEN "match" ELSE "no"
  ELSE IF ~Parses(installed) \/ ~Parses(r.version) \/ r.star \/ r.op \notin Ops
       THEN "error"
       ELSE IF Holds(r.op, Compare(installed, r.version)) THEN "match" ELSE "no"
====
