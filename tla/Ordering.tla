-------------------------------- MODULE Ordering --------------------------------
(* What Python's round, sorted and max do, as far as the transformations of *)
(* recordings into files use them.                                          *)
EXTENDS Integers, FiniteSets

\* round(n / d): to the nearest integer, and to the even one of two.
Nearest(n, d) ==
  LET whole == n \div d
      rest  == n % d
  IN  IF 2 * rest < d \/ (2 * rest = d /\ whole % 2 = 0) THEN whole ELSE whole + 1

Larger(m, n) == IF m > n THEN m ELSE n

\* Tuples of integers compare by their first difference.
Precedes(s, t) ==
  \E k \in DOMAIN s : s[k] < t[k] /\ \A i \in 1..(k - 1) : s[i] = t[i]

\* The elements of S by key; keys are distinct.
SortedBy(S, Key(_)) ==
  [k \in 1..Cardinality(S) |->
    CHOOSE x \in S : Cardinality({y \in S : Precedes(Key(y), Key(x))}) = k - 1]

================================================================================
