---------------------------- MODULE MCWorkQueue ----------------------------
EXTENDS WorkQueue, TLC

CONSTANTS i1, i2

\* One item with a second attempt, the others without.
MCMaxAttempts == [i \in Items |-> IF i = i1 THEN 2 ELSE 1]

\* Claim ids, workers, sessions and payloads are interchangeable.
MCSymmetry ==
  Permutations(Claims) \cup Permutations(Workers)
    \cup Permutations(Recoverers) \cup Permutations(Payloads)

============================================================================
