---- MODULE MCLinkUpdates ----
EXTENDS LinkUpdates, TLC

CONSTANTS A, B, a1, a2

\* Both clients are of A.
TwoOfA == a1 :> A @@ a2 :> A
====
