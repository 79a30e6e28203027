---------------------------- MODULE MCLiveAudit ----------------------------
(* Three documents, the second like both others, which are not alike.      *)
EXTENDS LiveAudit

CONSTANTS a, b, c   \* their pages

MCDocOf == [p \in Pages |-> CASE p = a -> 1 [] p = b -> 2 [] p = c -> 3]
MCRank == [p \in Pages |-> IF p = c THEN 90 ELSE 10]
MCAlike == {<<1, 2>>, <<2, 1>>, <<2, 3>>, <<3, 2>>}
=============================================================================
