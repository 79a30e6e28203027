-------------------------- MODULE MCSessionDelivery --------------------------
(* An instance of SessionDelivery: which message is in which session and    *)
(* what kinds of message and of poll there are.                             *)
EXTENDS SessionDelivery

CONSTANTS m1, m2, s1, s2, active, sweep

SameSession == (m1 :> s1) @@ (m2 :> s1)
FilesDenied == (m1 :> "files") @@ (m2 :> "denied")
OneOfEach == (active :> "active") @@ (sweep :> "sweep")
=============================================================================
