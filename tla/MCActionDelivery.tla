-------------------------- MODULE MCActionDelivery --------------------------
(***************************************************************************)
(* Small instances of ActionDelivery for TLC.                              *)
(***************************************************************************)
EXTENDS ActionDelivery, TLC

CONSTANTS t1, t2, g, k, m1

\* The two turns differ in nothing but their names, and no liveness is checked.
MCSymmetry == Permutations({t1, t2})

MCConversationOf == t1 :> g @@ t2 :> g
=============================================================================
