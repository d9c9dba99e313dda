-------------------------- MODULE MCEventPipeline --------------------------
(***************************************************************************)
(* Instances of EventListener, and with it of EventPipeline, for TLC.  The *)
(* transport is chosen at the start: two messages over a WebSocket, or one *)
(* that is posted, and posted again.                                       *)
(***************************************************************************)
EXTENDS EventListener

CONSTANTS m1, m2, c1, c2, p1, p2

MCMessage == {m1, m2}
MCPost == {p1, p2}

\* One conversation, or one each.
MCOneConversation == [m \in MCMessage |-> c1]
MCTwoConversations == [m \in MCMessage |-> IF m = m1 THEN c1 ELSE c2]
=============================================================================
