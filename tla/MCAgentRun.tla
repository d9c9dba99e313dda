----------------------------- MODULE MCAgentRun -----------------------------
(* Two turns with a slot each; the actor of t1 may use memory.search, which *)
(* needs no review, and memory.propose, which does and prepares an effect.  *)
EXTENDS AgentRun, TLC
CONSTANTS t1, t2, s1, s2, search, propose

MCTurn == {t1, t2}
MCSlot == {s1, s2}
MCTool == {search, propose}
MCPermits == {<<t1, search>>, <<t1, propose>>}
MCReviewed == {propose}
MCPrepared == {propose}
=============================================================================
