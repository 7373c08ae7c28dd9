-------------------------- MODULE MCSchedulingQueue --------------------------
(* Four requests: session a has two in the first tier, session b has one, and *)
(* one more of session b waits in the second tier.                            *)
EXTENDS SchedulingQueue, TLC

CONSTANTS r1, r2, r3, r4, a, b

MCSessionOf == (r1 :> a) @@ (r2 :> a) @@ (r3 :> b) @@ (r4 :> b)
MCPriorityOf == (r1 :> 0) @@ (r2 :> 0) @@ (r3 :> 0) @@ (r4 :> 1)
==============================================================================
