---------------------------- MODULE MCApprovals ----------------------------
(* Instances of Approvals for TLC.                                         *)
EXTENDS Approvals, TLC

CONSTANTS a1, a2, c1, c2, c3, k1, k2

TwoCalls == {c1, c2}
ThreeCalls == {c1, c2, c3}
OneConn == {k1}
TwoConns == {k1, k2}
OneAgent == {a1}
TwoAgents == {a1, a2}

\* Safety runs only: no operator tells calls, agents or connections apart.
Symm == Permutations(Calls) \cup Permutations(Conns) \cup Permutations(Agents)

(* What the future of the safety runs depends on.  Instants that nothing   *)
(* reads any more, a job or a monitor whose prompt is gone (all they still *)
(* do is nothing, or what Read does) tell no states apart.                 *)
Waited(p) == p \in pending \/ \E c \in Calls : rides[c] = p /\ pc[c] = "parked"
Watched(p) == p \in pending /\ pc[p] # "raised"
SafetyView ==
    <<clock, skew, surface, want, pc, rides, inbox, result, via, pending, waiters,
      inflight, grants, cooldowns, {j \in todo : j.id \in pending}, outbox, history, outcome,
      [c \in Calls |-> IF pc[c] = "swept" THEN since[c] ELSE [now |-> 0, wall |-> 0]],
      [p \in Calls |-> IF Waited(p) THEN <<deadline[p], expires[p]>> ELSE <<0, 0>>],
      [p \in Calls |-> IF Watched(p) THEN <<monitor[p], graceEnd[p]>> ELSE <<"over", 0>>]>>
=============================================================================
