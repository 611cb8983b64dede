---------------------------- MODULE MCDataPlane ----------------------------
(* Instances of DataPlane for TLC.                                         *)
EXTENDS DataPlane, TLC

CONSTANTS k1, t1, t2, e1, o1, o2, o3

OneConn == {k1}
OneTicket == {t1}
TwoTickets == {t1, t2}
OneEndpoint == {e1}
OneOpen == {o1}
TwoOpens == {o1, o2}
ThreeOpens == {o1, o2, o3}

\* Safety runs only: no operator tells openings or tickets apart.
Symm == Permutations(Opens) \cup Permutations(Tickets)

(* What the future of the safety runs depends on: a signal for a session   *)
(* that has ended, and what an opening that is over was admitted by beyond *)
(* its place in the budgets, tell no states apart.                         *)
SafetyView ==
    <<clock, authority, ticket, snap, issued, active, total, pc, route, by, conn,
      [o \in Opens |-> IF pc[o] \in {"idle", "over"} THEN 0 ELSE seen[o]],
      sessions, closing \cap sessions, signals \cap sessions, opened, todo>>
=============================================================================
