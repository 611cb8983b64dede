-------------------------- MODULE DataPlaneProofs --------------------------
(***************************************************************************)
(* The establishment race, for any connections, tickets, endpoints and     *)
(* openings.  The argument: a change of authority commits before it        *)
(* sweeps, and an opening registers before it looks.  A session registered *)
(* before the sweep is found by it; one registered after the sweep looks   *)
(* after the commit.  The ssh agent's ticket sockets do not look, so they  *)
(* are left out by assumption, and so are repositories that fail half-way. *)
(* The budgets of the tickets and the backstop follow, which need neither. *)
(***************************************************************************)
EXTENDS DataPlane, FiniteSetTheorems, TLAPS

\* Every variable starts in its shape.
LEMMA InitShapes == ASSUME LimitsAssumption, SetsAssumption, Init PROVE Shapes
<1>1. snap \in [Tickets -> Snapshot]
  BY DEF Init, Snapshot
<1>2. route \in [Opens -> AllRoutes]
  BY DEF Init, SetsAssumption
<1>3. QED
  BY <1>1, <1>2 DEF Init, Shapes, NoOp, Pending, Registered, Sweep

\* An opening that has not looked is not served, and nothing is owed yet.
LEMMA InitInductive == ASSUME Init PROVE AuthorityInductive
BY DEF Init, AuthorityInductive, SessionsAreTasks, RoutesFit, ChangesVersioned,
       HalfChecked, AuthorityReached, NoOp, Registered

\* Tickets keep their shape.
LEMMA TicketShapes ==
    ASSUME LimitsAssumption, Shapes, NEW t \in Tickets,
           RequestTicket(t) \/ ClearTicket(t) \/ IssueTicket(t)
    PROVE  Shapes'
<1>1. CASE RequestTicket(t)
  <2>1. snap \in [Tickets -> [conn : Conns, version : Nat, gen : Nat]]
        /\ version[snap[t].conn] \in Nat /\ keyGen \in Nat
    BY DEF Shapes, Snapshot
  <2>2. snap' = [snap EXCEPT ![t].version = version[snap[t].conn], ![t].gen = keyGen]
    BY <1>1 DEF RequestTicket
  <2>3. snap' \in [Tickets -> Snapshot]
    BY <2>1, <2>2 DEF Snapshot
  <2>4. QED
    BY <1>1, <2>3 DEF Shapes, RequestTicket, authority, openings, live
<1>2. CASE ClearTicket(t)
  BY <1>2 DEF Shapes, ClearTicket, authority, openings, live, Snapshot
<1>3. CASE IssueTicket(t)
  BY <1>3 DEF Shapes, IssueTicket, authority, openings, live, Swept
<1>4. QED BY <1>1, <1>2, <1>3

\* Openings and sessions keep their shape.
LEMMA OpeningShapes ==
    ASSUME LimitsAssumption, Shapes, NEW o \in Opens, Opening(o)
    PROVE  Shapes'
<1> USE DEF Shapes, authority, tickets, live, Pending, Registered
<1>1. ASSUME NEW t \in Tickets, Redeem(o, t) PROVE Shapes'
  BY <1>1 DEF Redeem, Swept, Snapshot
<1>2. CASE Accept(o)
  BY <1>2 DEF Accept
<1>3. CASE Vet(o)
  BY <1>3 DEF Vet, Drop, AfterReads
<1>4. CASE Confirm(o)
  BY <1>4 DEF Confirm
<1>5. CASE Abandon(o)
  BY <1>5 DEF Abandon, Drop
<1>6. CASE Start(o)
  BY <1>6 DEF Start, AfterStart, Swept
<1>7. CASE Recheck(o)
  BY <1>7 DEF Recheck, Ended
<1>8. CASE Finish(o)
  BY <1>8 DEF Finish, Ended
<1>9. CASE CloseSession(o)
  BY <1>9 DEF CloseSession, openings
<1>10. QED
  BY <1>1, <1>2, <1>3, <1>4, <1>5, <1>6, <1>7, <1>8, <1>9 DEF Opening

\* Changes of authority and the sweeps they owe keep their shape.
LEMMA AuthorityShapes ==
    ASSUME LimitsAssumption, Shapes, Authority
    PROVE  Shapes'
<1> USE DEF Shapes, Rest, tickets, openings, live, Sweep, Owe
<1>1. ASSUME NEW c \in Conns, NEW v \in {"on", "off"}, SetAccess(c, v) PROVE Shapes'
  BY <1>1 DEF SetAccess
<1>2. ASSUME NEW c \in Conns, NEW target \in {"same", "moved"}, Edit(c, target) PROVE Shapes'
  BY <1>2 DEF Edit
<1>3. ASSUME NEW c \in Conns, Rename(c) PROVE Shapes'
  BY <1>3 DEF Rename
<1>4. ASSUME NEW c \in Conns, Delete(c) PROVE Shapes'
  BY <1>4 DEF Delete
<1>5. ASSUME NEW c \in Conns, ReplaceCredential(c) PROVE Shapes'
  BY <1>5 DEF ReplaceCredential
<1>6. CASE DeletePolicy
  BY <1>6 DEF DeletePolicy
<1>7. CASE RemoveEndpoints
  BY <1>7 DEF RemoveEndpoints, NoOp
<1>8. CASE Fail
  BY <1>8 DEF Fail, NoOp
<1>9. ASSUME NEW e \in Endpoints, RevokeEndpoint(e) PROVE Shapes'
  BY <1>9 DEF RevokeEndpoint
<1>10. ASSUME NEW e \in Endpoints, Expire(e) \/ Renew(e) PROVE Shapes'
  BY <1>10 DEF Expire, Renew
<1>11. CASE Rotate
  BY <1>11 DEF Rotate
<1>12. CASE RotateKey
  BY <1>12 DEF RotateKey
<1>13. CASE RotateClose
  BY <1>13 DEF RotateClose, NoOp
<1>14. QED
  BY <1>1, <1>2, <1>3, <1>4, <1>5, <1>6, <1>7, <1>8, <1>9, <1>10, <1>11, <1>12, <1>13
     DEF Authority

\* Every step keeps every shape.
LEMMA StepShapes ==
    ASSUME LimitsAssumption, Shapes, [Next]_vars
    PROVE  Shapes'
<1>1. ASSUME NEW o \in Opens, Signal(o) PROVE Shapes'
  BY <1>1 DEF Shapes, Signal, authority, tickets, openings
<1>2. ASSUME NEW j \in todo, RunSweep(j) PROVE Shapes'
  BY <1>2 DEF Shapes, RunSweep, authority, openings
<1>3. CASE Tick
  BY <1>3 DEF Shapes, Tick, authority, tickets, openings, live
<1>4. CASE UNCHANGED vars
  BY <1>4 DEF Shapes, vars, authority, tickets, openings, live
<1>5. QED
  BY <1>1, <1>2, <1>3, <1>4, TicketShapes, OpeningShapes, AuthorityShapes DEF Next

(***************************************************************************)
(* The establishment race.                                                 *)
(***************************************************************************)

\* What the theorem leaves out: ticket sockets of the ssh agent, which do not
\* look after they register, and repositories that fail between two files.
Closes == "sshTicket" \notin Routes /\ ~Faults

\* Steps of the tickets, and the clock, touch nothing the argument reads.
LEMMA TicketsKeep ==
    ASSUME Shapes, AuthorityInductive,
           UNCHANGED <<authority, openings, sessions, closing, signals, todo>>
    PROVE  AuthorityInductive'
BY DEF Shapes, AuthorityInductive, SessionsAreTasks, RoutesFit, ChangesVersioned,
       HalfChecked, AuthorityReached, Coming, Withdrawn, Reached, authority, openings

\* An opening that moves before its registration is not yet in question.
LEMMA PendingKeeps ==
    ASSUME Shapes, AuthorityInductive, NEW o \in Opens,
           pc[o] \notin Registered, pc'[o] \notin {"registered2", "serving"},
           pc' = [pc EXCEPT ![o] = pc'[o]],
           \A p \in Opens \ {o} : seen'[p] = seen[p],
           sessions' = IF pc'[o] \in Registered THEN sessions \cup {o} ELSE sessions,
           UNCHANGED <<authority, route, by, conn, closing, signals, todo>>
    PROVE  AuthorityInductive'
<1> USE DEF Shapes, AuthorityInductive, authority
<1>1. \A p \in Opens : pc'[p] \in {"registered2", "serving"} => p # o /\ pc'[p] = pc[p]
  OBVIOUS
<1>2. SessionsAreTasks'
  BY DEF SessionsAreTasks
<1>3. RoutesFit' /\ ChangesVersioned'
  BY DEF RoutesFit, ChangesVersioned
<1>4. \A p \in Opens : Coming(p)' <=> Coming(p)
  BY DEF Coming, Reached
<1>5. HalfChecked'
  BY <1>1, <1>4 DEF HalfChecked
<1>6. AuthorityReached'
  <2>1. \A p \in Opens \ {o} : Withdrawn(p)' <=> Withdrawn(p)
    BY DEF Withdrawn
  <2>2. \A p \in Opens : pc[p] = "serving" => p \in sessions
    BY DEF SessionsAreTasks, Registered
  <2>3. QED
    BY <1>1, <1>4, <2>1, <2>2 DEF AuthorityReached
<1>7. QED BY <1>2, <1>3, <1>5, <1>6

\* A session that ends is no longer in question.
LEMMA EndedKeeps ==
    ASSUME Shapes, AuthorityInductive, NEW o \in Opens, Ended(o),
           UNCHANGED <<authority, route, by, conn, seen, closing, signals, todo>>
    PROVE  AuthorityInductive'
<1> USE DEF Shapes, AuthorityInductive, authority
<1>1. \A p \in Opens : pc'[p] \in Registered => p # o /\ pc'[p] = pc[p]
  BY DEF Ended, Registered
<1>2. SessionsAreTasks'
  BY <1>1 DEF SessionsAreTasks, Ended, Registered
<1>3. RoutesFit' /\ ChangesVersioned'
  BY DEF RoutesFit, ChangesVersioned
<1>4. \A p \in Opens : (Coming(p)' <=> Coming(p)) /\ (Withdrawn(p)' <=> Withdrawn(p))
  BY DEF Coming, Reached, Withdrawn
<1>5. HalfChecked'
  BY <1>1, <1>4 DEF HalfChecked, Registered
<1>6. AuthorityReached'
  BY <1>1, <1>4 DEF AuthorityReached, Ended, Registered
<1>7. QED BY <1>2, <1>3, <1>5, <1>6

\* The last look: what it reads is current now, and what it read before is
\* current or its withdrawal is on its way.
LEMMA RecheckKeeps ==
    ASSUME Shapes, AuthorityInductive, NEW o \in Opens, Recheck(o)
    PROVE  AuthorityInductive'
<1>0. UNCHANGED <<authority, route, by, conn, seen, closing, signals, todo>>
  BY DEF Recheck, authority
<1>1. CASE Ended(o)
  BY <1>0, <1>1, EndedKeeps
<1>2. CASE ~Ended(o)
  <2> USE DEF Shapes, AuthorityInductive, authority
  <2>1. /\ \/ pc[o] = "registered" /\ FirstRead(o) /\ pc' = [pc EXCEPT ![o] = "registered2"]
           \/ pc[o] = "registered2" /\ SecondRead(o) /\ pc' = [pc EXCEPT ![o] = "serving"]
        /\ UNCHANGED sessions
    BY <1>2 DEF Recheck
  <2>2. SessionsAreTasks'
    BY <2>1 DEF SessionsAreTasks, Registered
  <2>3. RoutesFit' /\ ChangesVersioned'
    BY <1>0 DEF RoutesFit, ChangesVersioned
  <2>4. \A p \in Opens : (Coming(p)' <=> Coming(p)) /\ (Withdrawn(p)' <=> Withdrawn(p))
    BY <1>0 DEF Coming, Reached, Withdrawn
  <2>5. HalfChecked'
    <3>1. pc[o] = "registered" =>
             /\ route[o] \in ByTicket => access[conn[o]] # "off"
             /\ route[o] \notin ByTicket => endpoint[by[o]] # "gone"
      BY <2>1 DEF FirstRead, Allows
    <3>2. QED
      BY <1>0, <2>1, <2>4, <3>1 DEF HalfChecked
  <2>6. AuthorityReached'
    <3>1. pc[o] = "registered2" /\ Withdrawn(o) => Coming(o)
      BY <2>1 DEF SecondRead, Allows, IsCurrent, Withdrawn, HalfChecked, ChangesVersioned
    <3>2. QED
      BY <2>1, <2>4, <3>1 DEF AuthorityReached
  <2>7. QED BY <2>2, <2>3, <2>5, <2>6
<1>3. QED BY <1>1, <1>2

\* Every step of an opening or its session.
LEMMA OpeningKeeps ==
    ASSUME Closes, Shapes, AuthorityInductive, NEW o \in Opens, Opening(o)
    PROVE  AuthorityInductive'
<1> USE DEF authority, live
<1>1. ASSUME NEW t \in Tickets, Redeem(o, t) PROVE AuthorityInductive'
  BY <1>1, PendingKeeps DEF Redeem, Registered, Shapes
<1>2. CASE Accept(o)
  BY <1>2, PendingKeeps DEF Accept, Registered, Shapes
<1>3. CASE Vet(o)
  BY <1>3, PendingKeeps DEF Vet, Drop, AfterReads, Registered, Shapes
<1>4. CASE Confirm(o)
  BY <1>4, PendingKeeps DEF Confirm, Registered, Shapes
<1>5. CASE Abandon(o)
  BY <1>5, PendingKeeps DEF Abandon, Drop, Registered, Shapes
<1>6. CASE Start(o)
  <2>1. AfterStart(o) = "registered"
    BY DEF AfterStart, AuthorityInductive, RoutesFit, Closes
  <2>2. QED
    BY <1>6, <2>1, PendingKeeps DEF Start, Registered, Shapes
<1>7. CASE Recheck(o)
  BY <1>7, RecheckKeeps
<1>8. CASE Finish(o)
  BY <1>8, EndedKeeps DEF Finish
<1>9. CASE CloseSession(o)
  BY <1>9 DEF CloseSession, openings, Shapes, AuthorityInductive, SessionsAreTasks, RoutesFit,
              ChangesVersioned, HalfChecked, AuthorityReached, Coming, Withdrawn, Reached
<1>10. QED
  BY <1>1, <1>2, <1>3, <1>4, <1>5, <1>6, <1>7, <1>8, <1>9 DEF Opening

\* A sweep hands what it owes to the signals, and a signal to the channel.
LEMMA SweepKeeps ==
    ASSUME Shapes, AuthorityInductive,
           \/ \E j \in todo : RunSweep(j)
           \/ \E o \in Opens : Signal(o)
    PROVE  AuthorityInductive'
<1> USE DEF Shapes, AuthorityInductive, authority, openings
<1>0. UNCHANGED <<authority, openings, sessions>>
  BY DEF RunSweep, Signal
<1>1. SessionsAreTasks' /\ RoutesFit' /\ ChangesVersioned'
  BY <1>0 DEF SessionsAreTasks, RoutesFit, ChangesVersioned
<1>2. \A p \in sessions : Coming(p) => Coming(p)'
  BY <1>0 DEF Coming, Reached, RunSweep, Signal
<1>3. \A p \in Opens : Withdrawn(p)' <=> Withdrawn(p)
  BY <1>0 DEF Withdrawn
<1>4. HalfChecked'
  BY <1>0, <1>2 DEF HalfChecked, SessionsAreTasks, Registered
<1>5. AuthorityReached'
  BY <1>0, <1>2, <1>3 DEF AuthorityReached
<1>6. QED BY <1>1, <1>4, <1>5

\* What a change of authority must do for the argument: what was on its way
\* still is, and what it takes from a session it owes a sweep for.
Accounted ==
    /\ ChangesVersioned'
    /\ \A o \in Opens : Coming(o) => Coming(o)'
    /\ \A o \in Opens : access'[conn[o]] = "off" => access[conn[o]] = "off" \/ Coming(o)'
    /\ \A o \in Opens : by[o] \in Endpoints /\ endpoint'[by[o]] = "gone"
           => endpoint[by[o]] = "gone" \/ Coming(o)'
    /\ \A o \in Opens : version'[conn[o]] = 0 => version[conn[o]] = 0 \/ Coming(o)'
    /\ \A o \in Opens : seen[o] < changed'[conn[o]] => seen[o] < changed[conn[o]] \/ Coming(o)'

\* A change that is accounted for keeps the invariant.
LEMMA AccountedKeeps ==
    ASSUME Shapes, AuthorityInductive, Accounted,
           UNCHANGED <<openings, sessions, closing, signals>>
    PROVE  AuthorityInductive'
<1> USE DEF Shapes, openings, AuthorityInductive
<1>1. SessionsAreTasks' /\ RoutesFit' /\ ChangesVersioned'
  BY DEF SessionsAreTasks, RoutesFit, Accounted
<1>2. HalfChecked'
  BY DEF Accounted, HalfChecked, RoutesFit
<1>3. \A o \in Opens : Withdrawn(o)' => Withdrawn(o) \/ Coming(o)'
  BY DEF Accounted, Withdrawn, RoutesFit
<1>4. AuthorityReached'
  BY <1>3 DEF AuthorityReached, Accounted
<1>5. QED BY <1>1, <1>2, <1>4

\* A sweep that is owed is coming for every session it selects, and takes
\* nothing from what was coming already.
LEMMA OweReaches ==
    ASSUME NEW cs, NEW es, Owe(cs, es), UNCHANGED <<openings, sessions, closing, signals>>,
           op.on \subseteq cs \cup op'.on
    PROVE  /\ \A o \in Opens : conn[o] \in cs \/ by[o] \in es => Coming(o)'
           /\ \A o \in Opens : Coming(o) => Coming(o)'
<1>1. todo \subseteq todo' /\ [conns |-> cs, eps |-> es] \in todo'
  BY DEF Owe
<1>2. \A o \in Opens : conn'[o] = conn[o] /\ by'[o] = by[o]
  BY DEF openings
<1>3. \A o \in Opens : conn[o] \in cs \/ by[o] \in es => Coming(o)'
  <2>1. SUFFICES ASSUME NEW o \in Opens, conn[o] \in cs \/ by[o] \in es
                 PROVE  \E j \in todo' : conn'[o] \in j.conns \/ by'[o] \in j.eps
    BY DEF Coming, Reached
  <2>2. QED BY <1>1, <1>2, <2>1
<1>4. QED BY <1>1, <1>2, <1>3 DEF Coming, Reached

\* A change of authority withdraws nothing it does not owe a sweep for.
LEMMA AuthorityKeeps ==
    ASSUME Closes, Shapes, AuthorityInductive, Authority
    PROVE  AuthorityInductive'
<1> USE DEF Shapes, openings, tickets, live
<1>0. UNCHANGED <<openings, sessions, closing, signals>>
  BY DEF Authority, SetAccess, Edit, Rename, Delete, ReplaceCredential, DeletePolicy,
         RemoveEndpoints, Fail, RevokeEndpoint, Expire, Renew, Rotate, RotateKey,
         RotateClose, Rest
<1>1. SUFFICES Accounted
  BY <1>0, AccountedKeeps
<1>2. ChangesVersioned /\ RoutesFit
  BY DEF AuthorityInductive
<1> USE <1>0, <1>2 DEF Accounted, Idle, ChangesVersioned, NoOp
<1>3. ASSUME NEW c \in Conns, NEW v \in {"on", "off"}, SetAccess(c, v) PROVE Accounted
  <2>1. CASE v = "off"
    <3>1. Owe({c}, {}) /\ op' = op
      BY <1>3, <2>1 DEF SetAccess
    <3>2. QED BY <1>3, <3>1, OweReaches DEF SetAccess
  <2>2. CASE v = "on"
    BY <1>3, <2>2 DEF SetAccess, Coming, Reached
  <2>3. QED BY <2>1, <2>2
<1>4. ASSUME NEW c \in Conns, NEW target \in {"same", "moved"}, Edit(c, target)
      PROVE  Accounted
  <2>1. CASE target = "same"
    <3>1. Owe({c}, {}) /\ op' = op
      BY <1>4, <2>1 DEF Edit
    <3>2. QED BY <1>4, <3>1, OweReaches DEF Edit
  <2>2. CASE target = "moved"
    BY <1>4, <2>2 DEF Edit, Coming, Reached
  <2>3. QED BY <2>1, <2>2
<1>5. ASSUME NEW c \in Conns, Rename(c) PROVE Accounted
  BY <1>5 DEF Rename, Coming, Reached
<1>6. ASSUME NEW c \in Conns, Delete(c) PROVE Accounted
  BY <1>6 DEF Delete, Coming, Reached
<1>7. ASSUME NEW c \in Conns, ReplaceCredential(c) PROVE Accounted
  BY <1>7, OweReaches DEF ReplaceCredential
<1>8. CASE DeletePolicy
  BY <1>8 DEF DeletePolicy, Coming, Reached
<1>9. CASE RemoveEndpoints
  <2>1. DEFINE es == {e \in Endpoints : serves[e] \in op.on}
  <2>2. Owe(op.on, es)
    BY <1>9 DEF RemoveEndpoints
  <2>3. /\ \A o \in Opens : conn[o] \in op.on \/ by[o] \in es => Coming(o)'
        /\ \A o \in Opens : Coming(o) => Coming(o)'
    BY <2>2, OweReaches
  <2>4. /\ endpoint' = [e \in Endpoints |-> IF e \in es THEN "gone" ELSE endpoint[e]]
        /\ UNCHANGED <<access, version, changed>> /\ op' = NoOp
    BY <1>9 DEF RemoveEndpoints
  <2>5. QED BY <2>3, <2>4
<1>10. CASE Fail
  BY <1>10 DEF Fail, Closes
<1>11. ASSUME NEW e \in Endpoints, RevokeEndpoint(e) PROVE Accounted
  <2>1. Owe({}, {e}) /\ op' = op
    BY <1>11 DEF RevokeEndpoint
  <2>2. QED BY <1>11, <2>1, OweReaches DEF RevokeEndpoint
<1>12. ASSUME NEW e \in Endpoints, Expire(e) \/ Renew(e) PROVE Accounted
  BY <1>12 DEF Expire, Renew, Coming, Reached
<1>13. CASE Rotate
  <2>1. Owe({}, Endpoints) /\ op.on = {}
    BY <1>13 DEF Rotate
  <2>2. /\ \A o \in Opens : by[o] \in Endpoints => Coming(o)'
        /\ \A o \in Opens : Coming(o) => Coming(o)'
    BY <2>1, OweReaches
  <2>3. QED BY <1>13, <2>2 DEF Rotate
<1>14. CASE RotateKey
  BY <1>14 DEF RotateKey, Coming, Reached
<1>15. CASE RotateClose
  <2>1. Owe(Conns, {})
    BY <1>15 DEF RotateClose
  <2>2. \A o \in Opens : Coming(o) => Coming(o)'
    BY <2>1, OweReaches
  <2>3. QED BY <1>15, <2>2 DEF RotateClose
<1>16. QED
  BY <1>3, <1>4, <1>5, <1>6, <1>7, <1>8, <1>9, <1>10, <1>11, <1>12, <1>13, <1>14, <1>15
     DEF Authority

\* The inductive invariant is kept by every step.
LEMMA StepInductive ==
    ASSUME Closes, Shapes, AuthorityInductive, [Next]_vars
    PROVE  AuthorityInductive'
<1>1. ASSUME NEW t \in Tickets, RequestTicket(t) \/ ClearTicket(t) \/ IssueTicket(t)
      PROVE  AuthorityInductive'
  BY <1>1, TicketsKeep DEF RequestTicket, ClearTicket, IssueTicket, live
<1>2. CASE Tick
  BY <1>2, TicketsKeep DEF Tick, live
<1>3. CASE UNCHANGED vars
  BY <1>3, TicketsKeep DEF vars, live
<1>4. QED
  BY <1>1, <1>2, <1>3, OpeningKeeps, SweepKeeps, AuthorityKeeps DEF Next

\* Under any limits, with pg tickets and all direct endpoints: no session is
\* served under an authority that was disabled, deleted, repointed or revoked
\* unless its close is on the way, whatever the dial took and however the
\* sweep and the opening interleaved (pg.rs, ssh.rs, apply_domain_outbox).
THEOREM EstablishmentRaceClosed ==
    ASSUME "sshTicket" \notin Routes, ~Faults
    PROVE  Spec => []AuthorityReached
<1>0. Closes
  BY DEF Closes
<1>1. Init => Shapes /\ AuthorityInductive
  BY InitShapes, InitInductive, LimitsAssumption, SetsAssumption
<1>2. Shapes /\ AuthorityInductive /\ [Next]_vars => (Shapes /\ AuthorityInductive)'
  BY <1>0, StepShapes, StepInductive, LimitsAssumption
<1>3. AuthorityInductive => AuthorityReached
  BY DEF AuthorityInductive
<1>4. QED
  BY <1>1, <1>2, <1>3, PTL DEF Spec

(***************************************************************************)
(* The budgets of a ticket.                                                *)
(***************************************************************************)

OpenedBy(t) == {o \in opened : by[o] = t}
Unissued == {"none", "requested", "cleared"}
Issued == {"live", "invalidated"}

\* A ticket in this place, with these counters, these reserved slots, these sessions
\* and these that it ever opened.
Counted(place, act, tot, holds, serves0, opens) ==
    /\ place \in Unissued => act = 0 /\ tot = 0 /\ holds = {} /\ opens = {}
    /\ place \in Issued => /\ act = Cardinality(holds) + Cardinality(serves0)
                           /\ tot = Cardinality(holds) + Cardinality(opens)
                           /\ act <= PerTicket /\ tot <= PerTicketTotal
    /\ place \notin Issued => holds = {} /\ serves0 = {}
    /\ Cardinality(opens) <= PerTicketTotal

TicketCounted(t) ==
    Counted(ticket[t], active[t], total[t], Holding(t), SessionsOf(t), OpenedBy(t))

\* The tasks, the session map and what was ever opened agree; every ticket is counted.
BudgetInductive ==
    /\ SessionsAreTasks /\ RoutesFit
    /\ sessions \subseteq opened /\ \A o \in opened : pc[o] \in Registered \cup {"over"}
    /\ active \in [Tickets -> Nat] /\ total \in [Tickets -> Nat]
    /\ \A t \in Tickets : TicketCounted(t)

\* What a ticket holds, serves and opened are finite sets of openings.
LEMMA BudgetFinite ==
    ASSUME SetsAssumption, Shapes, NEW t \in Tickets
    PROVE  /\ IsFiniteSet(Holding(t)) /\ IsFiniteSet(SessionsOf(t)) /\ IsFiniteSet(OpenedBy(t))
           /\ Cardinality(Holding(t)) \in Nat /\ Cardinality(SessionsOf(t)) \in Nat
           /\ Cardinality(OpenedBy(t)) \in Nat
<1>1. Holding(t) \subseteq Opens /\ SessionsOf(t) \subseteq Opens /\ OpenedBy(t) \subseteq Opens
  BY DEF Holding, SessionsOf, OpenedBy, Shapes
<1>2. IsFiniteSet(Holding(t)) /\ IsFiniteSet(SessionsOf(t)) /\ IsFiniteSet(OpenedBy(t))
  BY <1>1, FS_Subset DEF SetsAssumption
<1>3. QED BY <1>2, FS_CardinalityType

\* At the start no ticket was issued, and nothing opened.
LEMMA BudgetInit == ASSUME LimitsAssumption, SetsAssumption, Init PROVE BudgetInductive
<1>1. \A t \in Tickets : Holding(t) = {} /\ SessionsOf(t) = {} /\ OpenedBy(t) = {}
  BY DEF Init, Holding, SessionsOf, OpenedBy, Pending
<1>2. \A t \in Tickets : TicketCounted(t)
  <2>1. TAKE t \in Tickets
  <2>2. ticket[t] = "none" /\ active[t] = 0 /\ total[t] = 0
    BY DEF Init
  <2>3. Holding(t) = {} /\ SessionsOf(t) = {} /\ OpenedBy(t) = {} /\ Cardinality({}) = 0
    BY <1>1, FS_EmptySet
  <2>4. PerTicketTotal \in Nat
    BY DEF LimitsAssumption
  <2>5. QED BY <2>2, <2>3, <2>4 DEF TicketCounted, Counted, Unissued, Issued
<1>3. QED
  BY <1>2 DEF Init, BudgetInductive, SessionsAreTasks, RoutesFit, Registered

\* The accounts of each ticket are the budgets of it.
LEMMA BudgetMeans ==
    ASSUME LimitsAssumption, SetsAssumption, Shapes, BudgetInductive
    PROVE  TicketBudget
<1>1. ASSUME NEW t \in Tickets
      PROVE  /\ Holding(t) \cup SessionsOf(t) # {} => Known(t)
             /\ Known(t) => /\ active[t] = Cardinality(Holding(t)) + Cardinality(SessionsOf(t))
                            /\ total[t] = Cardinality(Holding(t)) + Cardinality({o \in opened : by[o] = t})
             /\ Cardinality(SessionsOf(t)) <= PerTicket
             /\ Cardinality({o \in opened : by[o] = t}) <= PerTicketTotal
  <2>1. TicketCounted(t) /\ active[t] \in Nat /\ total[t] \in Nat
    BY DEF BudgetInductive
  <2>2. /\ Cardinality(Holding(t)) \in Nat /\ Cardinality(SessionsOf(t)) \in Nat
        /\ Cardinality(OpenedBy(t)) \in Nat
    BY BudgetFinite
  <2>3. PerTicket \in Nat /\ Cardinality({}) = 0
    BY FS_EmptySet DEF LimitsAssumption
  <2>4. CASE ticket[t] \in Issued
    BY <2>1, <2>2, <2>3, <2>4 DEF TicketCounted, Counted, OpenedBy, Known, Issued
  <2>5. CASE ticket[t] \notin Issued
    <3>1. Holding(t) = {} /\ SessionsOf(t) = {} /\ Cardinality(OpenedBy(t)) <= PerTicketTotal
      BY <2>1, <2>5 DEF TicketCounted, Counted
    <3>2. ~Known(t) /\ Cardinality(SessionsOf(t)) <= PerTicket
      BY <2>3, <2>5, <3>1 DEF Known, Issued
    <3>3. QED BY <3>1, <3>2 DEF OpenedBy
  <2>6. QED BY <2>4, <2>5
<1>2. QED BY <1>1 DEF TicketBudget, BudgetExact, WithinBudget

\* What may happen to a ticket while its counters stand: it moves towards its issue, it is
\* invalidated, or it is swept away with nothing under it.
TicketMoves(t) ==
    \/ ticket'[t] = ticket[t]
    \/ ticket[t] \in Unissued
    \/ ticket[t] \in Issued /\ ticket'[t] \in Issued
    \/ ticket[t] \in Issued /\ active[t] = 0 /\ ticket'[t] = "dropped"

\* The same slots, sessions and openings stay counted.
LEMMA TicketStays ==
    ASSUME LimitsAssumption, SetsAssumption, Shapes, BudgetInductive, NEW t \in Tickets,
           TicketMoves(t), active'[t] = active[t], total'[t] = total[t],
           Holding(t)' = Holding(t), SessionsOf(t)' = SessionsOf(t), OpenedBy(t)' = OpenedBy(t)
    PROVE  TicketCounted(t)'
<1>1. TicketCounted(t)
  BY DEF BudgetInductive
<1>2. /\ IsFiniteSet(Holding(t)) /\ IsFiniteSet(SessionsOf(t))
      /\ Cardinality(Holding(t)) \in Nat /\ Cardinality(SessionsOf(t)) \in Nat
  BY BudgetFinite
<1>3. Cardinality({}) = 0 /\ PerTicket \in Nat /\ PerTicketTotal \in Nat
  BY FS_EmptySet DEF LimitsAssumption
<1>4. CASE ticket'[t] = ticket[t] \/ (ticket[t] \in Issued /\ ticket'[t] \in Issued)
  BY <1>1, <1>4 DEF TicketCounted, Counted, Unissued, Issued
<1>5. CASE ticket[t] \in Unissued
  <2>1. active[t] = 0 /\ total[t] = 0 /\ Holding(t) = {} /\ OpenedBy(t) = {} /\ SessionsOf(t) = {}
    BY <1>1, <1>5 DEF TicketCounted, Counted, Unissued, Issued
  <2>2. QED BY <1>3, <2>1 DEF TicketCounted, Counted
<1>6. CASE ticket[t] \in Issued /\ active[t] = 0 /\ ticket'[t] = "dropped"
  <2>1. Cardinality(Holding(t)) = 0 /\ Cardinality(SessionsOf(t)) = 0
    BY <1>1, <1>2, <1>6 DEF TicketCounted, Counted
  <2>2. Holding(t) = {} /\ SessionsOf(t) = {}
    BY <1>2, <2>1, FS_EmptySet
  <2>3. QED BY <1>1, <1>6, <2>2 DEF TicketCounted, Counted, Unissued, Issued
<1>7. QED BY <1>4, <1>5, <1>6 DEF TicketMoves

\* Whether an opening counts depends on its own stage alone.
LEMMA OthersStay ==
    ASSUME Shapes, NEW o \in Opens, NEW t \in Tickets, by[o] # t,
           UNCHANGED by, \A p \in Opens : p # o => pc'[p] = pc[p],
           sessions' \subseteq Opens, opened' \subseteq Opens,
           sessions' \ {o} = sessions \ {o}, opened' \ {o} = opened \ {o}
    PROVE  Holding(t)' = Holding(t) /\ SessionsOf(t)' = SessionsOf(t) /\ OpenedBy(t)' = OpenedBy(t)
BY DEF Holding, SessionsOf, OpenedBy, Shapes

\* The sweep drops no ticket that anything counts under.
LEMMA SweptMoves ==
    ASSUME NEW t \in Tickets, ticket' = Swept \/ ticket' = ticket
    PROVE  TicketMoves(t)
BY DEF Swept, TicketMoves, Issued

\* A step that moves no opening keeps the budgets.
LEMMA QuietBudget ==
    ASSUME LimitsAssumption, SetsAssumption, Shapes, BudgetInductive,
           UNCHANGED <<route, by, sessions, opened, active, total>>,
           \A o \in Opens : \/ pc'[o] = pc[o]
                            \/ pc[o] \in Pending /\ pc'[o] \in Pending
                            \/ pc[o] \in Registered /\ pc'[o] \in Registered
                            \/ pc[o] = "idle" /\ pc'[o] = "over"
                            \/ by[o] \in Endpoints /\ pc[o] \notin Registered \cup {"over"}
                               /\ pc'[o] \notin Registered,
           \A t \in Tickets : TicketMoves(t)
    PROVE  BudgetInductive'
<1>1. ASSUME NEW t \in Tickets PROVE TicketCounted(t)'
  <2>1. \A o \in Opens : by[o] = t => (pc'[o] \in Pending <=> pc[o] \in Pending)
    BY SetsAssumption DEF Pending, Registered, SetsAssumption
  <2>2. Holding(t)' = Holding(t) /\ SessionsOf(t)' = SessionsOf(t) /\ OpenedBy(t)' = OpenedBy(t)
    BY <2>1 DEF Holding, SessionsOf, OpenedBy
  <2>3. QED BY <2>2, TicketStays
<1>2. SessionsAreTasks'
  <2>1. \A o \in Opens : pc'[o] \in Registered <=> pc[o] \in Registered
    BY DEF Pending, Registered
  <2>2. QED BY <2>1 DEF BudgetInductive, SessionsAreTasks
<1>3. \A o \in opened : pc'[o] \in Registered \cup {"over"}
  <2>1. TAKE o \in opened
  <2>2. o \in Opens /\ pc[o] \in Registered \cup {"over"}
    BY DEF Shapes, BudgetInductive
  <2>3. QED BY <2>2 DEF Pending, Registered
<1>4. RoutesFit'
  BY DEF BudgetInductive, RoutesFit
<1>5. QED BY <1>1, <1>2, <1>3, <1>4 DEF BudgetInductive

\* One opening moves: the tickets that did not admit it need nothing, and for its own
\* it is enough to count again.
LEMMA OpeningBudget ==
    ASSUME LimitsAssumption, SetsAssumption, Shapes, BudgetInductive, NEW o \in Opens,
           UNCHANGED <<route, by>>, \A p \in Opens : p # o => pc'[p] = pc[p],
           sessions' \subseteq opened', opened' \subseteq Opens,
           sessions' \ {o} = sessions \ {o}, opened' \ {o} = opened \ {o},
           o \in sessions' <=> pc'[o] \in Registered,
           o \in opened' => pc'[o] \in Registered \cup {"over"},
           \A t \in Tickets : t # by[o] => /\ TicketMoves(t)
                                           /\ active'[t] = active[t] /\ total'[t] = total[t],
           active' \in [Tickets -> Nat], total' \in [Tickets -> Nat],
           by[o] \in Tickets => TicketCounted(by[o])'
    PROVE  BudgetInductive'
<1>1. ASSUME NEW t \in Tickets PROVE TicketCounted(t)'
  <2>1. CASE by[o] = t
    BY <2>1
  <2>2. CASE by[o] # t
    <3>1. Holding(t)' = Holding(t) /\ SessionsOf(t)' = SessionsOf(t) /\ OpenedBy(t)' = OpenedBy(t)
      BY <2>2, OthersStay
    <3>2. TicketCounted(t)'
      BY <2>2, <3>1, TicketStays
    <3>3. QED BY <2>2, <3>2 DEF BudgetInductive
  <2>3. QED BY <2>1, <2>2
<1>2. SessionsAreTasks'
  BY DEF BudgetInductive, SessionsAreTasks, Shapes
<1>3. \A p \in opened' : pc'[p] \in Registered \cup {"over"}
  BY DEF BudgetInductive, Shapes
<1>4. RoutesFit'
  BY DEF BudgetInductive, RoutesFit
<1>5. QED BY <1>1, <1>2, <1>3, <1>4 DEF BudgetInductive

\* Adding and taking away one.
LEMMA CardinalityMoves ==
    ASSUME NEW A, IsFiniteSet(A), NEW x
    PROVE  /\ x \notin A => Cardinality(A \cup {x}) = Cardinality(A) + 1
           /\ x \in A => Cardinality(A \ {x}) = Cardinality(A) - 1 /\ Cardinality(A) > 0
<1>1. Cardinality(A) \in Nat
  BY FS_CardinalityType
<1>2. x \in A => Cardinality(A) # 0
  BY FS_EmptySet
<1>3. x \notin A => Cardinality(A \cup {x}) = Cardinality(A) + 1
  BY FS_AddElement
<1>4. x \in A => Cardinality(A \ {x}) = Cardinality(A) - 1
  BY FS_RemoveElement
<1>5. QED BY <1>1, <1>2, <1>3, <1>4

\* An opening that redeems its ticket takes a slot of both budgets.
LEMMA RedeemBudget ==
    ASSUME LimitsAssumption, SetsAssumption, Shapes, BudgetInductive,
           NEW o \in Opens, NEW t \in Tickets, Redeem(o, t)
    PROVE  BudgetInductive'
<1>0. UNCHANGED <<route, by, sessions, opened>> /\ ticket' = Swept /\ pc[o] = "idle" /\ by[o] = t
  BY DEF Redeem, live
<1>1. \A u \in Tickets : TicketMoves(u)
  BY <1>0, SweptMoves
<1>2. \A p \in Opens : p # o => pc'[p] = pc[p]
  BY DEF Redeem, Shapes
<1>3. o \notin sessions /\ o \notin opened
  BY <1>0 DEF BudgetInductive, SessionsAreTasks, Registered
<1>4. CASE /\ Swept[t] = "live" /\ WithinCaps(t)
           /\ active' = [active EXCEPT ![t] = @ + 1] /\ total' = [total EXCEPT ![t] = @ + 1]
           /\ pc' = [pc EXCEPT ![o] = "admitted"]
  <2>1. pc'[o] = "admitted" /\ ticket[t] = "live" /\ ticket'[t] = "live"
    BY <1>0, <1>4 DEF Swept, Shapes
  <2>2. /\ active' \in [Tickets -> Nat] /\ total' \in [Tickets -> Nat]
        /\ active'[t] = active[t] + 1 /\ total'[t] = total[t] + 1
        /\ \A u \in Tickets : u # t => active'[u] = active[u] /\ total'[u] = total[u]
    BY <1>4 DEF BudgetInductive
  <2>3. Holding(t)' = Holding(t) \cup {o} /\ o \notin Holding(t)
    BY <1>0, <1>2, <2>1 DEF Holding, Pending
  <2>4. SessionsOf(t)' = SessionsOf(t) /\ OpenedBy(t)' = OpenedBy(t)
    BY <1>0 DEF SessionsOf, OpenedBy
  <2>5. /\ Cardinality(Holding(t)') = Cardinality(Holding(t)) + 1
        /\ Cardinality(Holding(t)) \in Nat /\ Cardinality(SessionsOf(t)) \in Nat
        /\ Cardinality(OpenedBy(t)) \in Nat
    BY <2>3, BudgetFinite, CardinalityMoves
  <2>6. /\ active[t] = Cardinality(Holding(t)) + Cardinality(SessionsOf(t))
        /\ total[t] = Cardinality(Holding(t)) + Cardinality(OpenedBy(t))
        /\ Cardinality(OpenedBy(t)) <= PerTicketTotal
        /\ active[t] \in Nat /\ total[t] \in Nat
    BY <2>1 DEF BudgetInductive, TicketCounted, Counted, Issued
  <2>7. active[t] + 1 <= PerTicket /\ total[t] + 1 <= PerTicketTotal
    BY <1>4, <2>6 DEF WithinCaps, LimitsAssumption
  <2>8. TicketCounted(t)'
    BY <2>1, <2>2, <2>4, <2>5, <2>6, <2>7 DEF TicketCounted, Counted, Unissued, Issued
  <2>9. o \notin sessions' /\ o \notin opened' /\ pc'[o] \notin Registered
        /\ sessions' \subseteq opened' /\ opened' \subseteq Opens
    BY <1>0, <1>3, <2>1 DEF Registered, BudgetInductive, Shapes
  <2>10. QED BY <1>0, <1>1, <1>2, <2>2, <2>8, <2>9, OpeningBudget
<1>5. CASE pc' = [pc EXCEPT ![o] = "over"] /\ UNCHANGED <<active, total>>
  BY <1>0, <1>1, <1>2, <1>5, QuietBudget DEF Shapes
<1>6. QED BY <1>4, <1>5 DEF Redeem

\* An opening that ends before it registers gives both slots back.
LEMMA DropBudget ==
    ASSUME LimitsAssumption, SetsAssumption, Shapes, BudgetInductive, NEW o \in Opens,
           pc[o] \in Pending, Drop(o), UNCHANGED <<route, by, sessions, opened, ticket>>
    PROVE  BudgetInductive'
<1>0. /\ \A p \in Opens : p # o => pc'[p] = pc[p]
      /\ pc'[o] = "over" /\ active' = Freed(o) /\ total' = Refunded(o)
  BY DEF Drop, Shapes
<1>1. o \notin sessions /\ o \notin opened
  BY DEF BudgetInductive, SessionsAreTasks, Registered, Pending
<1>2. \A u \in Tickets : u # by[o] => TicketMoves(u) /\ active'[u] = active[u] /\ total'[u] = total[u]
  BY <1>0 DEF TicketMoves, Freed, Refunded
<1>3. ASSUME NEW t \in Tickets, by[o] = t
      PROVE  active'[t] \in Nat /\ total'[t] \in Nat /\ TicketCounted(t)'
  <2>1. o \in Holding(t) /\ Holding(t)' = Holding(t) \ {o}
    BY <1>0, <1>3 DEF Holding, Pending
  <2>2. SessionsOf(t)' = SessionsOf(t) /\ OpenedBy(t)' = OpenedBy(t)
    BY DEF SessionsOf, OpenedBy
  <2>3. /\ Cardinality(Holding(t)') = Cardinality(Holding(t)) - 1 /\ Cardinality(Holding(t)) > 0
        /\ Cardinality(Holding(t)) \in Nat /\ Cardinality(SessionsOf(t)) \in Nat
        /\ Cardinality(OpenedBy(t)) \in Nat
    BY <2>1, BudgetFinite, CardinalityMoves
  <2>4. /\ ticket[t] \in Issued
        /\ active[t] = Cardinality(Holding(t)) + Cardinality(SessionsOf(t))
        /\ total[t] = Cardinality(Holding(t)) + Cardinality(OpenedBy(t))
        /\ active[t] <= PerTicket /\ total[t] <= PerTicketTotal
        /\ Cardinality(OpenedBy(t)) <= PerTicketTotal
    BY <2>1 DEF BudgetInductive, TicketCounted, Counted
  <2>5. active'[t] = active[t] - 1 /\ total'[t] = total[t] - 1
    BY <1>0, <1>3, <2>4 DEF Freed, Refunded, Issued
  <2>6. PerTicket \in Nat /\ PerTicketTotal \in Nat
    BY DEF LimitsAssumption
  <2>7. QED BY <2>2, <2>3, <2>4, <2>5, <2>6 DEF TicketCounted, Counted, Unissued, Issued
<1>4. active' \in [Tickets -> Nat] /\ total' \in [Tickets -> Nat]
  <2>1. \A u \in Tickets : active'[u] \in Nat /\ total'[u] \in Nat
    BY <1>2, <1>3 DEF BudgetInductive
  <2>2. active' = [u \in Tickets |-> active'[u]] /\ total' = [u \in Tickets |-> total'[u]]
    BY <1>0 DEF Freed, Refunded
  <2>3. QED BY <2>1, <2>2
<1>5. o \notin sessions' /\ o \notin opened' /\ pc'[o] \notin Registered
      /\ sessions' \subseteq opened' /\ opened' \subseteq Opens
  BY <1>0, <1>1 DEF Registered, BudgetInductive, Shapes
<1>6. QED BY <1>0, <1>2, <1>3, <1>4, <1>5, OpeningBudget

\* A session that ends gives back its place among the concurrent ones, and no other.
LEMMA EndedBudget ==
    ASSUME LimitsAssumption, SetsAssumption, Shapes, BudgetInductive, NEW o \in Opens,
           pc[o] \in Registered, Ended(o), UNCHANGED <<route, by, opened, ticket, total>>
    PROVE  BudgetInductive'
<1>0. /\ \A p \in Opens : p # o => pc'[p] = pc[p]
      /\ pc'[o] = "over" /\ active' = Freed(o) /\ sessions' = sessions \ {o}
  BY DEF Ended, Shapes
<1>1. o \in sessions /\ o \in opened
  BY DEF BudgetInductive, SessionsAreTasks
<1>2. \A u \in Tickets : u # by[o] => TicketMoves(u) /\ active'[u] = active[u] /\ total'[u] = total[u]
  BY <1>0 DEF TicketMoves, Freed
<1>3. ASSUME NEW t \in Tickets, by[o] = t PROVE active'[t] \in Nat /\ TicketCounted(t)'
  <2>1. o \in SessionsOf(t) /\ SessionsOf(t)' = SessionsOf(t) \ {o}
    BY <1>0, <1>1, <1>3 DEF SessionsOf
  <2>2. Holding(t)' = Holding(t) /\ OpenedBy(t)' = OpenedBy(t)
    BY <1>0 DEF Holding, OpenedBy, Pending, Registered
  <2>3. /\ Cardinality(SessionsOf(t)') = Cardinality(SessionsOf(t)) - 1 /\ Cardinality(SessionsOf(t)) > 0
        /\ Cardinality(Holding(t)) \in Nat /\ Cardinality(SessionsOf(t)) \in Nat
    BY <2>1, BudgetFinite, CardinalityMoves
  <2>4. /\ ticket[t] \in Issued
        /\ active[t] = Cardinality(Holding(t)) + Cardinality(SessionsOf(t))
        /\ total[t] = Cardinality(Holding(t)) + Cardinality(OpenedBy(t))
        /\ active[t] <= PerTicket /\ total[t] <= PerTicketTotal
        /\ Cardinality(OpenedBy(t)) <= PerTicketTotal
    BY <1>1, <2>1 DEF BudgetInductive, TicketCounted, Counted
  <2>5. active'[t] = active[t] - 1
    BY <1>0, <1>3, <2>4 DEF Freed, Issued
  <2>6. PerTicket \in Nat
    BY DEF LimitsAssumption
  <2>7. QED BY <2>2, <2>3, <2>4, <2>5, <2>6 DEF TicketCounted, Counted, Unissued, Issued
<1>4. active' \in [Tickets -> Nat] /\ total' \in [Tickets -> Nat]
  <2>1. \A u \in Tickets : active'[u] \in Nat
    BY <1>2, <1>3 DEF BudgetInductive
  <2>2. active' = [u \in Tickets |-> active'[u]]
    BY <1>0 DEF Freed
  <2>3. QED BY <2>1, <2>2 DEF BudgetInductive
<1>5. /\ o \notin sessions' /\ pc'[o] \notin Registered /\ pc'[o] \in Registered \cup {"over"}
      /\ sessions' \subseteq opened' /\ opened' \subseteq Opens /\ sessions' \ {o} = sessions \ {o}
  BY <1>0 DEF Registered, BudgetInductive, Shapes
<1>6. QED BY <1>0, <1>2, <1>3, <1>4, <1>5, OpeningBudget

\* An opening that registers turns its reserved slot into a session.
LEMMA StartBudget ==
    ASSUME LimitsAssumption, SetsAssumption, Shapes, BudgetInductive, NEW o \in Opens, Start(o)
    PROVE  BudgetInductive'
<1>0. UNCHANGED <<route, by, active, total>> /\ pc[o] = "dialed" /\ (ticket' = ticket \/ ticket' = Swept)
  BY DEF Start
<1>1. \A u \in Tickets : TicketMoves(u)
  BY <1>0, SweptMoves
<1>2. \A p \in Opens : p # o => pc'[p] = pc[p]
  BY DEF Start, Shapes
<1>3. o \notin sessions /\ o \notin opened
  BY <1>0 DEF BudgetInductive, SessionsAreTasks, Registered
<1>4. CASE /\ sessions' = sessions \cup {o} /\ opened' = opened \cup {o}
           /\ pc' = [pc EXCEPT ![o] = AfterStart(o)]
  <2>1. pc'[o] \in Registered
    BY <1>4 DEF AfterStart, Registered, Shapes
  <2>2. ASSUME NEW t \in Tickets, by[o] = t PROVE TicketCounted(t)'
    <3>1. ticket'[t] = ticket[t]
      BY SetsAssumption, <2>2 DEF Start, BudgetInductive, RoutesFit, SetsAssumption
    <3>2. o \in Holding(t) /\ Holding(t)' = Holding(t) \ {o}
      BY <1>0, <1>2, <2>1, <2>2 DEF Holding, Pending, Registered
    <3>3. /\ SessionsOf(t)' = SessionsOf(t) \cup {o} /\ OpenedBy(t)' = OpenedBy(t) \cup {o}
          /\ o \notin SessionsOf(t) /\ o \notin OpenedBy(t)
      BY <1>0, <1>3, <1>4, <2>2 DEF SessionsOf, OpenedBy
    <3>4. /\ Cardinality(Holding(t)') = Cardinality(Holding(t)) - 1 /\ Cardinality(Holding(t)) > 0
          /\ Cardinality(SessionsOf(t)') = Cardinality(SessionsOf(t)) + 1
          /\ Cardinality(OpenedBy(t)') = Cardinality(OpenedBy(t)) + 1
          /\ Cardinality(Holding(t)) \in Nat /\ Cardinality(SessionsOf(t)) \in Nat
          /\ Cardinality(OpenedBy(t)) \in Nat
      BY <3>2, <3>3, BudgetFinite, CardinalityMoves
    <3>5. /\ ticket[t] \in Issued
          /\ active[t] = Cardinality(Holding(t)) + Cardinality(SessionsOf(t))
          /\ total[t] = Cardinality(Holding(t)) + Cardinality(OpenedBy(t))
          /\ active[t] <= PerTicket /\ total[t] <= PerTicketTotal
      BY <3>2 DEF BudgetInductive, TicketCounted, Counted
    <3>6. PerTicket \in Nat /\ PerTicketTotal \in Nat
      BY DEF LimitsAssumption
    <3>7. QED BY <1>0, <3>1, <3>4, <3>5, <3>6 DEF TicketCounted, Counted, Unissued, Issued
  <2>3. /\ sessions' \subseteq opened' /\ opened' \subseteq Opens /\ o \in sessions'
        /\ sessions' \ {o} = sessions \ {o} /\ opened' \ {o} = opened \ {o}
    BY <1>4 DEF BudgetInductive, Shapes
  <2>4. active' \in [Tickets -> Nat] /\ total' \in [Tickets -> Nat]
    BY <1>0 DEF BudgetInductive
  <2>5. QED BY <1>0, <1>1, <1>2, <2>1, <2>2, <2>3, <2>4, OpeningBudget
<1>5. CASE /\ route[o] \notin ByTicket /\ pc' = [pc EXCEPT ![o] = "over"]
           /\ UNCHANGED <<sessions, opened>>
  <2>1. by[o] \in Endpoints
    BY <1>5 DEF BudgetInductive, RoutesFit
  <2>2. pc[o] \notin Registered \cup {"over"} /\ pc'[o] \notin Registered
    BY <1>0, <1>5 DEF Registered, Shapes
  <2>3. QED BY <1>0, <1>1, <1>2, <1>5, <2>1, <2>2, QuietBudget
<1>6. QED BY <1>4, <1>5 DEF Start

\* A step of one opening moves the accounts of its own ticket, both counters with the sets.
LEMMA OpeningStepBudget ==
    ASSUME LimitsAssumption, SetsAssumption, Shapes, BudgetInductive, NEW o \in Opens, Opening(o)
    PROVE  BudgetInductive'
<1>0. ticket' = ticket => \A t \in Tickets : TicketMoves(t)
  BY DEF TicketMoves
<1>1. CASE \E t \in Tickets : Redeem(o, t)
  BY <1>1, RedeemBudget
<1>2. CASE Accept(o)
  BY <1>0, <1>2, QuietBudget DEF Accept, Shapes, tickets, live, Registered
<1>3. CASE Vet(o)
  <2>1. UNCHANGED <<route, by, sessions, opened, ticket>> /\ pc[o] \in Pending
    BY <1>3 DEF Vet, live, Pending
  <2>2. CASE Drop(o)
    BY <2>1, <2>2, DropBudget
  <2>3. CASE /\ UNCHANGED <<active, total>>
             /\ \/ pc' = [pc EXCEPT ![o] = IF pc[o] = "admitted" THEN "admitted2" ELSE "asked2"]
                \/ pc' = [pc EXCEPT ![o] = AfterReads(o)]
    <3>1. \A p \in Opens : pc'[p] = pc[p] \/ (pc[p] \in Pending /\ pc'[p] \in Pending)
      BY <2>1, <2>3 DEF Shapes, AfterReads, Pending
    <3>2. QED BY <1>0, <2>1, <2>3, <3>1, QuietBudget
  <2>4. QED BY <1>3, <2>2, <2>3 DEF Vet
<1>4. CASE Confirm(o)
  <2>1. \A p \in Opens : pc'[p] = pc[p] \/ (pc[p] \in Pending /\ pc'[p] \in Pending)
    BY <1>4 DEF Confirm, Shapes, Pending
  <2>2. QED BY <1>0, <1>4, <2>1, QuietBudget DEF Confirm, tickets, live
<1>5. CASE Abandon(o)
  BY <1>5, DropBudget DEF Abandon, live, Pending
<1>6. CASE Start(o)
  BY <1>6, StartBudget
<1>7. CASE Recheck(o)
  <2>1. UNCHANGED <<route, by, opened, ticket, total>> /\ pc[o] \in Registered
    BY <1>7 DEF Recheck, Registered
  <2>2. CASE Ended(o)
    BY <2>1, <2>2, EndedBudget
  <2>3. CASE /\ UNCHANGED <<sessions, active>>
             /\ pc' = [pc EXCEPT ![o] = IF pc[o] = "registered" THEN "registered2" ELSE "serving"]
    <3>1. \A p \in Opens : pc'[p] = pc[p] \/ (pc[p] \in Registered /\ pc'[p] \in Registered)
      BY <2>1, <2>3 DEF Shapes, Registered
    <3>2. QED BY <1>0, <2>1, <2>3, <3>1, QuietBudget
  <2>4. QED BY <1>7, <2>2, <2>3 DEF Recheck
<1>8. CASE Finish(o)
  BY <1>8, EndedBudget DEF Finish
<1>9. CASE CloseSession(o)
  BY <1>0, <1>9, QuietBudget DEF CloseSession, tickets, openings
<1>10. QED
  BY <1>1, <1>2, <1>3, <1>4, <1>5, <1>6, <1>7, <1>8, <1>9 DEF Opening

\* Every step keeps the accounts.
LEMMA StepBudget ==
    ASSUME LimitsAssumption, SetsAssumption, Shapes, BudgetInductive, [Next]_vars
    PROVE  BudgetInductive'
<1>1. ASSUME NEW t \in Tickets, RequestTicket(t) \/ ClearTicket(t) \/ IssueTicket(t)
      PROVE  BudgetInductive'
  <2>1. UNCHANGED <<active, total, openings, live>>
    BY <1>1 DEF RequestTicket, ClearTicket, IssueTicket
  <2>2. \A u \in Tickets : TicketMoves(u)
    BY <1>1 DEF RequestTicket, ClearTicket, IssueTicket, TicketMoves, Swept, Unissued, Issued, Shapes
  <2>3. QED BY <2>1, <2>2, QuietBudget DEF openings, live
<1>2. ASSUME NEW j \in todo, RunSweep(j) PROVE BudgetInductive'
  <2>1. UNCHANGED <<active, total, openings, sessions, opened>>
    BY <1>2 DEF RunSweep
  <2>2. \A u \in Tickets : TicketMoves(u)
    BY <1>2 DEF RunSweep, TicketMoves, Issued
  <2>3. QED BY <2>1, <2>2, QuietBudget DEF openings
<1>3. ASSUME UNCHANGED <<tickets, openings, sessions, opened>> PROVE BudgetInductive'
  BY <1>3, QuietBudget DEF tickets, openings, TicketMoves
<1>4. Authority => UNCHANGED <<tickets, openings, live>>
  BY DEF Authority, SetAccess, Rename, Edit, Delete, DeletePolicy, RemoveEndpoints, Fail,
         ReplaceCredential, RevokeEndpoint, Expire, Renew, Rotate, RotateKey, RotateClose, Rest
<1>5. QED
  BY <1>1, <1>2, <1>3, <1>4, OpeningStepBudget DEF Next, Signal, Tick, vars, live

\* For any limits, tickets and openings, faults included: what the counters of a ticket
\* say is exactly what was reserved, serves and was opened under it, a ticket in use is
\* never swept away, and neither cap is passed (sessions.rs redeem, Redemption::drop,
\* start_with_fields, finish_inner, sweep).
THEOREM BudgetsHold == Spec => []TicketBudget
<1>1. Init => Shapes /\ BudgetInductive
  BY InitShapes, BudgetInit, LimitsAssumption, SetsAssumption
<1>2. Shapes /\ BudgetInductive /\ [Next]_vars => (Shapes /\ BudgetInductive)'
  BY StepShapes, StepBudget, LimitsAssumption, SetsAssumption
<1>3. Shapes /\ BudgetInductive => TicketBudget
  BY BudgetMeans, LimitsAssumption, SetsAssumption
<1>4. QED
  BY <1>1, <1>2, <1>3, PTL DEF Spec

\* The sessions of direct endpoints.
OfEndpoints == {o \in sessions : route[o] \notin ByTicket}

\* A set grows by at most one with an element.
LEMMA OneMore ==
    ASSUME NEW S, IsFiniteSet(S), NEW x
    PROVE  Cardinality(S \cup {x}) <= Cardinality(S) + 1 /\ Cardinality(S \cup {x}) \in Nat
<1>1. Cardinality(S) \in Nat
  BY FS_CardinalityType
<1>2. CASE x \in S
  <2>1. S \cup {x} = S
    BY <1>2
  <2>2. QED BY <1>1, <2>1
<1>3. CASE x \notin S
  <2>1. Cardinality(S \cup {x}) = Cardinality(S) + 1
    BY <1>3, FS_AddElement
  <2>2. QED BY <1>1, <2>1
<1>4. QED BY <1>2, <1>3

\* Whatever ends or is closed leaves fewer of them, and only an endpoint's own start, which
\* asked for room, makes one more.
LEMMA StepBackstop ==
    ASSUME LimitsAssumption, SetsAssumption, Shapes, EndpointsWithinBackstop, [Next]_vars
    PROVE  EndpointsWithinBackstop'
<1>0. /\ IsFiniteSet(sessions) /\ IsFiniteSet(OfEndpoints) /\ Cardinality(OfEndpoints) <= Global
      /\ Cardinality(OfEndpoints) <= Cardinality(sessions)
      /\ Cardinality(OfEndpoints) \in Nat /\ Cardinality(sessions) \in Nat /\ Global \in Nat
  <2>1. IsFiniteSet(sessions)
    BY FS_Subset DEF SetsAssumption, Shapes
  <2>2. OfEndpoints \subseteq sessions
    BY DEF OfEndpoints
  <2>3. IsFiniteSet(OfEndpoints) /\ Cardinality(OfEndpoints) <= Cardinality(sessions)
    BY <2>1, <2>2, FS_Subset
  <2>4. QED
    BY <2>1, <2>3, FS_CardinalityType DEF EndpointsWithinBackstop, OfEndpoints, LimitsAssumption
<1>1. ASSUME OfEndpoints' \subseteq OfEndpoints PROVE EndpointsWithinBackstop'
  <2>1. Cardinality(OfEndpoints') <= Cardinality(OfEndpoints) /\ Cardinality(OfEndpoints') \in Nat
    BY <1>0, <1>1, FS_Subset, FS_CardinalityType
  <2>2. QED BY <1>0, <2>1 DEF EndpointsWithinBackstop, OfEndpoints
<1>2. ASSUME NEW o \in Opens, Start(o) PROVE EndpointsWithinBackstop'
  <2>1. UNCHANGED route
    BY <1>2 DEF Start
  <2>2. CASE route[o] \notin ByTicket /\ Room /\ sessions' = sessions \cup {o}
    <3>1. OfEndpoints' = OfEndpoints \cup {o}
      BY <2>1, <2>2 DEF OfEndpoints
    <3>2. Cardinality(OfEndpoints') <= Cardinality(OfEndpoints) + 1 /\ Cardinality(OfEndpoints') \in Nat
      BY <1>0, <3>1, OneMore
    <3>3. Cardinality(sessions) < Global
      BY <2>2 DEF Room
    <3>4. QED BY <1>0, <3>2, <3>3 DEF EndpointsWithinBackstop, OfEndpoints
  <2>3. CASE sessions' = sessions \/ (route[o] \in ByTicket /\ sessions' = sessions \cup {o})
    BY <1>1, <2>1, <2>3 DEF OfEndpoints
  <2>4. QED BY <1>2, <2>2, <2>3 DEF Start
<1>3. ASSUME sessions' \subseteq sessions, UNCHANGED route PROVE EndpointsWithinBackstop'
  BY <1>1, <1>3 DEF OfEndpoints
<1>4. ASSUME NEW o \in Opens, Opening(o) PROVE EndpointsWithinBackstop'
  <2>1. CASE \E t \in Tickets : Redeem(o, t)
    BY <1>3, <2>1 DEF Redeem, live
  <2>2. CASE Accept(o) \/ Vet(o) \/ Confirm(o) \/ Abandon(o) \/ CloseSession(o)
    BY <1>3, <2>2 DEF Accept, Vet, Confirm, Abandon, CloseSession, live, openings
  <2>3. CASE Recheck(o) \/ Finish(o)
    BY <1>3, <2>3 DEF Recheck, Finish, Ended
  <2>4. QED BY <1>2, <1>4, <2>1, <2>2, <2>3 DEF Opening
<1>5. Authority => UNCHANGED <<openings, live>>
  BY DEF Authority, SetAccess, Rename, Edit, Delete, DeletePolicy, RemoveEndpoints, Fail,
         ReplaceCredential, RevokeEndpoint, Expire, Renew, Rotate, RotateKey, RotateClose, Rest
<1>6. ASSUME NEW t \in Tickets, RequestTicket(t) \/ ClearTicket(t) \/ IssueTicket(t)
      PROVE  UNCHANGED <<openings, live>>
  BY <1>6 DEF RequestTicket, ClearTicket, IssueTicket
<1>7. ASSUME NEW j \in todo, RunSweep(j) PROVE UNCHANGED <<openings, sessions>>
  BY <1>7 DEF RunSweep
<1>8. QED
  BY <1>3, <1>4, <1>5, <1>6, <1>7 DEF Next, Signal, Tick, vars, openings, live

\* The sessions of direct endpoints, which reserve nothing ahead of their dial, never
\* fill more than the backstop (start_endpoint_session_with_fields).
THEOREM EndpointsBounded == Spec => []EndpointsWithinBackstop
<1>1. Init => Shapes /\ EndpointsWithinBackstop
  <2>1. Init => OfEndpoints = {} /\ Shapes
    BY InitShapes, LimitsAssumption, SetsAssumption DEF Init, OfEndpoints
  <2>2. Cardinality({}) = 0 /\ Global \in Nat
    BY FS_EmptySet, LimitsAssumption DEF LimitsAssumption
  <2>3. QED BY <2>1, <2>2 DEF EndpointsWithinBackstop, OfEndpoints
<1>2. Shapes /\ EndpointsWithinBackstop /\ [Next]_vars => (Shapes /\ EndpointsWithinBackstop)'
  BY StepShapes, StepBackstop, LimitsAssumption, SetsAssumption
<1>3. QED
  BY <1>1, <1>2, PTL DEF Spec
=============================================================================
