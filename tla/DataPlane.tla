----------------------------- MODULE DataPlane -----------------------------
(***************************************************************************)
(* Tickets, live sessions and the authority behind them:                   *)
(* crates/aka-core/src/sessions.rs, the four ways the pg and ssh proxies   *)
(* open a session through it, and the changes of authority (domain.rs,     *)
(* endpoints.rs, broker.rs) that must reach what is already open.          *)
(*                                                                         *)
(* A change of authority commits first and closes sessions afterwards; an  *)
(* opening reads the authority, waits for the user, dials, registers, and  *)
(* reads the authority again.  Each lock held and each await is an action, *)
(* so that the two may interleave in every way.                            *)
(*                                                                         *)
(* An opening registers at most one session, so the session is named by    *)
(* the opening.  Why a session closes is left out: nothing here reads it.  *)
(***************************************************************************)
EXTENDS Integers, FiniteSets

CONSTANTS
    Conns,           \* connections
    Tickets,         \* ticket values that may be minted
    Endpoints,       \* direct endpoints, issued before the model starts
    Opens,           \* client connections to a proxy
    Routes,          \* the ways in that this instance exercises
    PerTicket,       \* concurrent sessions of one ticket
    PerTicketTotal,  \* sessions one ticket may ever open
    Global,          \* the broker-wide backstop
    TicketTtl,       \* redemption window of a ticket
    Keep,            \* how long an expired ticket is remembered
    Faults,          \* TRUE: a repository may fail between two files
    MaxTime,         \* bound: last modelled instant
    MaxVersion       \* bound: edits of a connection

AllRoutes == {"pgTicket", "sshTicket", "pgEndpoint", "sshEndpoint"}
ByTicket == {"pgTicket", "sshTicket"}

ASSUME LimitsAssumption ==
    /\ {PerTicket, PerTicketTotal, Global, TicketTtl, Keep, MaxTime, MaxVersion} \subseteq Nat
    /\ Faults \in BOOLEAN

ASSUME SetsAssumption ==
    /\ IsFiniteSet(Opens)
    /\ Routes \subseteq AllRoutes
    /\ Tickets \cap Endpoints = {}

VARIABLES
    clock,     \* Instant::now()
    keyGen,    \* generation of the shared key
    access,    \* connection -> its policy entry's `enabled`
    version,   \* connection -> updated_at; 0 once deleted
    changed,   \* ghost: connection -> version of its last change of capability
    endpoint,  \* endpoint -> its place in the registry
    serves,    \* endpoint -> its connection_id
    op,        \* the mutation that holds config_gate between two commits
    ticket,    \* ticket -> its place in State::tickets
    snap,      \* ticket -> the connection snapshot, and the key generation that asked
    issued,    \* ticket -> TicketEntry::issued
    active,    \* ticket -> TicketEntry::active_sessions
    total,     \* ticket -> TicketEntry::total_sessions
    pc,        \* opening -> where its proxy task is
    route,     \* opening -> which proxy, admitted by what
    by,        \* opening -> the ticket or endpoint that admitted it
    conn,      \* opening -> its connection
    seen,      \* opening -> approved_version
    sessions,  \* State::sessions
    closing,   \* sessions whose close channel holds a reason
    todo,      \* close sweeps that committed changes still owe
    signals,   \* sessions a sweep found and has not signalled yet
    opened     \* ghost: openings that ever registered a session

authority == <<keyGen, access, version, changed, endpoint, serves, op>>
tickets   == <<ticket, snap, issued, active, total>>
openings  == <<pc, route, by, conn, seen>>
live      == <<sessions, closing, signals, opened>>
vars      == <<clock, authority, tickets, openings, live, todo>>

-----------------------------------------------------------------------------
Snapshot == [conn : Conns, version : Nat, gen : Nat]
Sweep    == [conns : SUBSET Conns, eps : SUBSET Endpoints]
NoOp     == [kind |-> "none", on |-> {}]

\* The stages of an opening before it registers, and after.
Pending   == {"admitted", "admitted2", "asking", "asked", "asked2", "dialing", "dialed"}
Registered == {"registered", "registered2", "serving"}

Shapes ==
    /\ clock \in Nat /\ keyGen \in Nat
    /\ access \in [Conns -> {"on", "off"}]
    /\ version \in [Conns -> Nat] /\ changed \in [Conns -> Nat]
    /\ endpoint \in [Endpoints -> {"active", "expired", "gone"}]
    /\ serves \in [Endpoints -> Conns]
    /\ op \in [kind : {"none", "retarget", "delete", "delete2", "rotate", "rotate2"},
               on : SUBSET Conns]
    /\ ticket \in [Tickets -> {"none", "requested", "cleared", "live", "invalidated", "dropped"}]
    /\ snap \in [Tickets -> Snapshot]
    /\ issued \in [Tickets -> Nat]
    /\ pc \in [Opens -> Pending \cup Registered \cup {"idle", "over"}]
    /\ route \in [Opens -> AllRoutes]
    /\ by \in [Opens -> Tickets \cup Endpoints]
    /\ conn \in [Opens -> Conns]
    /\ seen \in [Opens -> Nat]
    /\ sessions \subseteq Opens /\ closing \subseteq Opens
    /\ signals \subseteq Opens /\ opened \subseteq Opens
    /\ todo \subseteq Sweep

\* A type invariant: every variable keeps its shape, and no counter of a
\* ticket is taken below zero.
TypeOK == Shapes /\ active \in [Tickets -> Nat] /\ total \in [Tickets -> Nat]

\* What each opening will try is fixed at the start; an endpoint serves one
\* connection for as long as it exists.
Init ==
    /\ clock = 0 /\ keyGen = 0
    /\ access = [c \in Conns |-> "on"]
    /\ version = [c \in Conns |-> 1] /\ changed = [c \in Conns |-> 1]
    /\ endpoint = [e \in Endpoints |-> "active"]
    /\ serves \in [Endpoints -> Conns]
    /\ op = NoOp
    /\ ticket = [t \in Tickets |-> "none"]
    /\ snap \in [Tickets -> [conn : Conns, version : {0}, gen : {0}]]
    /\ issued = [t \in Tickets |-> 0]
    /\ active = [t \in Tickets |-> 0] /\ total = [t \in Tickets |-> 0]
    /\ pc = [o \in Opens |-> "idle"]
    /\ route \in [Opens -> Routes]
    /\ by \in [Opens -> Tickets \cup Endpoints]
    /\ conn \in [Opens -> Conns]
    /\ \A o \in Opens :
          \/ route[o] \in ByTicket /\ by[o] \in Tickets /\ conn[o] = snap[by[o]].conn
          \/ route[o] \notin ByTicket /\ by[o] \in Endpoints /\ conn[o] = serves[by[o]]
    /\ seen = [o \in Opens |-> 0]
    /\ sessions = {} /\ closing = {} /\ signals = {} /\ opened = {}
    /\ todo = {}

-----------------------------------------------------------------------------
(* Tickets.                                                                *)

Allows(c) == access[c] = "on"
IsCurrent(c, v) == version[c] # 0 /\ version[c] = v

\* Mutant: an expired ticket is forgotten whatever runs under it.
SweptByAge == [t \in Tickets |->
    IF ticket[t] \in {"live", "invalidated"} /\ clock - issued[t] > TicketTtl
    THEN "dropped" ELSE ticket[t]]

\* DataPlane::sweep: what every issue, redemption and endpoint session starts with.
Swept == [t \in Tickets |->
    IF /\ ticket[t] \in {"live", "invalidated"}
       /\ active[t] = 0 /\ clock - issued[t] > TicketTtl + Keep
    THEN "dropped" ELSE ticket[t]]

\* An authenticated open request: the connection as it is now, if allowed.
RequestTicket(t) ==
    /\ ticket[t] = "none"
    /\ version[snap[t].conn] # 0
    /\ Allows(snap[t].conn)
    /\ ticket' = [ticket EXCEPT ![t] = "requested"]
    /\ snap' = [snap EXCEPT ![t].version = version[snap[t].conn], ![t].gen = keyGen]
    /\ UNCHANGED <<clock, authority, issued, active, total, openings, live, todo>>

\* run_allowed's check at the execution boundary ...
ClearTicket(t) ==
    /\ ticket[t] = "requested"
    /\ ticket' = [ticket EXCEPT ![t] =
          IF IsCurrent(snap[t].conn, snap[t].version) /\ Allows(snap[t].conn)
          THEN "cleared" ELSE "dropped"]
    /\ UNCHANGED <<clock, authority, snap, issued, active, total, openings, live, todo>>

\* ... and issue(), the executor behind it.
IssueTicket(t) ==
    /\ ticket[t] = "cleared"
    /\ ticket' = [Swept EXCEPT ![t] = "live"]
    /\ issued' = [issued EXCEPT ![t] = clock]
    /\ UNCHANGED <<clock, authority, snap, active, total, openings, live, todo>>

-----------------------------------------------------------------------------
(* An opening, up to its session.                                          *)

\* The broker-wide backstop counts registered sessions.
Room == Cardinality(sessions) < Global

\* The two budgets of one approval.
WithinCaps(t) == active[t] < PerTicket /\ total[t] < PerTicketTotal

\* redeem(): reserve a slot of the ticket's two budgets.
Redeem(o, t) ==
    /\ pc[o] = "idle" /\ by[o] = t
    /\ ticket' = Swept
    /\ \/ /\ Swept[t] = "live"
          /\ clock - issued[t] <= TicketTtl
          /\ WithinCaps(t)
          /\ Room
          /\ active' = [active EXCEPT ![t] = @ + 1]
          /\ total' = [total EXCEPT ![t] = @ + 1]
          /\ seen' = [seen EXCEPT ![o] = snap[t].version]
          /\ pc' = [pc EXCEPT ![o] = "admitted"]
       \/ /\ \/ Swept[t] # "live" \/ clock - issued[t] > TicketTtl
             \/ ~WithinCaps(t) \/ ~Room
          /\ pc' = [pc EXCEPT ![o] = "over"]
          /\ UNCHANGED <<active, total, seen>>
    /\ UNCHANGED <<clock, authority, snap, issued, route, by, conn, live, todo>>

\* A client on a direct endpoint's listener: no slot is reserved.
Accept(o) ==
    /\ pc[o] = "idle" /\ by[o] \in Endpoints
    /\ pc' = [pc EXCEPT ![o] = "admitted"]
    /\ UNCHANGED <<clock, authority, tickets, route, by, conn, seen, live, todo>>

\* What Redemption::drop and finish_inner give back of `active`.
Freed(o) ==
    [t \in Tickets |-> IF t = by[o] /\ ticket[t] \in {"live", "invalidated"}
                       THEN active[t] - 1 ELSE active[t]]
\* Redemption::drop gives back the cumulative slot too.
Refunded(o) ==
    [t \in Tickets |-> IF t = by[o] /\ ticket[t] \in {"live", "invalidated"}
                       THEN total[t] - 1 ELSE total[t]]

\* The opening is refused, fails or is cancelled before it registers.
Drop(o) ==
    /\ pc' = [pc EXCEPT ![o] = "over"]
    /\ active' = Freed(o)
    /\ total' = Refunded(o)

\* The authority is read in two steps, before the user is asked, before the
\* dial and after the registration: a ticket's opening reads the policy and
\* then the connection, an endpoint's reads the registry and then the rest.
FirstRead(o) ==
    IF route[o] \in ByTicket THEN Allows(conn[o]) ELSE endpoint[by[o]] = "active"
SecondRead(o) ==
    IF route[o] \in ByTicket THEN IsCurrent(conn[o], seen[o])
    ELSE /\ Allows(conn[o])
         /\ pc[o] = "admitted2" => version[conn[o]] # 0
         /\ pc[o] = "asked2" => IsCurrent(conn[o], seen[o])

\* Where an opening goes when its two reads are good: pg asks the user, then
\* dials; ssh confirms signatures, not sessions, and dials nothing.
AfterReads(o) ==
    IF pc[o] = "asked2" THEN "dialing"
    ELSE IF route[o] \in {"pgTicket", "pgEndpoint"} THEN "asking" ELSE "dialed"

Vet(o) ==
    /\ \/ /\ pc[o] \in {"admitted", "asked"} /\ FirstRead(o)
          /\ pc' = [pc EXCEPT ![o] = IF pc[o] = "admitted" THEN "admitted2" ELSE "asked2"]
          /\ UNCHANGED <<active, total, seen>>
       \/ /\ pc[o] \in {"admitted2", "asked2"} /\ SecondRead(o)
          /\ pc' = [pc EXCEPT ![o] = AfterReads(o)]
          /\ seen' = [seen EXCEPT ![o] =
                IF route[o] \notin ByTicket /\ pc[o] = "admitted2" THEN version[conn[o]] ELSE @]
          /\ UNCHANGED <<active, total>>
       \/ /\ \/ pc[o] \in {"admitted", "asked"} /\ ~FirstRead(o)
             \/ pc[o] \in {"admitted2", "asked2"} /\ ~SecondRead(o)
          /\ Drop(o)
          /\ UNCHANGED seen
    /\ UNCHANGED <<clock, authority, ticket, snap, issued, route, by, conn, live, todo>>

\* confirm_session: the switch is off, or the gate allowed the session; and
\* the upstream answered.
Confirm(o) ==
    /\ pc[o] \in {"asking", "dialing"}
    /\ pc' = [pc EXCEPT ![o] = IF pc[o] = "asking" THEN "asked" ELSE "dialed"]
    /\ UNCHANGED <<clock, authority, tickets, route, by, conn, seen, live, todo>>

\* The gate refused, the client hung up, the dial failed or timed out.
Abandon(o) ==
    /\ pc[o] \in {"asking", "dialing"}
    /\ Drop(o)
    /\ UNCHANGED <<clock, authority, ticket, snap, issued, route, by, conn, seen, live, todo>>

\* Mutant: a pg ticket's session is served without a last look.
AfterStartUnchecked(o) ==
    IF route[o] \in ByTicket THEN "serving" ELSE "registered"
\* All but the ssh agent's ticket sockets look again once registered.
AfterStart(o) == IF route[o] = "sshTicket" THEN "serving" ELSE "registered"

\* Redemption::start_with_fields and start_endpoint_session_with_fields; only
\* the second asks for room.
Start(o) ==
    /\ pc[o] = "dialed"
    /\ \/ /\ route[o] \in ByTicket \/ Room
          /\ sessions' = sessions \cup {o}
          /\ opened' = opened \cup {o}
          /\ pc' = [pc EXCEPT ![o] = AfterStart(o)]
       \/ /\ route[o] \notin ByTicket /\ ~Room
          /\ pc' = [pc EXCEPT ![o] = "over"]
          /\ UNCHANGED <<sessions, opened>>
    /\ ticket' = IF route[o] \in ByTicket THEN ticket ELSE Swept
    /\ UNCHANGED <<clock, authority, snap, issued, active, total, route, by, conn, seen,
                   closing, signals, todo>>

\* finish_inner, through finish() or the handle's drop.
Ended(o) ==
    /\ sessions' = sessions \ {o}
    /\ pc' = [pc EXCEPT ![o] = "over"]
    /\ active' = Freed(o)

\* The last look: serve, or retire the session just registered.
Recheck(o) ==
    /\ \/ /\ \/ pc[o] = "registered" /\ FirstRead(o)
             \/ pc[o] = "registered2" /\ SecondRead(o)
          /\ pc' = [pc EXCEPT ![o] = IF pc[o] = "registered" THEN "registered2" ELSE "serving"]
          /\ UNCHANGED <<sessions, active>>
       \/ /\ \/ pc[o] = "registered" /\ ~FirstRead(o)
             \/ pc[o] = "registered2" /\ ~SecondRead(o)
          /\ Ended(o)
    /\ UNCHANGED <<clock, authority, ticket, snap, issued, total, route, by, conn, seen,
                   closing, signals, opened, todo>>

\* Either leg closes, a lifetime bound fires, or the task is cancelled.
Finish(o) ==
    /\ pc[o] \in Registered
    /\ Ended(o)
    /\ UNCHANGED <<clock, authority, ticket, snap, issued, total, route, by, conn, seen,
                   closing, signals, opened, todo>>

\* Mutant: the task of a session that a ticket opened does not select on it.
CloseSignalledEndpoint(o) ==
    pc[o] = "serving" /\ o \in closing /\ by[o] \in Endpoints /\ Finish(o)
\* The task selects on its close signal once it serves.
CloseSignalled(o) == pc[o] = "serving" /\ o \in closing /\ Finish(o)

-----------------------------------------------------------------------------
(* Closing.                                                                *)

\* close_session, from the user's live-session list.
CloseSession(o) ==
    /\ o \in sessions \ closing
    /\ closing' = closing \cup {o}
    /\ UNCHANGED <<clock, authority, tickets, openings, sessions, signals, opened, todo>>

\* close_connection_sessions, close_endpoint_sessions and close_all (every
\* connection) differ in what they select.
Reached(j, o) == conn[o] \in j.conns \/ by[o] \in j.eps

\* Under the lock: invalidate the tickets, collect the sessions.
RunSweep(j) ==
    /\ j \in todo
    /\ todo' = todo \ {j}
    /\ ticket' = [t \in Tickets |->
          IF ticket[t] = "live" /\ snap[t].conn \in j.conns THEN "invalidated" ELSE ticket[t]]
    /\ signals' = signals \cup {o \in sessions : Reached(j, o)}
    /\ UNCHANGED <<clock, authority, snap, issued, active, total, openings, sessions,
                   closing, opened>>

\* After the unlock: signal_close on each channel; the first reason stays.
Signal(o) ==
    /\ o \in signals
    /\ signals' = signals \ {o}
    /\ closing' = closing \cup {o}
    /\ UNCHANGED <<clock, authority, tickets, openings, sessions, opened, todo>>

-----------------------------------------------------------------------------
(* Changes of authority, one at a time under config_gate.  What a commit   *)
(* owes the data plane goes to `todo`: apply_domain_outbox runs after it.  *)

Idle == op.kind = "none"
Owe(cs, es) == todo' = todo \cup {[conns |-> cs, eps |-> es]}
Rest == UNCHANGED <<clock, serves, tickets, openings, live>>

\* ui_set_tool_access.
SetAccess(c, v) ==
    /\ Idle /\ version[c] # 0 /\ access[c] # v
    /\ access' = [access EXCEPT ![c] = v]
    /\ IF v = "off" THEN Owe({c}, {}) ELSE UNCHANGED todo
    /\ UNCHANGED <<keyGen, version, changed, endpoint, op>> /\ Rest

\* A rename moves updated_at and closes nothing.
Rename(c) ==
    /\ Idle /\ version[c] \in 1 .. MaxVersion - 1
    /\ version' = [version EXCEPT ![c] = @ + 1]
    /\ UNCHANGED <<keyGen, access, changed, endpoint, op, todo>> /\ Rest

\* update_connection with a changed capability; a changed target also takes
\* the endpoints, in a second file.
Edit(c, target) ==
    /\ Idle /\ version[c] \in 1 .. MaxVersion - 1
    /\ version' = [version EXCEPT ![c] = @ + 1]
    /\ changed' = [changed EXCEPT ![c] = version[c] + 1]
    /\ \/ target = "same" /\ Owe({c}, {}) /\ UNCHANGED op
       \/ target = "moved" /\ op' = [kind |-> "retarget", on |-> {c}] /\ UNCHANGED todo
    /\ UNCHANGED <<keyGen, access, endpoint>> /\ Rest

\* delete_connection: the catalog, the policy entry, the endpoints.
Delete(c) ==
    /\ Idle /\ version[c] # 0
    /\ version' = [version EXCEPT ![c] = 0]
    /\ op' = [kind |-> "delete", on |-> {c}]
    /\ UNCHANGED <<keyGen, access, changed, endpoint, todo>> /\ Rest

\* Without an entry a connection reads as enabled.
DeletePolicy ==
    /\ op.kind = "delete"
    /\ access' = [c \in Conns |-> IF c \in op.on THEN "on" ELSE access[c]]
    /\ op' = [op EXCEPT !.kind = "delete2"]
    /\ UNCHANGED <<keyGen, version, changed, endpoint, todo>> /\ Rest

\* The endpoints' file; then the whole change is owed.
RemoveEndpoints ==
    /\ op.kind \in {"retarget", "delete2"}
    /\ LET es == {e \in Endpoints : serves[e] \in op.on}
       IN  /\ endpoint' = [e \in Endpoints |-> IF e \in es THEN "gone" ELSE endpoint[e]]
           /\ Owe(op.on, es)
    /\ op' = NoOp
    /\ UNCHANGED <<keyGen, access, version, changed>> /\ Rest

\* A repository fails: the operation returns its error, with nothing owed.
Fail ==
    /\ Faults
    /\ op.kind \in {"retarget", "delete", "delete2", "rotate"}
    /\ op' = NoOp
    /\ UNCHANGED <<keyGen, access, version, changed, endpoint, todo>> /\ Rest

\* edit_credential with a new value: updated_at of the connection stays.
ReplaceCredential(c) ==
    /\ Idle /\ version[c] # 0
    /\ Owe({c}, {})
    /\ UNCHANGED <<keyGen, access, version, changed, endpoint, op>> /\ Rest

\* ui_revoke_endpoint.
RevokeEndpoint(e) ==
    /\ Idle /\ endpoint[e] # "gone"
    /\ endpoint' = [endpoint EXCEPT ![e] = "gone"]
    /\ Owe({}, {e})
    /\ UNCHANGED <<keyGen, access, version, changed, op>> /\ Rest

\* is_expired: the record stays, and so do its sessions; renew() brings it back.
Expire(e) ==
    /\ endpoint[e] = "active"
    /\ endpoint' = [endpoint EXCEPT ![e] = "expired"]
    /\ UNCHANGED <<keyGen, access, version, changed, op, todo>> /\ Rest

Renew(e) ==
    /\ Idle /\ endpoint[e] = "expired"
    /\ endpoint' = [endpoint EXCEPT ![e] = "active"]
    /\ UNCHANGED <<keyGen, access, version, changed, op, todo>> /\ Rest

\* ui_rotate_key: the endpoints, the key, then everything.
Rotate ==
    /\ Idle /\ keyGen = 0
    /\ endpoint' = [e \in Endpoints |-> "gone"]
    /\ Owe({}, Endpoints)
    /\ op' = [kind |-> "rotate", on |-> {}]
    /\ UNCHANGED <<keyGen, access, version, changed>> /\ Rest

RotateKey ==
    /\ op.kind = "rotate"
    /\ keyGen' = keyGen + 1
    /\ op' = [op EXCEPT !.kind = "rotate2"]
    /\ UNCHANGED <<access, version, changed, endpoint, todo>> /\ Rest

RotateClose ==
    /\ op.kind = "rotate2"
    /\ Owe(Conns, {})
    /\ op' = NoOp
    /\ UNCHANGED <<keyGen, access, version, changed, endpoint>> /\ Rest

Tick == clock < MaxTime /\ clock' = clock + 1
        /\ UNCHANGED <<authority, tickets, openings, live, todo>>

-----------------------------------------------------------------------------
Opening(o) ==
    \/ \E t \in Tickets : Redeem(o, t)
    \/ Accept(o) \/ Vet(o) \/ Confirm(o) \/ Abandon(o) \/ Start(o) \/ Recheck(o)
    \/ Finish(o) \/ CloseSession(o)

Authority ==
    \/ \E c \in Conns : \/ \E v \in {"on", "off"} : SetAccess(c, v)
                        \/ \E target \in {"same", "moved"} : Edit(c, target)
                        \/ Rename(c) \/ Delete(c) \/ ReplaceCredential(c)
    \/ DeletePolicy \/ RemoveEndpoints \/ Fail
    \/ \E e \in Endpoints : RevokeEndpoint(e) \/ Expire(e) \/ Renew(e)
    \/ Rotate \/ RotateKey \/ RotateClose

Next ==
    \/ \E t \in Tickets : RequestTicket(t) \/ ClearTicket(t) \/ IssueTicket(t)
    \/ \E o \in Opens : Opening(o) \/ Signal(o)
    \/ \E j \in todo : RunSweep(j)
    \/ Authority
    \/ Tick

Spec == Init /\ [][Next]_vars

(* A mutation that began runs to its end, an outbox that was committed is  *)
(* applied, and a session task sees its close signal.                      *)
Fairness ==
    /\ WF_vars(DeletePolicy \/ RemoveEndpoints \/ RotateKey \/ RotateClose)
    /\ WF_vars(\E j \in todo : RunSweep(j))
    /\ \A o \in Opens : WF_vars(Signal(o)) /\ WF_vars(CloseSignalled(o))

FairSpec == Spec /\ Fairness
-----------------------------------------------------------------------------
(* Properties.                                                             *)

Holding(t) == {o \in Opens : by[o] = t /\ pc[o] \in Pending}
SessionsOf(t) == {o \in sessions : by[o] = t}
Known(t) == ticket[t] \in {"live", "invalidated"}

\* The budgets are exact through every refusal, failed dial, cancellation,
\* close and sweep: `active_sessions` is what the ticket reserves and serves,
\* `total_sessions` what it ever opened and may yet open, and a ticket in use
\* is never swept away, which would forget both.
BudgetExact ==
    \A t \in Tickets :
        /\ Holding(t) \cup SessionsOf(t) # {} => Known(t)
        /\ Known(t) =>
              /\ active[t] = Cardinality(Holding(t)) + Cardinality(SessionsOf(t))
              /\ total[t] = Cardinality(Holding(t))
                            + Cardinality({o \in opened : by[o] = t})

\* A captured ticket never opens more sessions than its two caps, however its
\* redemptions race.
WithinBudget ==
    \A t \in Tickets :
        /\ Cardinality(SessionsOf(t)) <= PerTicket
        /\ Cardinality({o \in opened : by[o] = t}) <= PerTicketTotal

\* The backstop holds for direct endpoints, which reserve nothing ahead of
\* their dial: however they race, they never fill more than the backstop.
EndpointsWithinBackstop ==
    Cardinality({o \in sessions : route[o] \notin ByTicket}) <= Global

\* The authority a session was opened under has been taken away.
Withdrawn(o) ==
    \/ access[conn[o]] = "off"
    \/ route[o] \in ByTicket /\ (version[conn[o]] = 0 \/ seen[o] < changed[conn[o]])
    \/ route[o] \notin ByTicket /\ endpoint[by[o]] = "gone"

\* Its close is signalled, or on its way.
Coming(o) ==
    \/ o \in closing \cup signals
    \/ \E j \in todo : Reached(j, o)
    \/ conn[o] \in op.on

\* The establishment race is closed: "either a teardown sweep sees this
\* registered session, or this check sees the new policy state".  No session
\* is served under an authority that was disabled, deleted, repointed or
\* revoked, unless its close is already on the way.
AuthorityReached ==
    \A o \in sessions : pc[o] = "serving" /\ Withdrawn(o) => Coming(o)

\* ... and the close arrives: no session survives the loss of its authority.
WithdrawnSessionsEnd ==
    \A o \in Opens :
        (pc[o] = "serving" /\ Withdrawn(o)) ~> (pc[o] # "serving" \/ ~Withdrawn(o))

(* The inductive strengthening of AuthorityReached.                        *)

\* The session map and the tasks agree.
SessionsAreTasks == sessions = {o \in Opens : pc[o] \in Registered}

\* What admitted an opening fits its route.
RoutesFit ==
    \A o \in Opens :
        /\ route[o] \in Routes
        /\ IF route[o] \in ByTicket THEN by[o] \in Tickets ELSE by[o] \in Endpoints

\* A connection's capability changes no later than its version, and only a
\* mutation under way claims a connection.
ChangesVersioned ==
    /\ \A c \in Conns : version[c] # 0 => changed[c] <= version[c]
    /\ op.kind = "none" => op.on = {}

\* Between the two reads of the last look, what the first one read is still
\* true or its withdrawal is on its way.
HalfChecked ==
    \A o \in Opens : pc[o] = "registered2" =>
        /\ route[o] \in ByTicket /\ access[conn[o]] = "off" => Coming(o)
        /\ route[o] \notin ByTicket /\ endpoint[by[o]] = "gone" => Coming(o)

\* AuthorityReached with what makes it inductive.
AuthorityInductive ==
    SessionsAreTasks /\ RoutesFit /\ ChangesVersioned /\ HalfChecked /\ AuthorityReached

(* What the comments say, and the code does not ensure.                    *)

\* sessions.rs: sessions are bounded "inside a global backstop".
GlobalBackstop == Cardinality(sessions) <= Global

\* close_all: "Rotating the shared key must not leave the old generation's
\* data-plane capabilities usable."
RotationReachesSessions ==
    \A o \in sessions : pc[o] = "serving" =>
        \A t \in Tickets : by[o] = t /\ snap[t].gen < keyGen =>
            Coming(o) \/ op.kind = "rotate2"

\* What a ticket's counters say is what its sessions hold, and neither cap is
\* ever passed, whatever races, expires or is swept in between.
TicketBudget ==
    /\ BudgetExact
    /\ WithinBudget
=============================================================================
