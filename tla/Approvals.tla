----------------------------- MODULE Approvals -----------------------------
(***************************************************************************)
(* The traffic-confirmation registry of crates/aka-core/src/approvals.rs.  *)
(*                                                                         *)
(* A call on a connection whose confirmation switch is on parks here until *)
(* the user answers.  Every mutation of the registry is made under one     *)
(* mutex, but no operation is ONE critical section: a gate sweeps, unlocks *)
(* and locks again to decide; an answer is taken under the lock and handed *)
(* to the waiters after it; a revocation forgets a connection under the    *)
(* lock and then refuses its prompts one lock at a time.  Each critical    *)
(* section is an action here, so that other threads run in between.        *)
(*                                                                         *)
(* A call raises at most one prompt, so a prompt is named by the call that *)
(* raised it: KeyOf(p), want[p].unit and deadline[p] are the prompt's own. *)
(***************************************************************************)
EXTENDS Integers, FiniteSets

CONSTANTS
    Conns,        \* connection ids
    Agents,       \* self-reported agent labels
    Units,        \* ApprovalUnit: HostKey, and Traffic for the four others
    Calls,        \* calls that reach the gate, each once
    Timeout,      \* ApprovalConfig::timeout
    Grace,        \* ApprovalConfig::surface_grace
    Window,       \* ApprovalConfig::window
    Cooldown,     \* ApprovalConfig::deny_cooldown
    MaxPending,   \* ApprovalConfig::max_pending
    MaxWaiters,   \* ApprovalConfig::max_waiters
    Harness,      \* TRUE when the shell may be the dev harness, which waives prompts
    MaxTime,      \* bound: last modelled instant of the monotonic clock
    MaxSkew,      \* bound: how far the wall clock may drift from it
    MaxTodo       \* bound: waiting prompts that overlapping operations have yet to resolve

ASSUME TunablesAssumption ==
    /\ {Timeout, Window} \subseteq Nat \ {0}
    /\ {Grace, Cooldown, MaxPending, MaxWaiters, MaxTime, MaxSkew, MaxTodo} \subseteq Nat
    /\ Harness \in BOOLEAN

ASSUME CallsAssumption == IsFiniteSet(Calls) /\ Units \subseteq {"Traffic", "HostKey"}

VARIABLES
    clock,      \* Instant::now(), pauses while the machine sleeps
    skew,       \* Utc::now() - clock
    surface,    \* what a shell that is shown a prompt now would do with it
    want,       \* call -> what it asks about: connection, agent, unit
    pc,         \* call -> where it is in gate()
    since,      \* call -> the instants of both clocks gate() swept with
    rides,      \* call -> the prompt it waits on
    inbox,      \* call -> the verdict in its oneshot channel
    result,     \* call -> the verdict gate() returned
    via,        \* call -> how it came to that verdict
    pending,    \* State::pending, the ids
    waiters,    \* prompt -> the calls whose senders it holds
    deadline,   \* prompt -> Pending::deadline
    expires,    \* prompt -> PendingApproval::expires_at
    inflight,   \* State::inflight, pairs <<key, prompt>>
    grants,     \* State::grants, at most one per key
    cooldowns,  \* State::cooldowns, at most one per connection
    todo,       \* prompts a revoke or release still has to resolve
    outbox,     \* retired prompts whose waiters and observers are not told yet
    monitor,    \* prompt -> the state of its monitor_prompt task
    graceEnd,   \* prompt -> monitor_prompt's grace_deadline
    history,    \* prompt -> its RequestHistory status
    outcome     \* ghost: prompt -> the verdict it was retired with

callVars == <<want, pc, since, rides, inbox, result, via>>
regVars  == <<pending, waiters, deadline, expires, inflight, grants, cooldowns>>
taskVars == <<todo, outbox, monitor, graceEnd>>
envVars  == <<clock, skew, surface>>
seenVars == <<history, outcome>>
vars     == <<callVars, regVars, taskVars, envVars, seenVars>>

-----------------------------------------------------------------------------
Keys == Conns \X Agents                       \* GrantKey
Verdicts == {"Allowed", "Denied", "Revoked", "TimedOut", "Unavailable"}
\* RequestResolution.  ConfirmationDisabled also stands for ApprovedAll: both
\* are the switch going off, and only the history's wording tells them apart.
Resolutions == {"ApprovedForWindow", "Denied", "TimedOut", "PolicyChanged",
                "NoSurface", "ConfirmationDisabled", "Waived", "CallerDisconnected"}
Surfaces == {"attached", "absent"} \cup (IF Harness THEN {"waiving"} ELSE {})
Decisions == {"ApproveWindow", "Deny"}

Request == [conn : Conns, agent : Agents, unit : Units]
Grant   == [key : Keys, until : Int, wallUntil : Int]
Cooling == [conn : Conns, until : Int]
Job     == [id : Calls, verdict : Verdicts, as : Resolutions]
Notice  == [id : Calls, to : SUBSET Calls, verdict : Verdicts, as : Resolutions]

\* A type invariant: every variable keeps its shape.
TypeOK ==
    /\ clock \in Nat /\ skew \in Int /\ surface \in Surfaces
    /\ want \in [Calls -> Request]
    /\ pc \in [Calls -> {"idle", "swept", "raised", "parked", "gone", "done"}]
    /\ since \in [Calls -> [now : Nat, wall : Int]]
    /\ rides \in [Calls -> Calls]
    /\ inbox \in [Calls -> Verdicts \cup {"none"}]
    /\ result \in [Calls -> Verdicts \cup {"none"}]
    /\ via \in [Calls -> {"none", "window", "cooldown", "full", "prompt",
                          "deadline", "waived"}]
    /\ pending \subseteq Calls
    /\ waiters \in [Calls -> SUBSET Calls]
    /\ deadline \in [Calls -> Nat]
    /\ expires \in [Calls -> Int]
    /\ inflight \subseteq Keys \X Calls
    /\ grants \subseteq Grant
    /\ cooldowns \subseteq Cooling
    /\ todo \subseteq Job
    /\ outbox \subseteq Notice
    /\ monitor \in [Calls -> {"none", "grace", "watch", "waive", "over"}]
    /\ graceEnd \in [Calls -> Nat]
    /\ history \in [Calls -> Resolutions \cup {"none", "pending"}]
    /\ outcome \in [Calls -> Verdicts \cup {"none", "abandoned"}]

Init ==
    /\ clock = 0 /\ skew = 0 /\ surface \in Surfaces
    /\ want \in [Calls -> Request]
    /\ pc = [c \in Calls |-> "idle"]
    /\ since = [c \in Calls |-> [now |-> 0, wall |-> 0]]
    /\ rides = [c \in Calls |-> c]
    /\ inbox = [c \in Calls |-> "none"]
    /\ result = [c \in Calls |-> "none"]
    /\ via = [c \in Calls |-> "none"]
    /\ pending = {}
    /\ waiters = [c \in Calls |-> {}]
    /\ deadline = [c \in Calls |-> 0]
    /\ expires = [c \in Calls |-> 0]
    /\ inflight = {} /\ grants = {} /\ cooldowns = {}
    /\ todo = {} /\ outbox = {}
    /\ monitor = [c \in Calls |-> "none"]
    /\ graceEnd = [c \in Calls |-> 0]
    /\ history = [c \in Calls |-> "none"]
    /\ outcome = [c \in Calls |-> "none"]

-----------------------------------------------------------------------------
(* The registry, read under its lock.                                      *)

Wall == clock + skew                               \* Utc::now()
\* GrantKey: windows and prompts are per agent and connection.
KeyOf(c) == <<want[c].conn, want[c].agent>>
WithoutKey(pairs, k) == {e \in pairs : e[1] # k}   \* inflight.remove(&key)

\* oneshot::Sender::is_closed: the gate future that held the receiver ended.
Closed(c) == pc[c] \in {"gone", "done"}
Live(p) == {c \in waiters[p] : ~Closed(c)}

\* Mutant: prompts age on the monotonic clock alone.
ExpiredRunningOnly(p) == deadline[p] <= clock

Expired(p) == deadline[p] <= clock \/ expires[p] <= Wall
Lapsed == {p \in pending : Expired(p) \/ Live(p) = {}}

(* Approvals::sweep, with the announce_lapsed its callers run after it:    *)
(* lapsed windows, cooldowns and prompts go, expired prompts answer their  *)
(* waiters inside the lock, and the observers are told outside it.         *)
SweptPending == pending \ Lapsed
SweptWaiters == [p \in Calls |-> IF p \in SweptPending THEN Live(p) ELSE {}]

SweptInflight == {e \in inflight : \A p \in Lapsed : KeyOf(p) # e[1]}

\* Mutant: windows age on the monotonic clock alone.
SweptGrantsRunningOnly == {g \in grants : g.until > clock}
SweptGrants == {g \in grants : g.until > clock /\ g.wallUntil > Wall}
SweptCooldowns == {d \in cooldowns : d.until > clock}
SweptInbox ==
    [c \in Calls |->
        IF inbox[c] = "none" /\ \E p \in Lapsed : Expired(p) /\ c \in Live(p)
        THEN "TimedOut" ELSE inbox[c]]
SweptOutcome ==
    [p \in Calls |-> IF p \notin Lapsed THEN outcome[p]
                     ELSE IF Expired(p) THEN "TimedOut" ELSE "abandoned"]

\* Mutant: what lapsed is told apart by its waiters alone.
LapseNoticesByWaiters ==
    {[id |-> p, to |-> {}, verdict |-> "TimedOut", as |-> "CallerDisconnected"] : p \in Lapsed}
LapseNotices ==
    {[id |-> p, to |-> {}, verdict |-> "TimedOut",
      as |-> IF Expired(p) THEN "TimedOut" ELSE "CallerDisconnected"] : p \in Lapsed}

Sweep ==
    /\ pending' = SweptPending
    /\ waiters' = SweptWaiters
    /\ inflight' = SweptInflight
    /\ grants' = SweptGrants
    /\ cooldowns' = SweptCooldowns
    /\ inbox' = SweptInbox
    /\ outcome' = SweptOutcome
    /\ outbox' = outbox \cup LapseNotices
    /\ UNCHANGED <<deadline, expires>>

(* Approvals::resolve: take the prompt out under the lock, if it is still  *)
(* there; its waiters and observers hear of it after the unlock (Deliver). *)
Resolve(p, v, r) ==
    /\ \/ /\ p \in pending
          /\ pending' = pending \ {p}
          /\ waiters' = [waiters EXCEPT ![p] = {}]
          /\ inflight' = WithoutKey(inflight, KeyOf(p))
          /\ outcome' = [outcome EXCEPT ![p] = v]
          /\ outbox' = outbox \cup
                {[id |-> p, to |-> waiters[p], verdict |-> v, as |-> r]}
       \/ /\ p \notin pending
          /\ UNCHANGED <<pending, waiters, inflight, outcome, outbox>>
    /\ UNCHANGED <<deadline, expires, grants, cooldowns>>

-----------------------------------------------------------------------------
(* gate(): one call asks.                                                  *)

Return(c, v, how) ==
    /\ pc' = [pc EXCEPT ![c] = "done"]
    /\ result' = [result EXCEPT ![c] = v]
    /\ via' = [via EXCEPT ![c] = how]

\* gate() up to its first unlock.  A call starts early enough that its
\* deadline falls inside the modelled time.
GateSweep(c) ==
    /\ pc[c] = "idle"
    /\ clock + Timeout <= MaxTime
    /\ pc' = [pc EXCEPT ![c] = "swept"]
    /\ since' = [since EXCEPT ![c] = [now |-> clock, wall |-> Wall]]
    /\ Sweep
    /\ UNCHANGED <<want, rides, result, via, todo, monitor, graceEnd, envVars,
                   history>>

HasGrant(c) == \E g \in grants : g.key = KeyOf(c)
Cooling_(conn) == \E d \in cooldowns : d.conn = conn
\* waiter_count: the sum of the prompts' waiter lists.  A call is in one list.
WaiterCount == Cardinality(UNION {waiters[p] : p \in pending})

\* No waiter more, or no prompt more when the call would need one of its own.
Full(c) ==
    \/ WaiterCount >= MaxWaiters
    \/ /\ \A e \in inflight : e[1] # KeyOf(c)
       /\ Cardinality(pending) >= MaxPending

\* The second critical section answers without asking: an open window, a
\* denial still cooling down, or a full queue.
GateShortcut(c) ==
    /\ pc[c] = "swept"
    /\ \/ HasGrant(c) /\ Return(c, "Allowed", "window")
       \/ /\ ~HasGrant(c) /\ Cooling_(want[c].conn)
          /\ Return(c, "Denied", "cooldown")
       \/ /\ ~HasGrant(c) /\ ~Cooling_(want[c].conn)
          /\ Full(c)
          /\ Return(c, "Unavailable", "full")
    /\ UNCHANGED <<want, since, rides, inbox, regVars, taskVars, envVars, seenVars>>

MayAsk(c) ==
    /\ pc[c] = "swept"
    /\ ~HasGrant(c)
    /\ ~Cooling_(want[c].conn)
    /\ WaiterCount < MaxWaiters

\* ... or rides the prompt already in flight for its key.
GateJoin(c, p) ==
    /\ MayAsk(c)
    /\ <<KeyOf(c), p>> \in inflight
    /\ waiters' = [waiters EXCEPT ![p] = @ \cup {c}]
    /\ rides' = [rides EXCEPT ![c] = p]
    /\ pc' = [pc EXCEPT ![c] = "parked"]
    /\ UNCHANGED <<want, since, inbox, result, via, pending, deadline, expires,
                   inflight, grants, cooldowns, taskVars, envVars, seenVars>>

\* ... or raises a prompt of its own.  The deadline counts from the `now`
\* captured before the sweep.
GateRaise(c) ==
    /\ MayAsk(c)
    /\ \A e \in inflight : e[1] # KeyOf(c)
    /\ Cardinality(pending) < MaxPending
    /\ pending' = pending \cup {c}
    /\ waiters' = [waiters EXCEPT ![c] = {c}]
    /\ deadline' = [deadline EXCEPT ![c] = since[c].now + Timeout]
    /\ expires' = [expires EXCEPT ![c] = Wall + Timeout]
    /\ inflight' = inflight \cup {<<KeyOf(c), c>>}
    /\ pc' = [pc EXCEPT ![c] = "raised"]
    /\ UNCHANGED <<want, since, rides, inbox, result, via, grants, cooldowns,
                   taskVars, envVars, seenVars>>

\* Mutant: only a prompt nobody could take gets a monitor.
HandoffGraceOnly(c, state) ==
    /\ monitor' = [monitor EXCEPT ![c] = IF state = "grace" THEN "grace" ELSE "over"]
    /\ graceEnd' = [graceEnd EXCEPT ![c] =
          IF clock + Grace < deadline[c] THEN clock + Grace ELSE deadline[c]]

\* monitor_prompt is spawned, with its grace_deadline.
Handoff(c, state) ==
    /\ monitor' = [monitor EXCEPT ![c] = state]
    /\ graceEnd' = [graceEnd EXCEPT ![c] =
          IF clock + Grace < deadline[c] THEN clock + Grace ELSE deadline[c]]

\* What the monitor does next with a prompt it offers now: ApprovalHandling.
Handled ==
    IF surface = "attached" THEN "watch" ELSE IF surface = "waiving" THEN "waive" ELSE "grace"

\* Outside the lock: record the request, offer it to the shell, and leave the
\* prompt to a monitor task.  The harness's waiver answers on the spot.
GatePublish(c) ==
    /\ pc[c] = "raised"
    /\ history' = [history EXCEPT ![c] = IF @ = "none" THEN "pending" ELSE @]
    /\ \/ /\ surface = "waiving"
          /\ Resolve(c, "Allowed", "Waived")
          /\ Return(c, "Allowed", "waived")
          /\ UNCHANGED <<monitor, graceEnd>>
       \/ /\ surface # "waiving"
          /\ Handoff(c, Handled)
          /\ pc' = [pc EXCEPT ![c] = "parked"]
          /\ UNCHANGED <<result, via, regVars, outbox, outcome>>
    /\ UNCHANGED <<want, since, rides, inbox, todo, envVars>>

\* timeout_at polls the channel first ...
GateAnswered(c) ==
    /\ pc[c] = "parked"
    /\ inbox[c] # "none"
    /\ Return(c, inbox[c], "prompt")
    /\ UNCHANGED <<want, since, rides, inbox, regVars, taskVars, envVars, seenVars>>

\* ... and a call nobody answered by the deadline retires its own prompt.
GateTimedOut(c) ==
    /\ pc[c] = "parked"
    /\ inbox[c] = "none"
    /\ deadline[rides[c]] <= clock
    /\ Resolve(rides[c], "TimedOut", "TimedOut")
    /\ Return(c, "TimedOut", "deadline")
    /\ UNCHANGED <<want, since, rides, inbox, todo, monitor, graceEnd, envVars,
                   history>>

\* The caller hangs up: the gate future is dropped at its only await.
Disconnect(c) ==
    /\ pc[c] = "parked"
    /\ pc' = [pc EXCEPT ![c] = "gone"]
    /\ UNCHANGED <<want, since, rides, inbox, result, via, regVars, taskVars,
                   envVars, seenVars>>

-----------------------------------------------------------------------------
(* The user's side.                                                        *)

\* Mutant: an answer reaches every agent's callers on the connection.
AudienceConnection(p) ==
    UNION {SweptWaiters[q] : q \in {x \in SweptPending : want[x].conn = want[p].conn}}
\* The waiters an answer is sent to: the prompt's own.
Audience(p) == SweptWaiters[p]

\* respond(): sweep first, so an answer that lost the race with the deadline
\* finds no prompt; then take the prompt and remember the decision.
Respond(p, d) ==
    /\ p \in SweptPending
    /\ pending' = SweptPending \ {p}
    /\ waiters' = [SweptWaiters EXCEPT ![p] = {}]
    /\ inflight' = SweptInflight \ {<<KeyOf(p), p>>}
    /\ grants' =
        IF d = "Deny" THEN SweptGrants
        ELSE {g \in SweptGrants : g.key # KeyOf(p)} \cup
             IF want[p].unit = "HostKey" THEN {}
             ELSE {[key |-> KeyOf(p), until |-> clock + Window,
                    wallUntil |-> Wall + Window]}
    /\ cooldowns' =
        IF d # "Deny" THEN SweptCooldowns
        ELSE {x \in SweptCooldowns : x.conn # want[p].conn} \cup
             {[conn |-> want[p].conn, until |-> clock + Cooldown]}
    /\ outcome' = [SweptOutcome EXCEPT ![p] = IF d = "Deny" THEN "Denied" ELSE "Allowed"]
    /\ outbox' = outbox \cup LapseNotices \cup
        {[id |-> p, to |-> Audience(p),
          verdict |-> IF d = "Deny" THEN "Denied" ELSE "Allowed",
          as |-> IF d = "Deny" THEN "Denied" ELSE "ApprovedForWindow"]}
    /\ inbox' = SweptInbox
    /\ UNCHANGED <<deadline, expires, want, pc, since, rides, result, via, todo,
                   monitor, graceEnd, envVars, history>>

\* pending(), requests(), window_remaining(), window_agents() and
\* cooldown_remaining(): every read of the registry sweeps it.  So does a
\* respond() whose prompt is gone.
Read ==
    /\ Sweep
    /\ UNCHANGED <<want, pc, since, rides, result, via, todo, monitor, graceEnd,
                   envVars, history>>

Inflight(conn) == {e[2] : e \in {x \in inflight : x[1][1] = conn}}

\* drop_connection: every window, cooldown and in-flight entry of the
\* connection goes; the prompts found through `inflight` are left to resolve.
DropConnection(conn, v, r) ==
    /\ grants' = {g \in grants : g.key[1] # conn}
    /\ cooldowns' = {d \in cooldowns : d.conn # conn}
    /\ inflight' = {e \in inflight : e[1][1] # conn}
    /\ todo' = todo \cup {[id |-> p, verdict |-> v, as |-> r] : p \in Inflight(conn)}
    /\ Cardinality({j \in todo' : j.id \in pending}) <= MaxTodo
    /\ UNCHANGED <<callVars, pending, waiters, deadline, expires, outbox, monitor,
                   graceEnd, envVars, history, outcome>>

\* revoke(): access switched off, target changed, connection deleted.
Revoke(conn) == DropConnection(conn, "Revoked", "PolicyChanged")

\* release_as(): the switch goes off, by itself or through "approve all"
\* (which reads the queue, persists the switch, then releases).
Release(conn) == DropConnection(conn, "Allowed", "ConfirmationDisabled")

\* revoke_all(): key rotation and shutdown.  It finds the prompts through
\* `pending`, and leaves `inflight` to the resolves.
RevokeAll ==
    /\ grants' = {}
    /\ cooldowns' = {}
    /\ todo' = todo \cup
        {[id |-> p, verdict |-> "Revoked", as |-> "PolicyChanged"] : p \in pending}
    /\ Cardinality({j \in todo' : j.id \in pending}) <= MaxTodo
    /\ UNCHANGED <<callVars, pending, waiters, deadline, expires, inflight, outbox,
                   monitor, graceEnd, envVars, history, outcome>>

-----------------------------------------------------------------------------
(* The rest of an operation, after its critical section.                   *)

\* One iteration of the loops of revoke(), release_as() and revoke_all().
RunJob(j) ==
    /\ j \in todo
    /\ todo' = todo \ {j}
    /\ Resolve(j.id, j.verdict, j.as)
    /\ UNCHANGED <<callVars, monitor, graceEnd, envVars, history>>

\* After the unlock of respond() and resolve(): settle the history record
\* once, then send the verdict to every waiter that still listens.
Deliver(n) ==
    /\ n \in outbox
    /\ outbox' = outbox \ {n}
    /\ history' = [history EXCEPT ![n.id] = IF @ = "pending" THEN n.as ELSE @]
    /\ inbox' = [c \in Calls |-> IF c \in n.to /\ inbox[c] = "none" /\ ~Closed(c)
                                 THEN n.verdict ELSE inbox[c]]
    /\ UNCHANGED <<want, pc, since, rides, result, via, regVars, todo, monitor,
                   graceEnd, envVars, outcome>>

(* monitor_prompt: owns the prompt from the handoff on.                    *)

MonitorIdle == UNCHANGED <<callVars, grants, cooldowns, todo, graceEnd, envVars,
                           history>>

\* No surface returned within the grace.
MonitorGraceEnd(p) ==
    /\ monitor[p] = "grace"
    /\ graceEnd[p] <= clock
    /\ monitor' = [monitor EXCEPT ![p] = "over"]
    /\ IF deadline[p] <= clock THEN Resolve(p, "TimedOut", "TimedOut")
                               ELSE Resolve(p, "Unavailable", "NoSurface")
    /\ MonitorIdle

\* Re-read the queue; a prompt that left it ends the task, and one still
\* waiting is offered again when a surface is back.
MonitorRecheck(p) ==
    /\ monitor[p] = "grace"
    /\ Sweep
    /\ monitor' = [monitor EXCEPT ![p] =
            IF p \notin SweptPending THEN "over"
            ELSE Handled]
    /\ UNCHANGED <<want, pc, since, rides, result, via, todo, graceEnd, envVars,
                   history>>

\* The shell that came back stands in for the user.
MonitorWaive(p) ==
    /\ monitor[p] = "waive"
    /\ monitor' = [monitor EXCEPT ![p] = "over"]
    /\ Resolve(p, "Allowed", "Waived")
    /\ MonitorIdle

MonitorDeadline(p) ==
    /\ monitor[p] = "watch"
    /\ deadline[p] <= clock
    /\ monitor' = [monitor EXCEPT ![p] = "over"]
    /\ Resolve(p, "TimedOut", "TimedOut")
    /\ MonitorIdle

MonitorPoll(p) ==
    /\ monitor[p] = "watch"
    /\ Sweep
    /\ monitor' = [monitor EXCEPT ![p] = IF p \in SweptPending THEN "watch" ELSE "over"]
    /\ UNCHANGED <<want, pc, since, rides, result, via, todo, graceEnd, envVars,
                   history>>

-----------------------------------------------------------------------------
(* The world.                                                              *)

EnvOnly == UNCHANGED <<callVars, regVars, taskVars, seenVars>>

Tick == clock < MaxTime /\ clock' = clock + 1 /\ UNCHANGED <<skew, surface>> /\ EnvOnly

\* A suspend pauses Instant while the wall clock runs on; an operator may
\* also set the wall clock back.
Suspend == skew < MaxSkew /\ skew' = skew + 1 /\ UNCHANGED <<clock, surface>> /\ EnvOnly
SetBack == skew > -MaxSkew /\ skew' = skew - 1 /\ UNCHANGED <<clock, surface>> /\ EnvOnly

SurfaceChange == surface' \in Surfaces \ {surface} /\ UNCHANGED <<clock, skew>> /\ EnvOnly

Gate(c) == \/ GateSweep(c) \/ GateShortcut(c) \/ GateRaise(c) \/ GatePublish(c)
           \/ GateAnswered(c) \/ GateTimedOut(c) \/ Disconnect(c)
           \/ \E p \in Calls : GateJoin(c, p)

Monitor(p) == \/ MonitorGraceEnd(p) \/ MonitorRecheck(p) \/ MonitorWaive(p)
              \/ MonitorDeadline(p) \/ MonitorPoll(p)

Next ==
    \/ \E c \in Calls : Gate(c) \/ Monitor(c)
    \/ \E p \in Calls, d \in Decisions : Respond(p, d)
    \/ Read
    \/ \E conn \in Conns : Revoke(conn) \/ Release(conn)
    \/ RevokeAll
    \/ \E j \in todo : RunJob(j)
    \/ \E n \in outbox : Deliver(n)
    \/ Tick \/ Suspend \/ SetBack \/ SurfaceChange

Spec == Init /\ [][Next]_vars

(* The runtime polls what is runnable, and time passes: a gate future that *)
(* is past its first step, a monitor task, the clock.  Callers, the user,  *)
(* the shell and the threads that revoke owe nothing.                      *)
GateRuns(c) == \/ GateShortcut(c) \/ GateRaise(c) \/ GatePublish(c)
               \/ GateAnswered(c) \/ GateTimedOut(c)
               \/ \E p \in Calls : GateJoin(c, p)
Fairness ==
    /\ \A c \in Calls : WF_vars(GateRuns(c)) /\ WF_vars(Monitor(c))
    /\ WF_vars(Tick)

FairSpec == Spec /\ Fairness
-----------------------------------------------------------------------------
(* Properties.                                                             *)

\* The coalescing index is exact: what gate() finds under a key is a waiting
\* prompt raised under that key, so its `expect("inflight without pending")`
\* never fires and a call never rides another key's prompt.
NoDanglingInflight ==
    \A e \in inflight :
        /\ e[2] \in pending
        /\ KeyOf(e[2]) = e[1]
        /\ \A f \in inflight : f[1] = e[1] => f[2] = e[2]

\* gate() lets a call through only under an open window, or because the very
\* prompt it waited on was retired with approval, or by the harness's waiver;
\* and whatever a prompt told its callers is what it was retired with, on
\* every interleaving of answers, sweeps, timeouts and revocations.
AllowedOnlyByAnswer ==
    \A c \in Calls :
        /\ result[c] = "Allowed" =>
              \/ via[c] = "window"
              \/ outcome[rides[c]] = "Allowed" /\ want[rides[c]].agent = want[c].agent
              \/ via[c] = "waived"
        /\ via[c] = "prompt" => result[c] = outcome[rides[c]]

\* What RequestResolution::status makes of each disposition.
StatusVerdict(r) ==
    CASE r \in {"ApprovedForWindow", "ConfirmationDisabled", "Waived"} -> "Allowed"
      [] r = "Denied" -> "Denied"
      [] r = "TimedOut" -> "TimedOut"
      [] r = "PolicyChanged" -> "Revoked"
      [] r = "NoSurface" -> "Unavailable"
      [] r = "CallerDisconnected" -> "abandoned"

\* The disposition the user reads in the request history is what gate() returned to the
\* calls that waited on the prompt, however threads raced to retire it: a call that was
\* let through is not recorded as refused, nor one refused as approved.  A call whose own
\* timer wins the race with an answer on its way returns TimedOut, whatever is recorded;
\* but no caller that waited to its end is recorded as one that hung up.
ToldAsRecorded ==
    \A c \in Calls :
        /\ via[c] = "prompt" /\ history[rides[c]] \in Resolutions
              => result[c] = StatusVerdict(history[rides[c]])
        /\ via[c] = "deadline"
              => result[c] = "TimedOut" /\ history[rides[c]] # "CallerDisconnected"

\* A waiting prompt always has somebody who will retire it at its deadline:
\* the gate that is still publishing it or its monitor task, whoever hung up,
\* answered another prompt or revoked in between.
PromptHasGuardian ==
    \A p \in pending : pc[p] = "raised" \/ monitor[p] \in {"grace", "watch", "waive"}

(* The inductive strengthening of the invariants above.                    *)

\* A call that has not asked yet is unknown to the registry.
FreshCalls ==
    \A c \in Calls : pc[c] \in {"idle", "swept"} =>
        /\ c \notin pending
        /\ inbox[c] = "none" /\ via[c] = "none" /\ result[c] = "none"
        /\ history[c] = "none"
        /\ rides[c] = c
        /\ \A d \in Calls : rides[d] = c => d = c
        /\ \A p \in Calls : c \notin waiters[p]
        /\ \A n \in outbox : n.id # c /\ c \notin n.to

\* A sender sits in the list of the prompt its call rides, and a call rides a
\* prompt raised for its own connection and agent.
RidersOwn ==
    /\ \A p \in Calls : \A c \in waiters[p] : rides[c] = p
    /\ \A c \in Calls : KeyOf(rides[c]) = KeyOf(c)

\* A retired prompt is told to its own waiters, as it was retired; what an
\* operation has yet to resolve will be told and recorded alike.
NoticesTrue ==
    /\ \A n \in outbox :
          /\ n.id \notin pending
          /\ outcome[n.id] = StatusVerdict(n.as)
          /\ \A c \in n.to : rides[c] = n.id /\ n.verdict = outcome[n.id]
    /\ \A j \in todo : j.verdict = StatusVerdict(j.as)

\* A verdict in a channel, and one a call returned, is its prompt's.
VerdictsTrue ==
    \A c \in Calls :
        /\ inbox[c] # "none" => rides[c] \notin pending /\ outcome[rides[c]] = inbox[c]
        /\ via[c] = "prompt" => inbox[c] = result[c] /\ result[c] # "none"
        /\ result[c] = "Allowed" => via[c] \in {"window", "prompt", "waived"}

\* The history of a prompt that was settled says what the prompt was retired with.
HistoryTrue ==
    \A p \in Calls : history[p] \in Resolutions => outcome[p] = StatusVerdict(history[p])

\* The history of a prompt that was settled is never of one still waiting.
SettledLeft == \A p \in Calls : history[p] \in Resolutions => p \notin pending

\* Everything above at once: the registry, its callers' channels, the notices
\* on their way and the history agree on every prompt, between any two steps
\* of gate(), respond(), the sweeps, the monitors and the revocations.
RegistryConsistent ==
    /\ NoDanglingInflight
    /\ FreshCalls
    /\ RidersOwn
    /\ NoticesTrue
    /\ VerdictsTrue
    /\ SettledLeft
    /\ HistoryTrue
    /\ PromptHasGuardian

\* An answer opens a window only for a prompt that is still inside both of
\* its deadlines, has a caller waiting, and asks about traffic: an answer that
\* lost the race with a deadline, a suspend or the last caller's hang-up opens
\* none, and neither does a host-key pin.
LateAnswerOpensNoWindow ==
    [][\A g \in grants' \ grants :
          \E p \in pending \ pending' :
             /\ KeyOf(p) = g.key /\ outcome'[p] = "Allowed"
             /\ deadline[p] > clock /\ expires[p] > Wall
             /\ \E c \in waiters[p] : pc[c] \notin {"gone", "done"}
             /\ want[p].unit = "Traffic"]_vars

\* A window that lets a call through without asking was open on both clocks
\* when the call entered gate(), or was opened since: it never outlives the
\* running time granted, nor (through a suspend) the end time shown.
WindowNeverOutlived ==
    [][\A c \in Calls :
          via[c] = "none" /\ via'[c] = "window" =>
             \E g \in grants :
                /\ g.key = KeyOf(c)
                /\ g.until > since[c].now
                /\ g.wallUntil > since[c].wall \/ g.until >= since[c].now + Window]_vars

\* The inductive form: between the two critical sections of gate() the only
\* windows left are ones that were open when it swept, or opened since.
WindowsOpenSince ==
    \A c \in Calls : pc[c] = "swept" =>
        /\ since[c].now <= clock
        /\ \A g \in grants :
              /\ g.until > since[c].now
              /\ g.wallUntil > since[c].wall \/ g.until >= since[c].now + Window

\* The inductive form of what a caller is told by its own timer: a prompt is retired
\* once, and as abandoned only when no sender of it is listened to any more; and a call
\* that waits has its sender with the prompt it rides for as long as that prompt waits.
WaitersHeard ==
    /\ \A p \in Calls : pc[p] \in {"idle", "swept"} \/ p \in pending => outcome[p] = "none"
    /\ \A c \in Calls : pc[c] \in {"raised", "parked"} =>
          /\ rides[c] \in pending => c \in waiters[rides[c]]
          /\ outcome[rides[c]] # "abandoned"
    /\ \A c \in Calls : via[c] = "deadline" =>
          /\ result[c] = "TimedOut" /\ rides[c] \notin pending
          /\ outcome[rides[c]] # "abandoned"

\* Every prompt leaves the queue, however its callers, the user and the shell
\* behave: the monitor task outlives the call that raised the prompt.
PromptsLeaveTheQueue == \A p \in Calls : p \in pending ~> p \notin pending

(* What the comments say of a revocation, and the code does not ensure.    *)

\* revoke()'s comment: "refuse whatever is waiting on it".  drop_connection
\* finds what is waiting through `inflight`, so every waiting prompt is there,
\* or already on the list of an operation that is about to resolve it.
RevokeReachesEveryPrompt ==
    \A p \in pending :
        \/ p \in Inflight(want[p].conn)
        \/ \E j \in todo : j.id = p

\* The module comment: a key rotation, disabling access and repointing "all
\* drop" the grants.  No window comes from a prompt a revocation is refusing.
RevokedPromptOpensNoWindow ==
    [][\A p \in pending, g \in grants' \ grants :
          outcome'[p] = "Allowed" /\ KeyOf(p) = g.key =>
             ~\E j \in todo : j.id = p /\ j.verdict = "Revoked"]_vars

\* request_history.rs: the history records a request "and its terminal
\* disposition".  A prompt that left the queue, whose notice has been handed
\* out, is not left Pending.
HistorySettles ==
    \A p \in Calls :
        history[p] = "pending" => p \in pending \/ \E n \in outbox : n.id = p

\* ApprovalConfig::max_pending: "coalescing already bounds this to one per
\* connection".
OnePromptPerConnection ==
    \A p, q \in pending : want[p].conn = want[q].conn => p = q
=============================================================================
