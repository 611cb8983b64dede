-------------------------- MODULE ApprovalsProofs --------------------------
(* Theorems about Approvals, for every set of calls, connections and       *)
(* agents and every value of the tunables and of the bounds.               *)
EXTENDS Approvals, TLAPS

\* What a sweep leaves of the registry keeps its type.
LEMMA SweepTyped ==
    ASSUME TypeOK
    PROVE  /\ SweptPending \subseteq Calls
           /\ SweptWaiters \in [Calls -> SUBSET Calls]
           /\ SweptInflight \subseteq Keys \X Calls
           /\ SweptGrants \subseteq Grant
           /\ SweptCooldowns \subseteq Cooling
           /\ SweptInbox \in [Calls -> Verdicts \cup {"none"}]
           /\ SweptOutcome \in [Calls -> Verdicts \cup {"none", "abandoned"}]
           /\ LapseNotices \subseteq Notice
<1>1. SweptPending \subseteq Calls
  BY DEF TypeOK, SweptPending
<1>2. SweptWaiters \in [Calls -> SUBSET Calls]
  BY <1>1 DEF TypeOK, SweptWaiters, Live
<1>3. SweptInflight \subseteq Keys \X Calls
  BY DEF TypeOK, SweptInflight
<1>4. SweptGrants \subseteq Grant /\ SweptCooldowns \subseteq Cooling
  BY DEF TypeOK, SweptGrants, SweptCooldowns
<1>5. SweptInbox \in [Calls -> Verdicts \cup {"none"}]
  BY DEF TypeOK, SweptInbox, Verdicts
<1>6. SweptOutcome \in [Calls -> Verdicts \cup {"none", "abandoned"}]
  BY DEF TypeOK, SweptOutcome, Verdicts
<1>7. LapseNotices \subseteq Notice
  BY DEF TypeOK, LapseNotices, Lapsed, Notice, Verdicts, Resolutions
<1>8. QED
  BY <1>1, <1>2, <1>3, <1>4, <1>5, <1>6, <1>7

\* The wall clock respond() and sweep() read is an integer: it may be set back.
LEMMA WallTyped == ASSUME TypeOK PROVE Wall \in Int
  BY DEF TypeOK, Wall

\* A call's key, GrantKey in the code, is a connection and an agent.
LEMMA KeyOfTyped == ASSUME TypeOK, NEW c \in Calls PROVE KeyOf(c) \in Keys
  BY DEF TypeOK, KeyOf, Request, Keys

\* The state changes that several actions share keep the type.
LEMMA ResolveTyped ==
    ASSUME TypeOK, NEW p \in Calls, NEW v \in Verdicts, NEW r \in Resolutions,
           Resolve(p, v, r)
    PROVE  /\ pending' \subseteq Calls
           /\ waiters' \in [Calls -> SUBSET Calls]
           /\ deadline' \in [Calls -> Nat]
           /\ expires' \in [Calls -> Int]
           /\ inflight' \subseteq Keys \X Calls
           /\ grants' \subseteq Grant
           /\ cooldowns' \subseteq Cooling
           /\ outcome' \in [Calls -> Verdicts \cup {"none", "abandoned"}]
           /\ outbox' \subseteq Notice
<1>1. CASE p \in pending
  <2>1. outbox' \subseteq Notice
    BY <1>1 DEF TypeOK, Resolve, Notice
  <2>2. waiters' \in [Calls -> SUBSET Calls]
    BY <1>1 DEF TypeOK, Resolve
  <2>3. inflight' \subseteq Keys \X Calls
    BY <1>1 DEF TypeOK, Resolve, WithoutKey
  <2>4. outcome' \in [Calls -> Verdicts \cup {"none", "abandoned"}]
    <3>1. outcome' = [outcome EXCEPT ![p] = v]
      BY <1>1 DEF Resolve
    <3>2. QED
      BY <3>1 DEF TypeOK
  <2>5. QED
    BY <1>1, <2>1, <2>2, <2>3, <2>4 DEF TypeOK, Resolve
<1>2. CASE p \notin pending
  BY <1>2 DEF TypeOK, Resolve
<1>3. QED
  BY <1>1, <1>2

\* A gate() that returns leaves its call with a verdict and a cause.
LEMMA ReturnTyped ==
    ASSUME TypeOK, NEW c \in Calls, NEW v \in Verdicts,
           NEW how \in {"window", "cooldown", "full", "prompt", "deadline", "waived"},
           Return(c, v, how)
    PROVE  /\ pc' \in [Calls -> {"idle", "swept", "raised", "parked", "gone", "done"}]
           /\ result' \in [Calls -> Verdicts \cup {"none"}]
           /\ via' \in [Calls -> {"none", "window", "cooldown", "full", "prompt",
                                  "deadline", "waived"}]
  BY DEF TypeOK, Return

\* Approvals::with_history starts well typed.
LEMMA InitTyped == Init => TypeOK
  BY TunablesAssumption DEF Init, TypeOK

\* Every step of the registry, of its callers and of the world keeps the type.
LEMMA StepTyped == TypeOK /\ [Next]_vars => TypeOK'
<1> SUFFICES ASSUME TypeOK, [Next]_vars PROVE TypeOK'
  OBVIOUS
<1> USE TunablesAssumption
<1>1. ASSUME NEW c \in Calls, GateSweep(c) PROVE TypeOK'
  BY <1>1, SweepTyped, WallTyped
  DEF TypeOK, GateSweep, Sweep, envVars
<1>2. ASSUME NEW c \in Calls, GateShortcut(c) PROVE TypeOK'
  <2>1. PICK v \in Verdicts, how \in {"window", "cooldown", "full"} : Return(c, v, how)
    BY <1>2 DEF GateShortcut, Verdicts
  <2>2. QED
    BY <1>2, <2>1, ReturnTyped
    DEF TypeOK, GateShortcut, regVars, taskVars, envVars, seenVars
<1>3. ASSUME NEW c \in Calls, NEW p \in Calls, GateJoin(c, p) PROVE TypeOK'
  BY <1>3 DEF TypeOK, GateJoin, taskVars, envVars, seenVars
<1>4. ASSUME NEW c \in Calls, GateRaise(c) PROVE TypeOK'
  <2>1. inflight' \subseteq Keys \X Calls
    BY <1>4, KeyOfTyped DEF TypeOK, GateRaise
  <2>2. deadline' \in [Calls -> Nat] /\ expires' \in [Calls -> Int]
    BY <1>4, WallTyped DEF TypeOK, GateRaise
  <2>3. QED
    BY <1>4, <2>1, <2>2 DEF TypeOK, GateRaise, taskVars, envVars, seenVars
<1>5. ASSUME NEW c \in Calls, GatePublish(c) PROVE TypeOK'
  <2>1. history' \in [Calls -> Resolutions \cup {"none", "pending"}]
    BY <1>5 DEF TypeOK, GatePublish
  <2>2. CASE surface = "waiving"
    <3>1. Resolve(c, "Allowed", "Waived") /\ Return(c, "Allowed", "waived")
      BY <1>5, <2>2 DEF GatePublish
    <3>2. QED
      BY <1>5, <2>1, <2>2, <3>1, ResolveTyped, ReturnTyped
      DEF TypeOK, GatePublish, envVars, Verdicts, Resolutions
  <2>3. CASE surface # "waiving"
    <3>1. PICK state \in {"grace", "watch", "waive"} : Handoff(c, state)
      BY <1>5, <2>3 DEF GatePublish, Handled
    <3>2. /\ monitor' \in [Calls -> {"none", "grace", "watch", "waive", "over"}]
          /\ graceEnd' \in [Calls -> Nat]
      BY <3>1 DEF TypeOK, Handoff
    <3>3. /\ pc' = [pc EXCEPT ![c] = "parked"]
          /\ UNCHANGED <<result, via, regVars, outbox, outcome>>
          /\ UNCHANGED <<want, since, rides, inbox, todo, envVars>>
      BY <1>5, <2>3 DEF GatePublish
    <3>4. QED
      BY <2>1, <3>2, <3>3 DEF TypeOK, regVars, envVars
  <2>4. QED
    BY <2>2, <2>3
<1>6. ASSUME NEW c \in Calls, GateAnswered(c) PROVE TypeOK'
  <2>1. inbox[c] \in Verdicts
    BY <1>6 DEF TypeOK, GateAnswered
  <2>2. QED
    BY <1>6, <2>1, ReturnTyped
    DEF TypeOK, GateAnswered, regVars, taskVars, envVars, seenVars
<1>7. ASSUME NEW c \in Calls, GateTimedOut(c) PROVE TypeOK'
  <2>1. rides[c] \in Calls /\ "TimedOut" \in Verdicts /\ "TimedOut" \in Resolutions
    BY DEF TypeOK, Verdicts, Resolutions
  <2>2. Resolve(rides[c], "TimedOut", "TimedOut") /\ Return(c, "TimedOut", "deadline")
    BY <1>7 DEF GateTimedOut
  <2>3. QED
    BY <1>7, <2>1, <2>2, ResolveTyped, ReturnTyped DEF TypeOK, GateTimedOut, envVars
<1>8. ASSUME NEW c \in Calls, Disconnect(c) PROVE TypeOK'
  BY <1>8 DEF TypeOK, Disconnect, regVars, taskVars, envVars, seenVars
<1>9. ASSUME NEW p \in Calls, NEW d \in Decisions, Respond(p, d) PROVE TypeOK'
  <2>1. grants' \subseteq Grant
    BY <1>9, SweepTyped, WallTyped, KeyOfTyped DEF TypeOK, Respond, Grant
  <2>2. cooldowns' \subseteq Cooling
    BY <1>9, SweepTyped DEF TypeOK, Respond, Cooling, Request
  <2>3. outbox' \subseteq Notice
    BY <1>9, SweepTyped DEF TypeOK, Respond, Audience, Notice, Verdicts, Resolutions
  <2>4. outcome' \in [Calls -> Verdicts \cup {"none", "abandoned"}]
    BY <1>9, SweepTyped DEF Respond, Verdicts
  <2>5. /\ pending' \subseteq Calls
        /\ waiters' \in [Calls -> SUBSET Calls]
        /\ inflight' \subseteq Keys \X Calls
        /\ inbox' \in [Calls -> Verdicts \cup {"none"}]
    BY <1>9, SweepTyped DEF Respond
  <2>6. QED
    BY <1>9, <2>1, <2>2, <2>3, <2>4, <2>5 DEF TypeOK, Respond, envVars
<1>10. ASSUME Read PROVE TypeOK'
  BY <1>10, SweepTyped DEF TypeOK, Read, Sweep, envVars
<1>11. ASSUME NEW conn \in Conns, NEW v \in Verdicts, NEW r \in Resolutions,
              DropConnection(conn, v, r)
       PROVE  TypeOK'
  <2>1. Inflight(conn) \subseteq Calls
    BY DEF TypeOK, Inflight
  <2>2. todo' \subseteq Job
    BY <1>11, <2>1 DEF TypeOK, DropConnection, Job
  <2>3. QED
    BY <1>11, <2>2 DEF TypeOK, DropConnection, callVars, envVars
<1>12. ASSUME NEW conn \in Conns, Revoke(conn) \/ Release(conn) PROVE TypeOK'
  BY <1>11, <1>12 DEF Revoke, Release, Verdicts, Resolutions
<1>13. ASSUME RevokeAll PROVE TypeOK'
  <2>1. todo' \subseteq Job
    BY <1>13 DEF TypeOK, RevokeAll, Job, Verdicts, Resolutions
  <2>2. QED
    BY <1>13, <2>1 DEF TypeOK, RevokeAll, callVars, envVars
<1>14. ASSUME NEW j \in todo, RunJob(j) PROVE TypeOK'
  <2>1. j.id \in Calls /\ j.verdict \in Verdicts /\ j.as \in Resolutions
    BY DEF TypeOK, Job
  <2>2. Resolve(j.id, j.verdict, j.as)
    BY <1>14 DEF RunJob
  <2>3. QED
    BY <1>14, <2>1, <2>2, ResolveTyped DEF TypeOK, RunJob, callVars, envVars
<1>15. ASSUME NEW n \in outbox, Deliver(n) PROVE TypeOK'
  <2>1. n.id \in Calls /\ n.verdict \in Verdicts /\ n.as \in Resolutions
    BY DEF TypeOK, Notice
  <2>2. QED
    BY <1>15, <2>1 DEF TypeOK, Deliver, regVars, envVars
<1>16. ASSUME NEW p \in Calls, Monitor(p) PROVE TypeOK'
  <2>1. CASE MonitorRecheck(p) \/ MonitorPoll(p)
    <3>1. monitor' \in [Calls -> {"none", "grace", "watch", "waive", "over"}]
      <4>1. Handled \in {"grace", "watch", "waive"}
        BY DEF Handled
      <4>2. \E m \in {"grace", "watch", "waive", "over"} : monitor' = [monitor EXCEPT ![p] = m]
        BY <2>1, <4>1 DEF MonitorRecheck, MonitorPoll
      <4>3. QED
        BY <4>2 DEF TypeOK
    <3>2. Sweep /\ UNCHANGED <<want, pc, since, rides, result, via, todo, graceEnd,
                               envVars, history>>
      BY <2>1 DEF MonitorRecheck, MonitorPoll
    <3>3. QED
      BY <3>1, <3>2, SweepTyped DEF TypeOK, Sweep, envVars
  <2>2. CASE MonitorGraceEnd(p) \/ MonitorWaive(p) \/ MonitorDeadline(p)
    <3>1. PICK v \in Verdicts, r \in Resolutions : Resolve(p, v, r)
      BY <2>2 DEF MonitorGraceEnd, MonitorWaive, MonitorDeadline, Verdicts, Resolutions
    <3>2. monitor' \in [Calls -> {"none", "grace", "watch", "waive", "over"}] /\ MonitorIdle
      BY <2>2 DEF TypeOK, MonitorGraceEnd, MonitorWaive, MonitorDeadline
    <3>3. QED
      BY <3>1, <3>2, ResolveTyped DEF TypeOK, MonitorIdle, callVars, envVars
  <2>3. QED
    BY <1>16, <2>1, <2>2 DEF Monitor
<1>17. ASSUME Tick \/ Suspend \/ SetBack \/ SurfaceChange PROVE TypeOK'
  BY <1>17 DEF TypeOK, Surfaces, Tick, Suspend, SetBack, SurfaceChange, EnvOnly,
               callVars, regVars, taskVars, seenVars
<1>18. ASSUME UNCHANGED vars PROVE TypeOK'
  BY <1>18 DEF TypeOK, vars, callVars, regVars, taskVars, envVars, seenVars
<1>19. QED
  BY <1>1, <1>2, <1>3, <1>4, <1>5, <1>6, <1>7, <1>8, <1>9, <1>10, <1>12, <1>13,
     <1>14, <1>15, <1>16, <1>17, <1>18
  DEF Next, Gate

\* The registry's variables keep their types in every behaviour.
THEOREM TypeCorrect == Spec => []TypeOK
  BY InitTyped, StepTyped, PTL DEF Spec
-----------------------------------------------------------------------------
(* The registry's consistency is inductive.                                *)

Fresh(c) == pc[c] \in {"idle", "swept"}

\* A sweep retires only prompts that were waiting, and says of each what it
\* records: whatever else the step does to the calls' program counters.
LEMMA SweepConsistent ==
    ASSUME TypeOK, RegistryConsistent, Sweep,
           UNCHANGED <<want, rides, result, via, todo, history>>,
           \A c \in Calls : /\ Fresh(c)' <=> Fresh(c)
                            /\ (pc[c] = "raised")' <=> pc[c] = "raised",
           \A p \in pending' : \/ monitor'[p] = monitor[p]
                               \/ monitor'[p] \in {"grace", "watch", "waive"}
    PROVE  RegistryConsistent'
<1> USE DEF Sweep
<1>1. pending' = pending \ Lapsed /\ Lapsed \subseteq pending /\ pending \subseteq Calls
  BY DEF SweptPending, Lapsed, TypeOK
<1>2. \A c \in Calls : KeyOf(c)' = KeyOf(c)
  BY DEF KeyOf
<1>3. \A p \in Calls : p \notin pending => outcome'[p] = outcome[p]
  BY <1>1 DEF SweptOutcome, TypeOK
<1>4. \A p \in Calls : waiters'[p] \subseteq waiters[p]
  BY DEF SweptWaiters, Live, TypeOK
<1>5. \A c \in Calls :
        \/ inbox'[c] = inbox[c]
        \/ /\ inbox[c] = "none" /\ inbox'[c] = "TimedOut"
           /\ \E p \in Lapsed : c \in waiters[p] /\ outcome'[p] = "TimedOut"
  BY <1>1 DEF SweptInbox, SweptOutcome, Live, TypeOK
<1>6. \A n \in outbox' : \/ n \in outbox
                         \/ /\ n.id \in Lapsed /\ n.to = {}
                            /\ outcome'[n.id] = StatusVerdict(n.as)
  BY <1>1 DEF LapseNotices, SweptOutcome, StatusVerdict
<1>7. NoDanglingInflight'
  BY <1>1, <1>2 DEF RegistryConsistent, NoDanglingInflight, SweptInflight, TypeOK
<1>8. FreshCalls'
  BY <1>1, <1>4, <1>5, <1>6 DEF RegistryConsistent, FreshCalls, Fresh
<1>9. RidersOwn'
  BY <1>2, <1>4 DEF RegistryConsistent, RidersOwn, TypeOK
<1>10. NoticesTrue'
  <2>1. \A n \in outbox : n.id \in Calls /\ n.id \notin pending
    BY DEF RegistryConsistent, NoticesTrue, TypeOK, Notice
  <2>2. QED
    BY <1>1, <1>3, <1>6, <2>1 DEF RegistryConsistent, NoticesTrue
<1>11. VerdictsTrue'
  BY <1>1, <1>3, <1>5 DEF RegistryConsistent, VerdictsTrue, RidersOwn, TypeOK
<1>12. SettledLeft' /\ HistoryTrue'
  BY <1>1, <1>3 DEF RegistryConsistent, SettledLeft, HistoryTrue
<1>13. PromptHasGuardian'
  BY <1>1 DEF RegistryConsistent, PromptHasGuardian
<1>14. QED
  BY <1>7, <1>8, <1>9, <1>10, <1>11, <1>12, <1>13 DEF RegistryConsistent

\* What the callers of resolve() may do next to it: end their own call.
BesideResolve ==
    /\ todo' \subseteq todo
    /\ UNCHANGED <<want, rides, inbox>>
    /\ \A c \in Calls : /\ Fresh(c)' <=> Fresh(c)
                        /\ pc[c] = "raised" /\ pc'[c] # "raised" => c \notin pending'
    /\ \A c \in Calls :
          \/ result'[c] = result[c] /\ via'[c] = via[c]
          \/ /\ ~Fresh(c)
             /\ via'[c] \in {"deadline", "waived"}
             /\ result'[c] = "Allowed" => via'[c] = "waived"
    /\ \A c \in Calls : history'[c] = history[c] \/ (~Fresh(c) /\ history'[c] = "pending")
    /\ \A q \in pending' : monitor'[q] = monitor[q] \/ monitor'[q] \in {"grace", "watch", "waive"}

\* resolve() retires one prompt with the verdict its disposition stands for,
\* next to whatever the caller of resolve() does to its own call.
LEMMA ResolveConsistent ==
    ASSUME TypeOK, RegistryConsistent,
           NEW p \in Calls, NEW v \in Verdicts, NEW r \in Resolutions,
           v = StatusVerdict(r), Resolve(p, v, r), BesideResolve
    PROVE  RegistryConsistent'
<1> USE DEF BesideResolve
<1>1. /\ pending' = pending \ {p} /\ pending \subseteq Calls
      /\ \A q \in Calls : waiters'[q] \subseteq waiters[q]
      /\ \A q \in Calls : q \notin pending => outcome'[q] = outcome[q]
      /\ inflight' \subseteq inflight
  <2>1. CASE p \in pending
    <3>1. /\ pending' = pending \ {p}
          /\ waiters' = [waiters EXCEPT ![p] = {}]
          /\ outcome' = [outcome EXCEPT ![p] = v]
          /\ inflight' = WithoutKey(inflight, KeyOf(p))
      BY <2>1 DEF Resolve
    <3>2. QED
      BY <2>1, <3>1 DEF TypeOK, WithoutKey
  <2>2. CASE p \notin pending
    BY <2>2 DEF Resolve, TypeOK
  <2>3. QED
    BY <2>1, <2>2
<1>2. \A c \in Calls : KeyOf(c)' = KeyOf(c)
  BY DEF KeyOf
<1>3. \A n \in outbox' : \/ n \in outbox
                         \/ /\ p \in pending /\ n.id = p /\ n.to = waiters[p]
                            /\ outcome'[p] = v /\ n.verdict = v /\ n.as = r
  BY DEF Resolve, TypeOK
<1>4. NoDanglingInflight'
  <2>1. CASE p \in pending
    BY <1>1, <1>2, <2>1 DEF RegistryConsistent, NoDanglingInflight, Resolve, WithoutKey, TypeOK
  <2>2. CASE p \notin pending
    BY <1>1, <1>2, <2>2 DEF RegistryConsistent, NoDanglingInflight, TypeOK
  <2>3. QED
    BY <2>1, <2>2
<1>5. FreshCalls'
  BY <1>1, <1>3 DEF RegistryConsistent, FreshCalls, Fresh, Resolutions
<1>6. RidersOwn'
  BY <1>1, <1>2 DEF RegistryConsistent, RidersOwn, TypeOK
<1>7. NoticesTrue'
  <2>1. \A n \in outbox : n.id \in Calls /\ n.id \notin pending
    BY DEF RegistryConsistent, NoticesTrue, TypeOK, Notice
  <2>2. QED
    BY <1>1, <1>3, <2>1 DEF RegistryConsistent, NoticesTrue, RidersOwn
<1>8. VerdictsTrue'
  BY <1>1 DEF RegistryConsistent, VerdictsTrue, TypeOK
<1>9. SettledLeft' /\ HistoryTrue'
  BY <1>1 DEF RegistryConsistent, SettledLeft, HistoryTrue, Resolutions
<1>10. PromptHasGuardian'
  BY <1>1 DEF RegistryConsistent, PromptHasGuardian
<1>11. QED
  BY <1>4, <1>5, <1>6, <1>7, <1>8, <1>9, <1>10 DEF RegistryConsistent
\* Returning a verdict ends the call and leaves the others alone.
LEMMA ReturnEffect ==
    ASSUME TypeOK, NEW c \in Calls, NEW v, NEW how, Return(c, v, how)
    PROVE  /\ pc'[c] = "done" /\ result'[c] = v /\ via'[c] = how
           /\ \A d \in Calls \ {c} : /\ pc'[d] = pc[d]
                                    /\ result'[d] = result[d] /\ via'[d] = via[d]
  BY DEF TypeOK, Return

\* An empty registry is consistent with its history and its callers.
LEMMA InitConsistent == Init => RegistryConsistent
<1> SUFFICES ASSUME Init PROVE RegistryConsistent
  OBVIOUS
<1>1. NoDanglingInflight /\ NoticesTrue /\ PromptHasGuardian
  BY DEF Init, NoDanglingInflight, NoticesTrue, PromptHasGuardian
<1>2. FreshCalls /\ RidersOwn /\ VerdictsTrue
  BY DEF Init, FreshCalls, RidersOwn, VerdictsTrue
<1>3. SettledLeft /\ HistoryTrue
  BY DEF Init, SettledLeft, HistoryTrue, Resolutions
<1>4. QED
  BY <1>1, <1>2, <1>3 DEF RegistryConsistent

\* A call that is answered without asking, joins a prompt or raises one.
LEMMA DecideConsistent ==
    ASSUME TypeOK, RegistryConsistent, NEW c \in Calls,
           GateShortcut(c) \/ GateRaise(c) \/ \E p \in Calls : GateJoin(c, p)
    PROVE  RegistryConsistent'
<1>1. CASE GateShortcut(c)
  <2>1. PICK v \in Verdicts, how \in {"window", "cooldown", "full"} :
            Return(c, v, how) /\ (v = "Allowed" => how = "window")
    <3>1. \/ Return(c, "Allowed", "window") \/ Return(c, "Denied", "cooldown")
          \/ Return(c, "Unavailable", "full")
      BY <1>1 DEF GateShortcut
    <3>2. QED
      BY <3>1 DEF Verdicts
  <2>2. /\ pc[c] = "swept" /\ UNCHANGED <<want, rides, inbox, regVars, taskVars, seenVars>>
    BY <1>1 DEF GateShortcut
  <2>3. NoDanglingInflight' /\ RidersOwn' /\ NoticesTrue' /\ SettledLeft' /\ HistoryTrue'
    BY <2>2 DEF RegistryConsistent, NoDanglingInflight, RidersOwn, NoticesTrue,
                SettledLeft, HistoryTrue, KeyOf, regVars, taskVars, seenVars
  <2>4. FreshCalls' /\ VerdictsTrue' /\ PromptHasGuardian'
    <3>1. /\ pc'[c] = "done" /\ result'[c] = v /\ via'[c] = how
          /\ \A e \in Calls \ {c} : /\ pc'[e] = pc[e]
                                   /\ result'[e] = result[e] /\ via'[e] = via[e]
      BY <2>1, ReturnEffect
    <3>2. pending \subseteq Calls
      BY DEF TypeOK
    <3>3. QED
      BY <2>1, <2>2, <3>1, <3>2
      DEF RegistryConsistent, FreshCalls, VerdictsTrue, PromptHasGuardian, regVars,
          taskVars, seenVars
  <2>5. QED
    BY <2>3, <2>4 DEF RegistryConsistent
<1>2. CASE GateRaise(c)
  <2>1. /\ pc[c] = "swept" /\ pc' = [pc EXCEPT ![c] = "raised"]
        /\ pending' = pending \cup {c}
        /\ waiters' = [waiters EXCEPT ![c] = {c}]
        /\ inflight' = inflight \cup {<<KeyOf(c), c>>}
        /\ \A e \in inflight : e[1] # KeyOf(c)
        /\ UNCHANGED <<want, rides, inbox, result, via, taskVars, seenVars>>
    BY <1>2 DEF GateRaise, MayAsk
  <2>2. NoDanglingInflight'
    BY <2>1 DEF RegistryConsistent, NoDanglingInflight, KeyOf, TypeOK
  <2>3. FreshCalls' /\ RidersOwn'
    BY <2>1 DEF RegistryConsistent, FreshCalls, RidersOwn, KeyOf, TypeOK, taskVars, seenVars
  <2>4. NoticesTrue' /\ VerdictsTrue' /\ SettledLeft' /\ HistoryTrue'
    BY <2>1 DEF RegistryConsistent, NoticesTrue, VerdictsTrue, SettledLeft, HistoryTrue,
                FreshCalls, TypeOK, taskVars, seenVars, Resolutions
  <2>5. PromptHasGuardian'
    BY <2>1 DEF RegistryConsistent, PromptHasGuardian, TypeOK, taskVars
  <2>6. QED
    BY <2>2, <2>3, <2>4, <2>5 DEF RegistryConsistent
<1>3. CASE \E p \in Calls : GateJoin(c, p)
  <2>1. PICK p \in Calls :
        /\ pc[c] = "swept" /\ pc' = [pc EXCEPT ![c] = "parked"]
        /\ <<KeyOf(c), p>> \in inflight
        /\ waiters' = [waiters EXCEPT ![p] = @ \cup {c}]
        /\ rides' = [rides EXCEPT ![c] = p]
        /\ UNCHANGED <<want, inbox, result, via, pending, inflight, taskVars, seenVars>>
    BY <1>3 DEF GateJoin, MayAsk
  <2>2. p \in pending /\ KeyOf(p) = KeyOf(c)
    BY <2>1 DEF RegistryConsistent, NoDanglingInflight
  <2>3. NoDanglingInflight' /\ SettledLeft' /\ HistoryTrue'
    BY <2>1 DEF RegistryConsistent, NoDanglingInflight, SettledLeft, HistoryTrue,
                KeyOf, seenVars
  <2>4. FreshCalls' /\ RidersOwn'
    BY <2>1, <2>2 DEF RegistryConsistent, FreshCalls, RidersOwn, KeyOf, TypeOK,
                      taskVars, seenVars
  <2>5. NoticesTrue' /\ VerdictsTrue' /\ PromptHasGuardian'
    BY <2>1, <2>2 DEF RegistryConsistent, NoticesTrue, VerdictsTrue, PromptHasGuardian,
                      FreshCalls, TypeOK, taskVars, seenVars
  <2>6. QED
    BY <2>3, <2>4, <2>5 DEF RegistryConsistent
<1>4. QED
  BY <1>1, <1>2, <1>3
\* The verdict of a prompt the user answers, and the disposition recorded.
LEMMA StatusVerdictCases ==
    /\ StatusVerdict("ApprovedForWindow") = "Allowed"
    /\ StatusVerdict("ConfirmationDisabled") = "Allowed"
    /\ StatusVerdict("Waived") = "Allowed"
    /\ StatusVerdict("Denied") = "Denied"
    /\ StatusVerdict("TimedOut") = "TimedOut"
    /\ StatusVerdict("PolicyChanged") = "Revoked"
    /\ StatusVerdict("NoSurface") = "Unavailable"
    /\ StatusVerdict("CallerDisconnected") = "abandoned"
  BY Zenon DEF StatusVerdict

\* The user's answer: a sweep, then one prompt leaves with its waiters.
LEMMA RespondConsistent ==
    ASSUME TypeOK, RegistryConsistent, NEW p \in Calls, NEW d \in Decisions, Respond(p, d)
    PROVE  RegistryConsistent'
<1> DEFINE v == IF d = "Deny" THEN "Denied" ELSE "Allowed"
           r == IF d = "Deny" THEN "Denied" ELSE "ApprovedForWindow"
<1>1. /\ p \in pending /\ p \notin Lapsed /\ Lapsed \subseteq pending /\ pending \subseteq Calls
      /\ pending' = (pending \ Lapsed) \ {p}
      /\ UNCHANGED <<want, pc, rides, result, via, todo, monitor, history>>
  BY DEF Respond, SweptPending, Lapsed, TypeOK
<1>2. \A c \in Calls : KeyOf(c)' = KeyOf(c)
  BY <1>1 DEF KeyOf
<1>3. \A q \in Calls : waiters'[q] \subseteq waiters[q]
  BY DEF Respond, SweptWaiters, Live, TypeOK
<1>4. outcome' = [SweptOutcome EXCEPT ![p] = v]
  BY DEF Respond
<1>5. /\ outcome'[p] = v
      /\ \A q \in Calls : q \notin pending => outcome'[q] = outcome[q]
      /\ \A q \in Lapsed : outcome'[q] = SweptOutcome[q]
  BY <1>1, <1>4, SweepTyped DEF SweptOutcome
<1>6. \A c \in Calls :
        \/ inbox'[c] = inbox[c]
        \/ /\ inbox[c] = "none" /\ inbox'[c] = "TimedOut"
           /\ \E q \in Lapsed : c \in waiters[q] /\ outcome'[q] = "TimedOut"
  BY <1>1, <1>5 DEF Respond, SweptInbox, SweptOutcome, Live, TypeOK
<1>7. \A n \in outbox' : \/ n \in outbox
                         \/ /\ n.id \in Lapsed /\ n.to = {}
                            /\ outcome'[n.id] = StatusVerdict(n.as)
                         \/ /\ n.id = p /\ n.to \subseteq waiters[p]
                            /\ n.verdict = v /\ n.as = r
  <2>1. SweptWaiters[p] \subseteq waiters[p]
    BY DEF SweptWaiters, Live, TypeOK
  <2>2. outbox' = outbox \cup LapseNotices \cup
                    {[id |-> p, to |-> Audience(p), verdict |-> v, as |-> r]}
    BY DEF Respond
  <2>3. \A n \in LapseNotices : /\ n.id \in Lapsed /\ n.to = {}
                                /\ SweptOutcome[n.id] = StatusVerdict(n.as)
    BY <1>1, StatusVerdictCases DEF LapseNotices, SweptOutcome
  <2>4. QED
    BY <1>5, <2>1, <2>2, <2>3 DEF Audience
<1>8. v = StatusVerdict(r) /\ v # "none"
  BY StatusVerdictCases
<1> HIDE DEF v, r
<1>9. NoDanglingInflight'
  <2>1. inflight' = SweptInflight \ {<<KeyOf(p), p>>}
    BY DEF Respond
  <2>2. QED
    BY <1>1, <1>2, <2>1 DEF RegistryConsistent, NoDanglingInflight, SweptInflight, TypeOK
<1>10. FreshCalls'
  BY <1>1, <1>3, <1>6, <1>7 DEF RegistryConsistent, FreshCalls
<1>11. RidersOwn'
  BY <1>1, <1>2, <1>3 DEF RegistryConsistent, RidersOwn, TypeOK
<1>12. NoticesTrue'
  <2>1. \A n \in outbox : n.id \in Calls /\ n.id \notin pending
    BY DEF RegistryConsistent, NoticesTrue, TypeOK, Notice
  <2>2. QED
    BY <1>1, <1>5, <1>7, <1>8, <2>1 DEF RegistryConsistent, NoticesTrue, RidersOwn
<1>13. VerdictsTrue'
  BY <1>1, <1>5, <1>6 DEF RegistryConsistent, VerdictsTrue, RidersOwn, TypeOK
<1>14. SettledLeft' /\ HistoryTrue' /\ PromptHasGuardian'
  BY <1>1, <1>5 DEF RegistryConsistent, SettledLeft, HistoryTrue, PromptHasGuardian
<1>15. QED
  BY <1>9, <1>10, <1>11, <1>12, <1>13, <1>14 DEF RegistryConsistent
\* A notice handed out settles the history and fills its waiters' channels.
LEMMA DeliverConsistent ==
    ASSUME TypeOK, RegistryConsistent, NEW n \in outbox, Deliver(n)
    PROVE  RegistryConsistent'
<1>1. /\ UNCHANGED <<want, pc, rides, result, via, regVars, todo, monitor, outcome>>
      /\ outbox' \subseteq outbox
  BY DEF Deliver
<1>2. /\ n.id \in Calls /\ n.id \notin pending /\ n.as \in Resolutions
      /\ outcome[n.id] = StatusVerdict(n.as)
      /\ \A c \in n.to : rides[c] = n.id /\ n.verdict = outcome[n.id]
  BY DEF RegistryConsistent, NoticesTrue, TypeOK, Notice
<1>3. \A c \in Calls : \/ inbox'[c] = inbox[c]
                       \/ inbox[c] = "none" /\ c \in n.to /\ inbox'[c] = n.verdict
  BY DEF Deliver, TypeOK
<1>4. \A p \in Calls : \/ history'[p] = history[p]
                       \/ p = n.id /\ history[p] = "pending" /\ history'[p] = n.as
  BY DEF Deliver, TypeOK
<1>5. NoDanglingInflight' /\ RidersOwn' /\ PromptHasGuardian'
  BY <1>1 DEF RegistryConsistent, NoDanglingInflight, RidersOwn, PromptHasGuardian,
              KeyOf, regVars
<1>6. FreshCalls'
  BY <1>1, <1>3, <1>4 DEF RegistryConsistent, FreshCalls, regVars
<1>7. NoticesTrue'
  BY <1>1 DEF RegistryConsistent, NoticesTrue, regVars
<1>8. VerdictsTrue'
  <2> SUFFICES ASSUME NEW c \in Calls
               PROVE  /\ inbox'[c] # "none" =>
                            rides[c] \notin pending /\ outcome[rides[c]] = inbox'[c]
                      /\ via[c] = "prompt" => inbox'[c] = result[c] /\ result[c] # "none"
                      /\ result[c] = "Allowed" => via[c] \in {"window", "prompt", "waived"}
    BY <1>1 DEF VerdictsTrue, regVars
  <2>1. QED
    BY <1>2, <1>3 DEF RegistryConsistent, VerdictsTrue
<1>9. SettledLeft' /\ HistoryTrue'
  BY <1>1, <1>2, <1>4 DEF RegistryConsistent, SettledLeft, HistoryTrue, regVars
<1>10. QED
  BY <1>5, <1>6, <1>7, <1>8, <1>9 DEF RegistryConsistent

\* No operation of the registry, of a caller or of the monitor breaks the invariant.
LEMMA StepConsistent ==
    TypeOK /\ RegistryConsistent /\ [Next]_vars => RegistryConsistent'
<1> SUFFICES ASSUME TypeOK, RegistryConsistent, [Next]_vars PROVE RegistryConsistent'
  OBVIOUS
<1>1. ASSUME NEW c \in Calls, GateSweep(c) PROVE RegistryConsistent'
  BY <1>1, SweepConsistent DEF GateSweep, Fresh, TypeOK
<1>2. ASSUME NEW c \in Calls,
             GateShortcut(c) \/ GateRaise(c) \/ \E p \in Calls : GateJoin(c, p)
      PROVE  RegistryConsistent'
  BY <1>2, DecideConsistent
<1>3. ASSUME NEW c \in Calls, GatePublish(c) PROVE RegistryConsistent'
  <2>1. /\ pc[c] = "raised" /\ UNCHANGED <<want, rides, inbox, todo>>
        /\ \A p \in Calls : history'[p] = history[p] \/ (p = c /\ history'[p] = "pending")
    BY <1>3 DEF GatePublish, TypeOK
  <2>2. CASE surface = "waiving"
    <3>1. /\ Resolve(c, "Allowed", "Waived") /\ Return(c, "Allowed", "waived")
          /\ UNCHANGED <<monitor, graceEnd>>
      BY <1>3, <2>2 DEF GatePublish
    <3>2. c \notin pending'
      BY <3>1 DEF Resolve
    <3>3. /\ pc'[c] = "done" /\ result'[c] = "Allowed" /\ via'[c] = "waived"
          /\ \A e \in Calls \ {c} : /\ pc'[e] = pc[e]
                                   /\ result'[e] = result[e] /\ via'[e] = via[e]
      BY <3>1, ReturnEffect
    <3>4. BesideResolve
      BY <2>1, <3>1, <3>2, <3>3 DEF BesideResolve, Fresh
    <3>5. /\ "Allowed" \in Verdicts /\ "Waived" \in Resolutions
          /\ "Allowed" = StatusVerdict("Waived")
      BY StatusVerdictCases DEF Verdicts, Resolutions
    <3>6. QED
      BY <3>1, <3>4, <3>5, ResolveConsistent
  <2>3. CASE surface # "waiving"
    <3>1. /\ \E state \in {"grace", "watch", "waive"} : Handoff(c, state)
          /\ pc' = [pc EXCEPT ![c] = "parked"]
          /\ UNCHANGED <<result, via, regVars, outbox, outcome>>
      BY <1>3, <2>3 DEF GatePublish, Handled
    <3>2. /\ \A p \in Calls \ {c} : monitor'[p] = monitor[p]
          /\ monitor'[c] \in {"grace", "watch", "waive"}
      BY <3>1 DEF Handoff, TypeOK
    <3>3. NoDanglingInflight' /\ RidersOwn' /\ NoticesTrue' /\ VerdictsTrue'
      BY <2>1, <3>1 DEF RegistryConsistent, NoDanglingInflight, RidersOwn, NoticesTrue,
                        VerdictsTrue, KeyOf, regVars
    <3>4. \A d \in Calls : pc'[d] \in {"idle", "swept"} => d # c /\ pc[d] \in {"idle", "swept"}
      BY <2>1, <3>1 DEF TypeOK
    <3>5. FreshCalls'
      BY <2>1, <3>1, <3>4 DEF RegistryConsistent, FreshCalls, regVars
    <3>6. SettledLeft' /\ HistoryTrue'
      BY <2>1, <3>1 DEF RegistryConsistent, SettledLeft, HistoryTrue, regVars, Resolutions
    <3>7. PromptHasGuardian'
      BY <3>1, <3>2 DEF RegistryConsistent, PromptHasGuardian, TypeOK, regVars
    <3>8. QED
      BY <3>3, <3>5, <3>6, <3>7 DEF RegistryConsistent
  <2>4. QED
    BY <2>2, <2>3
<1>4. ASSUME NEW c \in Calls, GateAnswered(c) PROVE RegistryConsistent'
  <2>1. /\ pc[c] = "parked" /\ inbox[c] # "none" /\ Return(c, inbox[c], "prompt")
        /\ UNCHANGED <<want, rides, inbox, regVars, taskVars, seenVars>>
    BY <1>4 DEF GateAnswered
  <2>2. NoDanglingInflight' /\ RidersOwn' /\ NoticesTrue' /\ SettledLeft' /\ HistoryTrue'
    BY <2>1 DEF RegistryConsistent, NoDanglingInflight, RidersOwn, NoticesTrue,
                SettledLeft, HistoryTrue, KeyOf, regVars, taskVars, seenVars
  <2>3. FreshCalls' /\ VerdictsTrue'
    BY <2>1, ReturnEffect
    DEF RegistryConsistent, FreshCalls, VerdictsTrue, TypeOK, regVars, taskVars, seenVars
  <2>4. \A p \in pending' : pc[p] = "raised" => pc'[p] = "raised"
    BY <2>1, ReturnEffect DEF TypeOK, regVars
  <2>5. PromptHasGuardian'
    BY <2>1, <2>4 DEF RegistryConsistent, PromptHasGuardian, regVars, taskVars
  <2>6. QED
    BY <2>2, <2>3, <2>5 DEF RegistryConsistent
<1>5. ASSUME NEW c \in Calls, GateTimedOut(c) PROVE RegistryConsistent'
  <2>1. /\ pc[c] = "parked" /\ Resolve(rides[c], "TimedOut", "TimedOut")
        /\ Return(c, "TimedOut", "deadline")
        /\ UNCHANGED <<want, rides, inbox, todo, monitor, history>>
    BY <1>5 DEF GateTimedOut
  <2>2. rides[c] \in Calls /\ "TimedOut" \in Verdicts /\ "TimedOut" \in Resolutions
    BY DEF TypeOK, Verdicts, Resolutions
  <2>3. BesideResolve
    BY <2>1, ReturnEffect DEF BesideResolve, Fresh
  <2>4. "TimedOut" = StatusVerdict("TimedOut")
    BY StatusVerdictCases
  <2>5. QED
    BY <2>1, <2>2, <2>3, <2>4, ResolveConsistent
<1>6. ASSUME NEW c \in Calls, Disconnect(c) PROVE RegistryConsistent'
  BY <1>6 DEF Disconnect, RegistryConsistent, NoDanglingInflight, FreshCalls, RidersOwn,
              NoticesTrue, VerdictsTrue, SettledLeft, HistoryTrue, PromptHasGuardian,
              KeyOf, TypeOK, regVars, taskVars, seenVars
<1>7. ASSUME NEW p \in Calls, NEW d \in Decisions, Respond(p, d) PROVE RegistryConsistent'
  BY <1>7, RespondConsistent
<1>8. ASSUME Read PROVE RegistryConsistent'
  BY <1>8, SweepConsistent DEF Read, Fresh
<1>9. ASSUME NEW conn \in Conns, Revoke(conn) \/ Release(conn) PROVE RegistryConsistent'
  <2>1. PICK v \in Verdicts, r \in Resolutions :
            DropConnection(conn, v, r) /\ v = StatusVerdict(r)
    BY <1>9, StatusVerdictCases DEF Revoke, Release, Verdicts, Resolutions
  <2>2. /\ inflight' \subseteq inflight
        /\ \A j \in todo' : j \in todo \/ (j.verdict = v /\ j.as = r)
        /\ UNCHANGED <<callVars, pending, waiters, outbox, monitor, history, outcome>>
    BY <2>1 DEF DropConnection
  <2>3. QED
    BY <2>1, <2>2
    DEF RegistryConsistent, NoDanglingInflight, FreshCalls, RidersOwn, NoticesTrue,
        VerdictsTrue, SettledLeft, HistoryTrue, PromptHasGuardian, KeyOf, callVars
<1>10. ASSUME RevokeAll PROVE RegistryConsistent'
  <2>1. /\ \A j \in todo' : j \in todo \/ (j.verdict = "Revoked" /\ j.as = "PolicyChanged")
        /\ UNCHANGED <<callVars, pending, waiters, inflight, outbox, monitor, history, outcome>>
    BY <1>10 DEF RevokeAll
  <2>2. QED
    BY <2>1, StatusVerdictCases
    DEF RegistryConsistent, NoDanglingInflight, FreshCalls, RidersOwn, NoticesTrue,
        VerdictsTrue, SettledLeft, HistoryTrue, PromptHasGuardian, KeyOf, callVars
<1>11. ASSUME NEW j \in todo, RunJob(j) PROVE RegistryConsistent'
  <2>1. /\ j.id \in Calls /\ j.verdict \in Verdicts /\ j.as \in Resolutions
        /\ j.verdict = StatusVerdict(j.as)
    BY DEF TypeOK, Job, RegistryConsistent, NoticesTrue
  <2>2. /\ Resolve(j.id, j.verdict, j.as) /\ todo' \subseteq todo
        /\ UNCHANGED <<callVars, monitor, history>>
    BY <1>11 DEF RunJob
  <2>3. QED
    BY <2>1, <2>2, ResolveConsistent DEF BesideResolve, Fresh, callVars
<1>12. ASSUME NEW n \in outbox, Deliver(n) PROVE RegistryConsistent'
  BY <1>12, DeliverConsistent
<1>13. ASSUME NEW p \in Calls, Monitor(p) PROVE RegistryConsistent'
  <2>1. CASE MonitorRecheck(p) \/ MonitorPoll(p)
    <3>1. /\ Sweep /\ UNCHANGED <<want, pc, rides, result, via, todo, history>>
          /\ monitor[p] \in {"grace", "watch", "waive"}
      BY <2>1 DEF MonitorRecheck, MonitorPoll
    <3>2. \A q \in pending' : monitor'[q] = monitor[q] \/ monitor'[q] \in {"grace", "watch", "waive"}
      BY <2>1, SweepTyped DEF MonitorRecheck, Handled, MonitorPoll, Sweep, TypeOK
    <3>3. QED
      BY <3>1, <3>2, SweepConsistent DEF Fresh
  <2>2. CASE MonitorGraceEnd(p) \/ MonitorWaive(p) \/ MonitorDeadline(p)
    <3>1. PICK v \in Verdicts, r \in Resolutions : Resolve(p, v, r) /\ v = StatusVerdict(r)
      BY <2>2, StatusVerdictCases DEF MonitorGraceEnd, MonitorWaive, MonitorDeadline, Verdicts, Resolutions
    <3>2. MonitorIdle /\ monitor' = [monitor EXCEPT ![p] = "over"]
      BY <2>2 DEF MonitorGraceEnd, MonitorWaive, MonitorDeadline
    <3>3. pending' = pending \ {p} /\ pending \subseteq Calls
      BY <3>1 DEF Resolve, TypeOK
    <3>4. \A q \in pending' : monitor'[q] = monitor[q]
      BY <3>2, <3>3 DEF TypeOK
    <3>5. QED
      BY <3>1, <3>2, <3>4, ResolveConsistent DEF BesideResolve, Fresh, MonitorIdle, callVars
  <2>3. QED
    BY <1>13, <2>1, <2>2 DEF Monitor
<1>14. ASSUME Tick \/ Suspend \/ SetBack \/ SurfaceChange \/ UNCHANGED vars
       PROVE  RegistryConsistent'
  <2>1. UNCHANGED <<callVars, regVars, taskVars, seenVars>>
    BY <1>14 DEF Tick, Suspend, SetBack, SurfaceChange, EnvOnly, vars
  <2>2. QED
    BY <2>1 DEF RegistryConsistent, NoDanglingInflight, FreshCalls, RidersOwn, NoticesTrue,
                VerdictsTrue, SettledLeft, HistoryTrue, PromptHasGuardian, KeyOf,
                callVars, regVars, taskVars, seenVars
<1>15. QED
  BY <1>1, <1>2, <1>3, <1>4, <1>5, <1>6, <1>7, <1>8, <1>9, <1>10, <1>11, <1>12,
     <1>13, <1>14
  DEF Next, Gate

\* The registry, the channels, the notices and the history agree on every
\* prompt in every reachable state.
THEOREM Consistent == Spec => []RegistryConsistent
<1>1. Init => TypeOK /\ RegistryConsistent
  BY InitTyped, InitConsistent
<1>2. (TypeOK /\ RegistryConsistent) /\ [Next]_vars => (TypeOK /\ RegistryConsistent)'
  BY StepTyped, StepConsistent
<1>3. QED
  BY <1>1, <1>2, PTL DEF Spec

\* gate() never finds an index entry without its prompt (the `expect` in its
\* join never fires).
THEOREM IndexExact == Spec => []NoDanglingInflight
<1>1. RegistryConsistent => NoDanglingInflight
  BY DEF RegistryConsistent
<1>2. QED
  BY <1>1, Consistent, PTL

\* A call passes only by an open window, by the approval of the very prompt it
\* waited on, or by the harness's waiver.
THEOREM PassOnlyByAnswer == Spec => []AllowedOnlyByAnswer
<1>1. TypeOK /\ RegistryConsistent => AllowedOnlyByAnswer
  BY DEF RegistryConsistent, VerdictsTrue, RidersOwn, AllowedOnlyByAnswer, KeyOf, TypeOK
<1>2. QED
  BY <1>1, TypeCorrect, Consistent, PTL

(* What a caller is told by its own timer.                                  *)

\* What a step that adds no waiter does to the prompts and to the calls.
Hears ==
    /\ rides' = rides /\ pending' \subseteq pending
    /\ \A p \in Calls : p \notin pending \/ p \in pending' => outcome'[p] = outcome[p]
    /\ \A p \in pending \ pending' : outcome'[p] = "abandoned" => Live(p) = {}
    /\ \A p \in pending' : Live(p) \subseteq waiters'[p]
    /\ \A c \in Calls :
          /\ pc'[c] \in {"idle", "swept"} => pc[c] \in {"idle", "swept"}
          /\ pc'[c] \in {"raised", "parked"} => pc[c] \in {"raised", "parked"} \/ Fresh(c)'
          /\ via'[c] = "deadline" =>
                \/ via[c] = "deadline" /\ result'[c] = result[c]
                \/ pc[c] = "parked" /\ rides[c] \notin pending' /\ result'[c] = "TimedOut"

\* Such a step keeps what waiting callers rely on.
LEMMA HearsHeard ==
    ASSUME TypeOK, RegistryConsistent, WaitersHeard, Hears PROVE WaitersHeard'
<1>1. \A c \in Calls : rides[c] \in Calls /\ pending \subseteq Calls
  BY DEF TypeOK
<1>2. \A c \in Calls : pc[c] \in {"idle", "swept"} => c \notin pending
  BY DEF RegistryConsistent, FreshCalls
<1>3. \A c \in Calls : pc[c] \in {"raised", "parked"} =>
          /\ rides[c] \in pending => c \in Live(rides[c])
          /\ outcome[rides[c]] # "abandoned"
  BY DEF WaitersHeard, Live, Closed
<1>4. \A c \in Calls : pc[c] \in {"raised", "parked"} => outcome'[rides[c]] # "abandoned"
  BY <1>1, <1>3 DEF Hears
<1>5. \A p \in Calls : pc'[p] \in {"idle", "swept"} \/ p \in pending' => outcome'[p] = "none"
  BY <1>1, <1>2 DEF Hears, WaitersHeard
<1>6. \A c \in Calls : pc'[c] \in {"raised", "parked"} =>
          /\ rides'[c] \in pending' => c \in waiters'[rides'[c]]
          /\ outcome'[rides'[c]] # "abandoned"
  BY <1>1, <1>3, <1>4 DEF Hears, Fresh
<1>7. \A c \in Calls : via'[c] = "deadline" =>
          /\ result'[c] = "TimedOut" /\ rides'[c] \notin pending'
          /\ outcome'[rides'[c]] # "abandoned"
  BY <1>1, <1>4 DEF Hears, WaitersHeard
<1>8. QED
  BY <1>5, <1>6, <1>7 DEF WaitersHeard

\* The sweep abandons only prompts nobody listens to.
LEMMA SweepHears ==
    ASSUME TypeOK, Sweep
    PROVE  /\ pending' \subseteq pending
           /\ \A p \in Calls : p \notin pending \/ p \in pending' => outcome'[p] = outcome[p]
           /\ \A p \in pending \ pending' : outcome'[p] = "abandoned" => Live(p) = {}
           /\ \A p \in pending' : Live(p) \subseteq waiters'[p]
<1>1. pending \subseteq Calls /\ pending' = pending \ Lapsed /\ Lapsed \subseteq pending
  BY DEF TypeOK, Sweep, SweptPending, Lapsed
<1>2. \A p \in Lapsed : ~Expired(p) => Live(p) = {}
  BY DEF Lapsed
<1>3. QED
  BY <1>1, <1>2 DEF Sweep, SweptOutcome, SweptWaiters, SweptPending

\* resolve() abandons no prompt.
LEMMA ResolveHears ==
    ASSUME TypeOK, NEW q \in Calls, NEW v \in Verdicts, NEW r \in Resolutions,
           Resolve(q, v, r)
    PROVE  /\ pending' = pending \ {q}
           /\ \A p \in Calls : p \notin pending \/ p \in pending' => outcome'[p] = outcome[p]
           /\ \A p \in pending \ pending' : outcome'[p] = "abandoned" => Live(p) = {}
           /\ \A p \in pending' : Live(p) \subseteq waiters'[p]
<1>1. v # "abandoned"
  BY DEF Verdicts
<1>2. CASE q \in pending
  <2>1. /\ pending' = pending \ {q}
        /\ waiters' = [waiters EXCEPT ![q] = {}]
        /\ outcome' = [outcome EXCEPT ![q] = v]
    BY <1>2 DEF Resolve
  <2>2. QED
    BY <1>1, <1>2, <2>1 DEF TypeOK, Live
<1>3. CASE q \notin pending
  BY <1>3 DEF Resolve, Live
<1>4. QED
  BY <1>2, <1>3

\* Callers that stay where they are hear no less.
LEMMA CallersStay ==
    ASSUME UNCHANGED callVars \/ UNCHANGED <<pc, rides, result, via>>
    PROVE  /\ rides' = rides
           /\ \A c \in Calls :
                /\ pc'[c] \in {"idle", "swept"} => pc[c] \in {"idle", "swept"}
                /\ pc'[c] \in {"raised", "parked"} => pc[c] \in {"raised", "parked"} \/ Fresh(c)'
                /\ via'[c] = "deadline" => via[c] = "deadline" /\ result'[c] = result[c]
  BY DEF callVars

\* Every step keeps what waiting callers rely on.
LEMMA StepHeard == TypeOK /\ RegistryConsistent /\ WaitersHeard /\ [Next]_vars => WaitersHeard'
<1> SUFFICES ASSUME TypeOK, RegistryConsistent, WaitersHeard, [Next]_vars PROVE WaitersHeard'
  OBVIOUS
<1>1. ASSUME NEW c \in Calls, GateSweep(c) PROVE WaitersHeard'
  <2>1. /\ Sweep /\ pc[c] = "idle" /\ pc' = [pc EXCEPT ![c] = "swept"]
        /\ UNCHANGED <<rides, result, via>>
    BY <1>1 DEF GateSweep
  <2>2. QED
    BY <2>1, SweepHears, HearsHeard DEF Hears, Fresh, TypeOK
<1>2. ASSUME NEW c \in Calls, GateShortcut(c) \/ GateAnswered(c) PROVE WaitersHeard'
  <2>1. PICK v \in Verdicts, how \in {"window", "cooldown", "full", "prompt"} :
            Return(c, v, how)
    <3>1. CASE GateShortcut(c)
      <4>1. \/ Return(c, "Allowed", "window") \/ Return(c, "Denied", "cooldown")
            \/ Return(c, "Unavailable", "full")
        BY <3>1 DEF GateShortcut
      <4>2. QED
        BY <4>1 DEF Verdicts
    <3>2. CASE GateAnswered(c)
      BY <3>2 DEF GateAnswered, TypeOK
    <3>3. QED
      BY <1>2, <3>1, <3>2
  <2>2. UNCHANGED <<rides, pending, waiters, outcome>>
    BY <1>2 DEF GateShortcut, GateAnswered, regVars, seenVars
  <2>3. QED
    BY <2>1, <2>2, ReturnEffect, HearsHeard DEF Hears, Fresh, Live
<1>3. ASSUME NEW c \in Calls, NEW p \in Calls, GateJoin(c, p) PROVE WaitersHeard'
  <2>1. /\ pc[c] = "swept" /\ <<KeyOf(c), p>> \in inflight
        /\ waiters' = [waiters EXCEPT ![p] = @ \cup {c}]
        /\ rides' = [rides EXCEPT ![c] = p]
        /\ pc' = [pc EXCEPT ![c] = "parked"]
        /\ UNCHANGED <<result, via, pending, outcome>>
    BY <1>3 DEF GateJoin, MayAsk, seenVars
  <2>2. p \in pending
    BY <2>1 DEF RegistryConsistent, NoDanglingInflight
  <2>3. via[c] = "none"
    BY <2>1 DEF RegistryConsistent, FreshCalls
  <2>4. outcome[p] # "abandoned"
    BY <2>2 DEF WaitersHeard
  <2>5. \A d \in Calls : rides[d] \in Calls
    BY DEF TypeOK
  <2>6. \A d \in Calls : pc'[d] \in {"raised", "parked"} =>
          /\ rides'[d] \in pending' => d \in waiters'[rides'[d]]
          /\ outcome'[rides'[d]] # "abandoned"
    BY <2>1, <2>2, <2>4, <2>5 DEF WaitersHeard, TypeOK
  <2>7. \A d \in Calls : via'[d] = "deadline" =>
          /\ result'[d] = "TimedOut" /\ rides'[d] \notin pending'
          /\ outcome'[rides'[d]] # "abandoned"
    BY <2>1, <2>3 DEF WaitersHeard, TypeOK
  <2>8. QED
    BY <2>1, <2>6, <2>7 DEF WaitersHeard, TypeOK
<1>4. ASSUME NEW c \in Calls, GateRaise(c) PROVE WaitersHeard'
  <2>1. /\ pc[c] = "swept" /\ pc' = [pc EXCEPT ![c] = "raised"]
        /\ pending' = pending \cup {c}
        /\ waiters' = [waiters EXCEPT ![c] = {c}]
        /\ UNCHANGED <<rides, result, via, outcome>>
    BY <1>4 DEF GateRaise, MayAsk, seenVars
  <2>2. /\ via[c] = "none" /\ rides[c] = c /\ outcome[c] = "none"
        /\ \A d \in Calls : rides[d] = c => d = c
    BY <2>1 DEF RegistryConsistent, FreshCalls, WaitersHeard
  <2>3. \A d \in Calls : rides[d] \in Calls
    BY DEF TypeOK
  <2>4. \A d \in Calls : pc'[d] \in {"raised", "parked"} =>
          /\ rides'[d] \in pending' => d \in waiters'[rides'[d]]
          /\ outcome'[rides'[d]] # "abandoned"
    BY <2>1, <2>2, <2>3 DEF WaitersHeard, TypeOK
  <2>5. \A d \in Calls : via'[d] = "deadline" =>
          /\ result'[d] = "TimedOut" /\ rides'[d] \notin pending'
          /\ outcome'[rides'[d]] # "abandoned"
    BY <2>1, <2>2, <2>3 DEF WaitersHeard, TypeOK
  <2>6. QED
    BY <2>1, <2>2, <2>4, <2>5 DEF WaitersHeard, TypeOK
<1>5. ASSUME NEW c \in Calls, GatePublish(c) PROVE WaitersHeard'
  <2>1. CASE surface = "waiving"
    <3>1. /\ Resolve(c, "Allowed", "Waived") /\ Return(c, "Allowed", "waived")
          /\ rides' = rides
      BY <1>5, <2>1 DEF GatePublish
    <3>2. "Allowed" \in Verdicts /\ "Waived" \in Resolutions
      BY DEF Verdicts, Resolutions
    <3>3. QED
      BY <3>1, <3>2, ResolveHears, ReturnEffect, HearsHeard DEF Hears, Fresh
  <2>2. CASE surface # "waiving"
    <3>1. /\ pc[c] = "raised" /\ pc' = [pc EXCEPT ![c] = "parked"]
          /\ UNCHANGED <<rides, result, via, pending, waiters, outcome>>
      BY <1>5, <2>2 DEF GatePublish, regVars
    <3>2. QED
      BY <3>1, HearsHeard DEF Hears, Fresh, Live, TypeOK
  <2>3. QED
    BY <2>1, <2>2
<1>6. ASSUME NEW c \in Calls, GateTimedOut(c) PROVE WaitersHeard'
  <2>1. /\ pc[c] = "parked" /\ Resolve(rides[c], "TimedOut", "TimedOut")
        /\ Return(c, "TimedOut", "deadline") /\ rides' = rides
    BY <1>6 DEF GateTimedOut
  <2>2. rides[c] \in Calls /\ "TimedOut" \in Verdicts /\ "TimedOut" \in Resolutions
    BY DEF TypeOK, Verdicts, Resolutions
  <2>3. QED
    BY <2>1, <2>2, ResolveHears, ReturnEffect, HearsHeard DEF Hears, Fresh
<1>7. ASSUME NEW c \in Calls, Disconnect(c) PROVE WaitersHeard'
  <2>1. /\ pc' = [pc EXCEPT ![c] = "gone"]
        /\ UNCHANGED <<rides, result, via, pending, waiters, outcome>>
    BY <1>7 DEF Disconnect, regVars, seenVars
  <2>2. QED
    BY <2>1, HearsHeard DEF Hears, Fresh, Live, TypeOK
<1>8. ASSUME NEW p \in Calls, NEW d \in Decisions, Respond(p, d) PROVE WaitersHeard'
  <2>1. /\ p \in SweptPending /\ pending' = SweptPending \ {p}
        /\ waiters' = [SweptWaiters EXCEPT ![p] = {}]
        /\ outcome' = [SweptOutcome EXCEPT ![p] = IF d = "Deny" THEN "Denied" ELSE "Allowed"]
        /\ UNCHANGED <<pc, rides, result, via>>
    BY <1>8 DEF Respond
  <2>2. /\ pending \subseteq Calls /\ SweptPending = pending \ Lapsed /\ Lapsed \subseteq pending
        /\ \A q \in Lapsed : ~Expired(q) => Live(q) = {}
    BY DEF TypeOK, SweptPending, Lapsed
  <2>3. \A q \in Calls : q # p =>
          /\ waiters'[q] = SweptWaiters[q] /\ outcome'[q] = SweptOutcome[q]
    BY <2>1 DEF SweptWaiters, SweptOutcome
  <2>4. outcome'[p] # "abandoned"
    BY <2>1, <2>2 DEF SweptOutcome
  <2>5. QED
    BY <2>1, <2>2, <2>3, <2>4, CallersStay, HearsHeard
    DEF Hears, SweptWaiters, SweptOutcome
<1>9. ASSUME Read \/ \E p \in Calls : MonitorRecheck(p) \/ MonitorPoll(p) PROVE WaitersHeard'
  <2>1. Sweep /\ UNCHANGED <<pc, rides, result, via>>
    BY <1>9 DEF Read, MonitorRecheck, MonitorPoll
  <2>2. QED
    BY <2>1, SweepHears, CallersStay, HearsHeard DEF Hears
<1>10. ASSUME NEW q \in Calls, NEW v \in Verdicts, NEW r \in Resolutions,
              Resolve(q, v, r), UNCHANGED callVars
       PROVE  WaitersHeard'
  BY <1>10, ResolveHears, CallersStay, HearsHeard DEF Hears
<1>11. ASSUME NEW j \in todo, RunJob(j) PROVE WaitersHeard'
  <2>1. j.id \in Calls /\ j.verdict \in Verdicts /\ j.as \in Resolutions
    BY DEF TypeOK, Job
  <2>2. Resolve(j.id, j.verdict, j.as) /\ UNCHANGED callVars
    BY <1>11 DEF RunJob
  <2>3. QED
    BY <2>1, <2>2, <1>10
<1>12. ASSUME NEW p \in Calls, MonitorGraceEnd(p) \/ MonitorWaive(p) \/ MonitorDeadline(p)
       PROVE  WaitersHeard'
  <2>1. PICK v \in Verdicts, r \in Resolutions : Resolve(p, v, r)
    BY <1>12 DEF MonitorGraceEnd, MonitorWaive, MonitorDeadline, Verdicts, Resolutions
  <2>2. UNCHANGED callVars
    BY <1>12 DEF MonitorGraceEnd, MonitorWaive, MonitorDeadline, MonitorIdle
  <2>3. QED
    BY <2>1, <2>2, <1>10
<1>13. ASSUME UNCHANGED <<pc, rides, result, via, pending, waiters, outcome>>
       PROVE  WaitersHeard'
  BY <1>13 DEF WaitersHeard
<1>14. ASSUME \/ \E conn \in Conns : Revoke(conn) \/ Release(conn)
              \/ RevokeAll
              \/ \E n \in outbox : Deliver(n)
              \/ Tick \/ Suspend \/ SetBack \/ SurfaceChange
              \/ UNCHANGED vars
       PROVE  UNCHANGED <<pc, rides, result, via, pending, waiters, outcome>>
  BY <1>14 DEF Revoke, Release, DropConnection, RevokeAll, Deliver, Tick, Suspend, SetBack,
               SurfaceChange, EnvOnly, vars, callVars, regVars, seenVars
<1>15. QED
  BY <1>1, <1>2, <1>3, <1>4, <1>5, <1>6, <1>7, <1>8, <1>9, <1>11, <1>12, <1>13, <1>14
  DEF Next, Gate, Monitor

\* What gate() returned to the calls that waited on a prompt is what the history records
\* of the prompt; a call whose own timer wins returns TimedOut, and the prompt it waited
\* on is not recorded as one whose callers had hung up.
THEOREM HistoryTruthful == Spec => []ToldAsRecorded
<1>1. Init => WaitersHeard
  BY DEF Init, WaitersHeard
<1>2. TypeOK /\ RegistryConsistent /\ WaitersHeard => ToldAsRecorded
  <2> SUFFICES ASSUME TypeOK, RegistryConsistent, WaitersHeard, NEW c \in Calls
               PROVE  /\ via[c] = "prompt" /\ history[rides[c]] \in Resolutions
                            => result[c] = StatusVerdict(history[rides[c]])
                      /\ via[c] = "deadline"
                            => result[c] = "TimedOut" /\ history[rides[c]] # "CallerDisconnected"
    BY DEF ToldAsRecorded
  <2>1. rides[c] \in Calls
    BY DEF TypeOK
  <2>2. history[rides[c]] \in Resolutions => outcome[rides[c]] = StatusVerdict(history[rides[c]])
    BY <2>1 DEF RegistryConsistent, HistoryTrue
  <2>3. via[c] = "prompt" => outcome[rides[c]] = result[c]
    BY DEF RegistryConsistent, VerdictsTrue
  <2>4. history[rides[c]] = "CallerDisconnected" => outcome[rides[c]] = "abandoned"
    BY <2>2, StatusVerdictCases DEF Resolutions
  <2>5. QED
    BY <2>2, <2>3, <2>4 DEF WaitersHeard
<1>3. QED
  BY <1>1, <1>2, TypeCorrect, Consistent, StepHeard, PTL DEF Spec

\* A waiting prompt is never left without the task that retires it.
THEOREM GuardedPrompts == Spec => []PromptHasGuardian
<1>1. RegistryConsistent => PromptHasGuardian
  BY DEF RegistryConsistent
<1>2. QED
  BY <1>1, Consistent, PTL
-----------------------------------------------------------------------------
(* What a step may never do.                                               *)

\* Only respond() opens a window.
LEMMA GrantsGrowOnlyByRespond ==
    ASSUME TypeOK, [Next]_vars, ~(grants' \subseteq grants)
    PROVE  \E p \in Calls, d \in Decisions : Respond(p, d)
  BY DEF Next, Gate, Monitor, GateSweep, GateShortcut, GateJoin, GateRaise, GatePublish,
         GateAnswered, GateTimedOut, Disconnect, Read, Revoke, Release, DropConnection,
         RevokeAll, RunJob, Deliver, MonitorGraceEnd, MonitorWaive, MonitorRecheck, MonitorDeadline,
         MonitorPoll, MonitorIdle, Tick, Suspend, SetBack, SurfaceChange, EnvOnly, Sweep,
         SweptGrants, Resolve, vars, regVars

\* An answer opens a window only for a prompt inside both deadlines, with a
\* caller still waiting, that asks about traffic.
THEOREM LateAnswers == Spec => LateAnswerOpensNoWindow
<1> DEFINE Opens(g, p) ==
        /\ KeyOf(p) = g.key /\ outcome'[p] = "Allowed"
        /\ deadline[p] > clock /\ expires[p] > Wall
        /\ \E c \in waiters[p] : pc[c] \notin {"gone", "done"}
        /\ want[p].unit = "Traffic"
<1>1. ASSUME TypeOK, [Next]_vars, NEW g \in grants' \ grants
      PROVE  \E p \in pending \ pending' : Opens(g, p)
  <2>1. PICK p \in Calls, d \in Decisions : Respond(p, d)
    BY <1>1, GrantsGrowOnlyByRespond
  <2>2. /\ p \in pending \ pending' /\ ~Expired(p) /\ Live(p) # {}
    BY <2>1 DEF Respond, SweptPending, Lapsed
  <2>3. d # "Deny" /\ want[p].unit # "HostKey" /\ g.key = KeyOf(p)
    <3>1. SweptGrants \subseteq grants
      BY DEF SweptGrants
    <3>2. QED
      BY <1>1, <2>1, <3>1 DEF Respond
  <2>4. outcome'[p] = "Allowed"
    BY <1>1, <2>1, <2>3, SweepTyped DEF Respond
  <2>5. deadline[p] > clock /\ expires[p] > Wall
    BY <1>1, <2>2, WallTyped DEF Expired, TypeOK
  <2>6. want[p].unit = "Traffic"
    BY <1>1, <2>3, CallsAssumption DEF TypeOK, Request
  <2>7. \E c \in waiters[p] : pc[c] \notin {"gone", "done"}
    BY <2>2 DEF Live, Closed
  <2>8. QED
    BY <2>2, <2>3, <2>4, <2>5, <2>6, <2>7
<1>2. TypeOK /\ [Next]_vars =>
        [\A g \in grants' \ grants : \E p \in pending \ pending' : Opens(g, p)]_vars
  BY <1>1
<1>3. QED
  BY <1>2, TypeCorrect, PTL DEF Spec, LateAnswerOpensNoWindow
\* A step moves at most one call, along gate(): none becomes "swept" but by its
\* first critical section, none returns "window" but by its second.
LEMMA CallsMove ==
    ASSUME TypeOK, [Next]_vars, NEW c \in Calls
    PROVE  /\ pc'[c] = "swept" => pc[c] = "swept" \/ GateSweep(c)
           /\ via'[c] = "window" => via[c] = "window" \/ (GateShortcut(c) /\ HasGrant(c))
<1>1. CASE \E d \in Calls : Gate(d)
  <2>1. PICK d \in Calls : Gate(d)
    BY <1>1
  <2>2. CASE GateSweep(d)
    BY <2>2 DEF GateSweep, TypeOK
  <2>3. CASE GateShortcut(d)
    BY <2>3 DEF GateShortcut, Return, TypeOK
  <2>4. CASE GateRaise(d) \/ (\E p \in Calls : GateJoin(d, p)) \/ Disconnect(d)
    <3>1. /\ via' = via
          /\ \E to \in {"raised", "parked", "gone"} : pc' = [pc EXCEPT ![d] = to]
      BY <2>4 DEF GateRaise, GateJoin, Disconnect
    <3>2. QED
      BY <3>1 DEF TypeOK
  <2>5. CASE GatePublish(d)
    <3>1. \/ Return(d, "Allowed", "waived")
          \/ pc' = [pc EXCEPT ![d] = "parked"] /\ via' = via
      BY <2>5 DEF GatePublish
    <3>2. QED
      BY <3>1 DEF Return, TypeOK
  <2>6. CASE GateAnswered(d) \/ GateTimedOut(d)
    BY <2>6 DEF GateAnswered, GateTimedOut, Return, TypeOK
  <2>7. QED
    BY <2>1, <2>2, <2>3, <2>4, <2>5, <2>6 DEF Gate
<1>2. CASE ~ \E d \in Calls : Gate(d)
  <2>1. UNCHANGED <<pc, via>>
    BY <1>2 DEF Next, Monitor, Respond, Read, Revoke, Release, DropConnection, RevokeAll,
         RunJob, Deliver, MonitorGraceEnd, MonitorWaive, MonitorRecheck, MonitorDeadline, MonitorPoll,
         MonitorIdle, Tick, Suspend, SetBack, SurfaceChange, EnvOnly, vars, callVars
  <2>2. QED
    BY <2>1
<1>3. QED
  BY <1>1, <1>2

\* Every open window was open, or opened, since the call that may use it came in.
LEMMA StepWindows == TypeOK /\ WindowsOpenSince /\ [Next]_vars => WindowsOpenSince'
<1> SUFFICES ASSUME TypeOK, WindowsOpenSince, [Next]_vars PROVE WindowsOpenSince'
  OBVIOUS
<1>1. CASE \E c \in Calls : GateSweep(c)
  <2>1. PICK c \in Calls : GateSweep(c)
    BY <1>1
  <2>2. /\ clock' = clock /\ grants' = SweptGrants
        /\ pc' = [pc EXCEPT ![c] = "swept"]
        /\ since' = [since EXCEPT ![c] = [now |-> clock, wall |-> Wall]]
    BY <2>1 DEF GateSweep, Sweep, envVars
  <2>3. \A g \in grants' : g \in grants /\ g.until > clock /\ g.wallUntil > Wall
    BY <2>2 DEF SweptGrants
  <2>4. QED
    BY <2>2, <2>3 DEF WindowsOpenSince, TypeOK
<1>2. CASE \E p \in Calls, d \in Decisions : Respond(p, d)
  <2>1. UNCHANGED <<clock, pc, since>>
    BY <1>2 DEF Respond, envVars
  <2>2. \A g \in grants' : g \in grants \/ g.until = clock + Window
    BY <1>2 DEF Respond, SweptGrants
  <2>3. QED
    <3>1. SUFFICES ASSUME NEW c \in Calls, pc[c] = "swept"
                   PROVE  /\ since[c].now <= clock
                          /\ \A g \in grants' :
                                /\ g.until > since[c].now
                                /\ \/ g.wallUntil > since[c].wall
                                   \/ g.until >= since[c].now + Window
      BY <2>1 DEF WindowsOpenSince
    <3>2. since[c].now \in Nat /\ clock \in Nat /\ Window \in Nat \ {0} /\ since[c].now <= clock
      BY <3>1, TunablesAssumption DEF WindowsOpenSince, TypeOK
    <3>3. QED
      BY <2>2, <3>1, <3>2 DEF WindowsOpenSince
<1>3. CASE /\ grants' \subseteq grants /\ since' = since /\ clock' \in {clock, clock + 1}
           /\ \A c \in Calls : pc'[c] = "swept" => pc[c] = "swept"
  BY <1>3 DEF WindowsOpenSince, TypeOK
<1>4. CASE ~ \E c \in Calls : GateSweep(c)
  <2>1. since' = since /\ clock' \in {clock, clock + 1}
    BY <1>4 DEF Next, Gate, Monitor, GateShortcut, GateJoin, GateRaise,
         GatePublish, GateAnswered, GateTimedOut, Disconnect, Respond, Read, Revoke, Release,
         DropConnection, RevokeAll, RunJob, Deliver, MonitorGraceEnd, MonitorWaive, MonitorRecheck,
         MonitorDeadline, MonitorPoll, MonitorIdle, Tick, Suspend, SetBack, SurfaceChange,
         EnvOnly, vars, callVars, envVars
  <2>2. \A c \in Calls : pc'[c] = "swept" => pc[c] = "swept"
    BY <1>4, CallsMove
  <2>3. QED
    BY <1>2, <1>3, <2>1, <2>2, GrantsGrowOnlyByRespond
<1>5. QED
  BY <1>1, <1>4

\* A window that lets a call through without asking was open on both clocks
\* when the call entered gate(), or was opened since.
THEOREM WindowsEnd == Spec => WindowNeverOutlived
<1> DEFINE Covered(c) == \E g \in grants :
        /\ g.key = KeyOf(c)
        /\ g.until > since[c].now
        /\ g.wallUntil > since[c].wall \/ g.until >= since[c].now + Window
<1>1. ASSUME TypeOK, WindowsOpenSince, [Next]_vars, NEW c \in Calls,
             via[c] = "none", via'[c] = "window"
      PROVE  Covered(c)
  <2>1. HasGrant(c) /\ pc[c] = "swept"
    BY <1>1, CallsMove DEF GateShortcut
  <2>2. QED
    BY <1>1, <2>1 DEF HasGrant, WindowsOpenSince
<1>2. TypeOK /\ WindowsOpenSince /\ [Next]_vars =>
        [\A c \in Calls : via[c] = "none" /\ via'[c] = "window" => Covered(c)]_vars
  BY <1>1
<1>3. Init => WindowsOpenSince
  BY DEF Init, WindowsOpenSince
<1>4. QED
  BY <1>2, <1>3, StepWindows, TypeCorrect, PTL DEF Spec, WindowNeverOutlived
=============================================================================
