---------------------------- MODULE Executions ----------------------------
(***************************************************************************)
(* Idempotent execution of agent calls: crates/aka-core/src/executions.rs, *)
(* with the executor that run_allowed (daemon/mod.rs) hands it.            *)
(*                                                                         *)
(* A call with a request id joins the execution in flight under its key,   *)
(* is replayed the outcome of a completed one, or starts the one execution *)
(* after reserving the slot that will remember it.  An execution is named  *)
(* by the call that started it.  What an outcome says is left out: calls   *)
(* record whose outcome they got, and an outcome has a serialized length.  *)
(***************************************************************************)
EXTENDS Integers, Sequences, FiniteSets, FiniteSetsExt

CONSTANTS
    Calls,       \* calls of run(), retries included
    Keys,        \* idempotency keys (client, connection, request id)
    Payloads,    \* payload hashes
    None,        \* the key and the payload hash of a call without a request id
    NoCall,      \* no execution
    Sizes,       \* serialized lengths an outcome may have
    MaxEntries,  \* retention_max_entries
    MaxBytes,    \* retention_max_bytes
    Retention,   \* how long a completed key is remembered
    MaxTime      \* bound: last modelled instant

ASSUME NamesAssumption ==
    /\ None \notin Keys \cup Payloads /\ NoCall \notin Calls
    /\ IsFiniteSet(Calls) /\ IsFiniteSet(Keys)
ASSUME LimitsAssumption ==
    {MaxEntries, MaxBytes, Retention, MaxTime} \cup Sizes \subseteq Nat

VARIABLES
    clock,      \* Instant::now()
    key,        \* call -> coalesce_key
    payload,    \* call -> payload_hash
    confirm,    \* call -> whether its connection asks the user
    pc,         \* call -> where its handler is
    got,        \* call -> the execution whose outcome it was handed
    exec,       \* call -> where the execution it started is
    result,     \* call -> how that execution ended
    size,       \* call -> serialized length of that outcome
    began,      \* ghost: keyed execution -> when it reached the upstream
    done,       \* execution -> when its outcome was retained
    waiters,    \* execution -> Pending::waiters
    abandoned,  \* executions whose abandon channel fired
    sending,    \* execution -> waiters still to be sent the outcome
    byKey,      \* Inner::by_key
    reserved,   \* Inner::retention_reservations
    held,       \* key -> what Inner::outcomes holds
    heldBy,     \* key -> the execution it remembers
    order,      \* Inner::outcome_order
    replays,    \* Inner::replay_order
    bytes       \* Inner::outcome_bytes

requests  == <<key, payload, confirm>>
callers   == <<pc, got>>
runs      == <<exec, result, size, began, done, waiters, abandoned, sending>>
retained  == <<held, heldBy, order, replays, bytes>>
vars      == <<clock, requests, callers, runs, byKey, reserved, retained>>

-----------------------------------------------------------------------------
Active == {"parked", "upstream"}
Replies == {"answered", "mismatch", "unreplayable", "capacity"}

Shapes ==
    /\ clock \in Nat
    /\ key \in [Calls -> Keys \cup {None}]
    /\ payload \in [Calls -> Payloads \cup {None}]
    /\ confirm \in [Calls -> {"on", "off"}]
    /\ pc \in [Calls -> {"idle", "waiting", "gone"} \cup Replies]
    /\ got \in [Calls -> Calls \cup {NoCall}]
    /\ exec \in [Calls -> {"none", "ended"} \cup Active]
    /\ result \in [Calls -> {"none", "answer", "denied", "retryable", "abandoned"}]
    /\ began \in [Calls -> Nat] /\ done \in [Calls -> Nat]
    /\ waiters \in [Calls -> SUBSET Calls] /\ sending \in [Calls -> SUBSET Calls]
    /\ abandoned \subseteq Calls
    /\ byKey \in [Keys -> Calls \cup {NoCall}]
    /\ held \in [Keys -> {"none", "body", "tombstone"}]
    /\ heldBy \in [Keys -> Calls \cup {NoCall}]

\* A type invariant: every variable keeps its shape, and neither the byte
\* count nor the reservation count is taken below zero.
TypeOK ==
    /\ Shapes
    /\ size \in [Calls -> Sizes \cup {0}]
    /\ order \in Seq(Keys) /\ replays \in Seq(Keys)
    /\ bytes \in Nat /\ reserved \in Nat

Init ==
    /\ clock = 0
    /\ key \in [Calls -> Keys \cup {None}]
    /\ payload \in [Calls -> Payloads \cup {None}]
    /\ \A c \in Calls : key[c] = None <=> payload[c] = None
    /\ confirm \in [Calls -> {"on", "off"}]
    /\ pc = [c \in Calls |-> "idle"]
    /\ got = [c \in Calls |-> NoCall]
    /\ exec = [c \in Calls |-> "none"]
    /\ result = [c \in Calls |-> "none"]
    /\ size = [c \in Calls |-> 0]
    /\ began = [c \in Calls |-> 0] /\ done = [c \in Calls |-> 0]
    /\ waiters = [c \in Calls |-> {}] /\ sending = [c \in Calls |-> {}]
    /\ abandoned = {}
    /\ byKey = [k \in Keys |-> NoCall]
    /\ held = [k \in Keys |-> "none"] /\ heldBy = [k \in Keys |-> NoCall]
    /\ order = <<>> /\ replays = <<>> /\ bytes = 0 /\ reserved = 0

-----------------------------------------------------------------------------
(* Retention.                                                              *)

Monus(a, b) == IF a >= b THEN a - b ELSE 0

\* Retained::serialized_len: a tombstone counts nothing.
SerializedLen == [k \in Keys |-> IF held[k] = "body" THEN size[heldBy[k]] ELSE 0]

\* Mutant: an entry expires with its retention, not after it.
ExpiredEarly(k) == held[k] = "none" \/ clock - done[heldBy[k]] >= Retention
Expired(k) == held[k] = "none" \/ clock - done[heldBy[k]] > Retention

\* Mutant: the loop leaves the last entry in line.
PrunedCountShort ==
    Cardinality({i \in 1 .. Len(order) - 1 : \A j \in 1 .. i : Expired(order[j])})
\* prune_expired_outcomes: the expired keys at the front of outcome_order.
PrunedCount ==
    Cardinality({i \in 1 .. Len(order) : \A j \in 1 .. i : Expired(order[j])})
Pruned == {k \in Keys : \E i \in 1 .. PrunedCount : order[i] = k /\ Expired(k)}

\* Mutant: the bodies of expired keys stay in line for eviction.
RequeuedAll == replays
Requeued ==
    LET stay == {i \in 1 .. Len(replays) : replays[i] \notin Pruned}
        place(n) == CHOOSE i \in stay : Cardinality({j \in stay : j <= i}) = n
    IN  [n \in 1 .. Cardinality(stay) |-> replays[place(n)]]

PrunedBytes == Monus(bytes, SumFunctionOnSet(SerializedLen, Pruned))

Kept == [k \in Keys |-> IF k \in Pruned THEN "none" ELSE held[k]]
Prune ==
    /\ held' = Kept
    /\ order' = SubSeq(order, PrunedCount + 1, Len(order))
    /\ replays' = Requeued
    /\ bytes' = PrunedBytes
    /\ UNCHANGED heldBy

\* evict_oldest_replay_body, as often as an outcome of n bytes needs it: how
\* many bodies go, oldest first, and what that leaves.
BytesLeft(i) ==
    Monus(bytes, SumFunctionOnSet(SerializedLen, {replays[j] : j \in 1 .. i}))
Room(n, i) == n <= Monus(MaxBytes, BytesLeft(i))
Evictions(n) ==
    LET enough == {i \in 0 .. Len(replays) : Room(n, i)}
    IN  IF n > MaxBytes THEN 0 ELSE IF enough = {} THEN Len(replays) ELSE Min(enough)
Fits(n) == n <= MaxBytes /\ Room(n, Evictions(n))
Evicted(n, k) == \E i \in 1 .. Evictions(n) : replays[i] = k

Enqueued(k) == Append(order, k)

\* retain_completed_outcome, for the outcome of e of n bytes.
Retain(k, e, n) ==
    LET left == SubSeq(replays, Evictions(n) + 1, Len(replays))
    IN  /\ held' = [j \in Keys |->
              IF j = k THEN IF Fits(n) THEN "body" ELSE "tombstone"
              ELSE IF held[j] = "body" /\ Evicted(n, j) THEN "tombstone" ELSE held[j]]
        /\ heldBy' = [heldBy EXCEPT ![k] = e]
        /\ order' = Enqueued(k)
        /\ replays' = IF Fits(n) THEN Append(left, k) ELSE left
        /\ bytes' = BytesLeft(Evictions(n)) + IF Fits(n) THEN n ELSE 0

-----------------------------------------------------------------------------
(* A call.                                                                 *)

SamePayload(c, e) == payload[c] = payload[e]

\* reserve_retention_slot refuses.
Full ==
    \/ Retention = 0
    \/ Cardinality({k \in Keys : Kept[k] # "none"}) + reserved >= MaxEntries

Reply(c, r, e) ==
    /\ pc' = [pc EXCEPT ![c] = r]
    /\ got' = [got EXCEPT ![c] = e]
    /\ UNCHANGED <<runs, byKey, reserved>>

\* try_join on a completed key ...
Replay(c) ==
    /\ key[c] # None /\ Kept[key[c]] # "none"
    /\ LET e == heldBy[key[c]]
       IN  \/ ~SamePayload(c, e) /\ Reply(c, "mismatch", NoCall)
           \/ SamePayload(c, e) /\ Kept[key[c]] = "body" /\ Reply(c, "answered", e)
           \/ SamePayload(c, e) /\ Kept[key[c]] = "tombstone" /\ Reply(c, "unreplayable", NoCall)

\* ... and on one in flight.
Join(c) ==
    /\ key[c] # None /\ Kept[key[c]] = "none" /\ byKey[key[c]] # NoCall
    /\ LET e == byKey[key[c]]
       IN  \/ ~SamePayload(c, e) /\ Reply(c, "mismatch", NoCall)
           \/ /\ SamePayload(c, e)
              /\ pc' = [pc EXCEPT ![c] = "waiting"]
              /\ waiters' = [waiters EXCEPT ![e] = @ \cup {c}]
              /\ UNCHANGED <<got, exec, result, size, began, done, abandoned, sending,
                             byKey, reserved>>

\* Nothing under the key: start the one execution, if it can be remembered.
Begin(c) ==
    /\ key[c] # None => Kept[key[c]] = "none" /\ byKey[key[c]] = NoCall
    /\ \/ key[c] # None /\ Full /\ Reply(c, "capacity", NoCall)
       \/ /\ key[c] = None \/ ~Full
          /\ pc' = [pc EXCEPT ![c] = "waiting"]
          /\ exec' = [exec EXCEPT ![c] = "parked"]
          /\ waiters' = [waiters EXCEPT ![c] = {c}]
          /\ byKey' = [k \in Keys |-> IF k = key[c] THEN c ELSE byKey[k]]
          /\ reserved' = IF key[c] = None THEN reserved ELSE reserved + 1
          /\ UNCHANGED <<got, result, size, began, done, abandoned, sending>>

\* run(): prune, then join, replay or start, under one lock.
Run(c) ==
    /\ pc[c] = "idle"
    /\ Prune
    /\ Replay(c) \/ Join(c) \/ Begin(c)
    /\ UNCHANGED <<clock, requests>>

\* Mutant: a keyed execution is told too when its last waiter leaves.
TellsKeyed(e) == confirm[e] = "on"
\* Only an unkeyed execution that may park has an abandon channel.
Tells(e) == key[e] = None /\ confirm[e] = "on"

\* The caller hangs up: the handle's guard deregisters its waiter.
Disconnect(c) ==
    /\ pc[c] = "waiting"
    /\ pc' = [pc EXCEPT ![c] = "gone"]
    /\ waiters' = [e \in Calls |-> IF exec[e] \in Active THEN waiters[e] \ {c} ELSE waiters[e]]
    /\ abandoned' = abandoned \cup
          {e \in Calls : exec[e] \in Active /\ waiters[e] = {c} /\ Tells(e)}
    /\ UNCHANGED <<clock, requests, got, exec, result, size, began, done, sending,
                   byKey, reserved, retained>>

-----------------------------------------------------------------------------
(* The execution's own task.                                               *)

\* The user allowed it, or was not asked, and the authority still stands.
Dispatch(e) ==
    /\ exec[e] = "parked"
    /\ exec' = [exec EXCEPT ![e] = "upstream"]
    /\ began' = [began EXCEPT ![e] = IF key[e] = None THEN 0 ELSE clock]
    /\ UNCHANGED <<clock, requests, callers, result, size, done, waiters, abandoned, sending,
                   byKey, reserved, retained>>

\* is_retryable_preflight_outcome: timed out, unavailable or denied by policy.
Retryable(r) == r \in {"retryable", "abandoned"}

\* Mutant: only the caller that started the execution hears.
OnlyStarter(e) == waiters[e] \cap {e}
Audience(e) == waiters[e]

Released == Monus(reserved, 1)

\* spawn_completion, under the lock, for an outcome r of n bytes.
Complete(e, r, n) ==
    /\ exec' = [exec EXCEPT ![e] = "ended"]
    /\ result' = [result EXCEPT ![e] = r]
    /\ size' = [size EXCEPT ![e] = n]
    /\ sending' = [sending EXCEPT ![e] = Audience(e)]
    /\ waiters' = [waiters EXCEPT ![e] = {}]
    /\ byKey' = [k \in Keys |-> IF k = key[e] THEN NoCall ELSE byKey[k]]
    /\ reserved' = IF key[e] = None THEN reserved ELSE Released
    /\ IF key[e] # None /\ ~Retryable(r)
       THEN Retain(key[e], e, n) /\ done' = [done EXCEPT ![e] = clock]
       ELSE UNCHANGED <<retained, done>>
    /\ UNCHANGED <<clock, requests, callers, began, abandoned>>

\* The upstream answered, failed or timed out.
Finish(e) ==
    /\ exec[e] = "upstream"
    /\ \E n \in Sizes : Complete(e, "answer", n)

\* Refused before dispatch: by policy always, by the gate if the user is asked.
Refuse(e) ==
    /\ exec[e] = "parked"
    /\ \E n \in Sizes :
          \/ Complete(e, "retryable", n)
          \/ confirm[e] = "on" /\ Complete(e, "denied", n)
          \/ e \in abandoned /\ Complete(e, "abandoned", n)

\* After the unlock, each waiter's channel is sent the outcome.
Send(e, c) ==
    /\ c \in sending[e]
    /\ sending' = [sending EXCEPT ![e] = @ \ {c}]
    /\ IF pc[c] = "waiting"
       THEN pc' = [pc EXCEPT ![c] = "answered"] /\ got' = [got EXCEPT ![c] = e]
       ELSE UNCHANGED callers
    /\ UNCHANGED <<clock, requests, exec, result, size, began, done, waiters, abandoned,
                   byKey, reserved, retained>>

\* The sweeper task; not started when nothing is retained.
Sweeper ==
    /\ Retention # 0
    /\ Prune
    /\ UNCHANGED <<clock, requests, callers, runs, byKey, reserved>>

Tick ==
    /\ clock < MaxTime
    /\ clock' = clock + 1
    /\ UNCHANGED <<requests, callers, runs, byKey, reserved, retained>>

-----------------------------------------------------------------------------
Next ==
    \/ \E c \in Calls : Run(c) \/ Disconnect(c) \/ Dispatch(c) \/ Finish(c) \/ Refuse(c)
    \/ \E e, c \in Calls : Send(e, c)
    \/ Sweeper
    \/ Tick

Spec == Init /\ [][Next]_vars

(* Every wait of an execution is bounded (the gate and the upstream time   *)
(* out), its task sends what it owes, and the sweeper's interval fires.    *)
Fairness ==
    /\ \A e \in Calls : WF_vars(\/ Dispatch(e) \/ Finish(e) \/ Refuse(e)
                                \/ \E c \in Calls : Send(e, c))
    /\ WF_vars(Sweeper)

FairSpec == Spec /\ Fairness
-----------------------------------------------------------------------------
(* Properties.                                                             *)

Reached(e) == exec[e] = "upstream" \/ (exec[e] = "ended" /\ result[e] = "answer")

\* e2 reached the upstream only after the memory of e1 had lapsed.
After(e1, e2) == exec[e1] = "ended" /\ began[e2] > done[e1] + Retention

\* Retry safety: under one key the upstream is reached once, however retries
\* race completion, eviction, expiry, disconnects and a full table, until the
\* retention window of the first execution has passed.
ExactlyOnce ==
    \A e1, e2 \in Calls :
        e1 # e2 /\ key[e1] = key[e2] /\ key[e1] # None /\ Reached(e1) /\ Reached(e2) =>
            After(e1, e2) \/ After(e2, e1)

\* What a caller is handed is the outcome of its own request: of the execution
\* it started, or of one with the same key and the same payload.
AnswersOwn ==
    \A c \in Calls : pc[c] = "answered" =>
        /\ got[c] # NoCall /\ exec[got[c]] = "ended"
        /\ got[c] = c \/ (key[got[c]] = key[c] /\ key[c] # None /\ payload[got[c]] = payload[c])

\* "once its one caller disconnects, nobody can ever read the answer": no
\* caller is handed the refusal of an execution that gave up for want of one.
AbandonedUnheard ==
    \A c \in Calls : pc[c] = "answered" => result[got[c]] # "abandoned"

KeyedActive == {e \in Calls : key[e] # None /\ exec[e] \in Active}
HeldKeys == {k \in Keys : held[k] # "none"}

\* The fail-closed boundary: there is a slot for every execution accepted and
\* every key remembered, and the reservations are those of the executions in
\* flight.
SlotsExact ==
    /\ reserved = Cardinality(KeyedActive)
    /\ Cardinality(HeldKeys) + reserved <= MaxEntries

\* The byte count is that of the bodies kept, and within its bound.
BytesExact ==
    /\ bytes = SumFunctionOnSet(SerializedLen, Keys)
    /\ bytes <= MaxBytes

\* Each queue names what it is for, once: every remembered key is in line for
\* expiry and every body in line for eviction.
QueuesExact ==
    /\ Len(order) = Cardinality(HeldKeys)
    /\ {order[i] : i \in 1 .. Len(order)} = HeldKeys
    /\ Len(replays) = Cardinality({k \in Keys : held[k] = "body"})
    /\ {replays[i] : i \in 1 .. Len(replays)} = {k \in Keys : held[k] = "body"}

\* Every caller that stays is answered.
WaitersAnswered == \A c \in Calls : pc[c] = "waiting" ~> pc[c] # "waiting"

\* A key past its retention is forgotten, so that its slot comes back.
ExpiredForgotten ==
    \A k \in Keys : (held[k] # "none" /\ clock - done[heldBy[k]] > Retention) ~> held[k] = "none"

(* The inductive strengthening of ExactlyOnce.                             *)

\* The index names the execution in flight under each key, and no other.
IndexExact ==
    /\ \A e \in Calls : key[e] # None /\ exec[e] \in Active => byKey[key[e]] = e
    /\ \A k \in Keys : byKey[k] # NoCall =>
          key[byKey[k]] = k /\ exec[byKey[k]] \in Active /\ held[k] = "none"

\* An upstream execution is remembered, by its own entry, until its retention
\* has passed.
Remembered ==
    \A e \in Calls : key[e] # None /\ exec[e] = "ended" /\ result[e] = "answer" =>
        \/ clock - done[e] > Retention
        \/ held[key[e]] # "none" /\ heldBy[key[e]] = e

\* Entries remember executions of their own key.
EntriesOwned ==
    \A k \in Keys : held[k] # "none" => heldBy[k] \in Calls /\ key[heldBy[k]] = k

OnceInductive == IndexExact /\ Remembered /\ EntriesOwned /\ ExactlyOnce

\* Every answer reaches the callers it is for and nobody else.
AnswersHeard ==
    /\ AnswersOwn
    /\ AbandonedUnheard

\* The books of the table: its counters, its two queues and its bounds.
TableExact ==
    /\ SlotsExact
    /\ BytesExact
    /\ QueuesExact
=============================================================================
