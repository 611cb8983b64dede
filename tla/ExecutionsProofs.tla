-------------------------- MODULE ExecutionsProofs --------------------------
(***************************************************************************)
(* Retry safety of the idempotency table, for every set of calls and keys, *)
(* every retention and every bound of the table.                           *)
(***************************************************************************)
EXTENDS Executions, FiniteSetTheorems, SequenceTheorems, WellFoundedInduction, TLAPS

(* What a change of the remembered outcomes may do: forget what expired ... *)
OnlyForgets ==
    /\ heldBy' = heldBy
    /\ held' \in [Keys -> {"none", "body", "tombstone"}]
    /\ \A k \in Keys : held'[k] = held[k] \/ (held'[k] = "none" /\ Expired(k))

(* ... or remember one more.                                               *)
Remembers(k, e) ==
    /\ heldBy' = [heldBy EXCEPT ![k] = e]
    /\ held' \in [Keys -> {"none", "body", "tombstone"}]
    /\ held'[k] # "none"
    /\ \A j \in Keys \ {k} : held'[j] = "none" <=> held[j] = "none"

\* Pruning forgets only outcomes whose retention has passed.
LEMMA PruneForgets == Shapes /\ Prune => OnlyForgets
<1> SUFFICES ASSUME Shapes, Prune PROVE OnlyForgets
  OBVIOUS
<1>1. \A k \in Keys : k \in Pruned => Expired(k)
  BY DEF Pruned
<1>2. held' = [k \in Keys |-> IF k \in Pruned THEN "none" ELSE held[k]] /\ heldBy' = heldBy
  BY DEF Prune, Kept
<1> QED
  BY <1>1, <1>2 DEF OnlyForgets, Shapes

\* Retaining an outcome remembers its key and forgets no other: eviction takes
\* bodies, never tombstones.
LEMMA RetainRemembers ==
    ASSUME Shapes, NEW k \in Keys, NEW e \in Calls, NEW n, Retain(k, e, n)
    PROVE  Remembers(k, e)
<1>1. heldBy' = [heldBy EXCEPT ![k] = e]
  BY DEF Retain
<1>2. held' = [j \in Keys |->
          IF j = k THEN IF Fits(n) THEN "body" ELSE "tombstone"
          ELSE IF held[j] = "body" /\ Evicted(n, j) THEN "tombstone" ELSE held[j]]
  BY DEF Retain
<1> QED
  BY <1>1, <1>2 DEF Remembers, Shapes

\* The initial table satisfies the invariant.
LEMMA InitOnce == Init => Shapes /\ OnceInductive
<1> SUFFICES ASSUME Init PROVE Shapes /\ OnceInductive
  OBVIOUS
<1>1. Shapes
  BY DEF Init, Shapes, Active, Replies
<1>2. IndexExact /\ Remembered /\ EntriesOwned
  BY DEF Init, IndexExact, Remembered, EntriesOwned, Active
<1>3. ExactlyOnce
  BY DEF Init, ExactlyOnce, Reached
<1> QED
  BY <1>1, <1>2, <1>3 DEF OnceInductive

\* Every step keeps the shape of the variables the argument reads.
LEMMA StepShapes == Shapes /\ [Next]_vars => Shapes'
<1> SUFFICES ASSUME Shapes, [Next]_vars PROVE Shapes'
  OBVIOUS
<1> USE DEF Shapes, Active, Replies
<1>1. ASSUME NEW c \in Calls, Run(c) PROVE Shapes'
  <2>1. held' \in [Keys -> {"none", "body", "tombstone"}] /\ heldBy' = heldBy
    BY <1>1, PruneForgets DEF Run, OnlyForgets
  <2>2. clock' = clock /\ key' = key /\ payload' = payload /\ confirm' = confirm
    BY <1>1 DEF Run, requests
  <2>3. CASE Replay(c)
    <3>1. ASSUME NEW e \in Calls \cup {NoCall}, NEW r \in Replies, Reply(c, r, e) PROVE Shapes'
      BY <2>1, <2>2, <3>1 DEF Reply, runs
    <3>2. heldBy[key[c]] \in Calls \cup {NoCall}
      BY <2>3 DEF Replay
    <3> QED
      BY <2>3, <3>1, <3>2 DEF Replay
  <2>4. CASE Join(c)
    <3>1. ASSUME Reply(c, "mismatch", NoCall) PROVE Shapes'
      BY <2>1, <2>2, <3>1 DEF Reply, runs
    <3>2. byKey[key[c]] \in Calls
      BY <2>4 DEF Join
    <3>3. ASSUME NEW e \in Calls, waiters' = [waiters EXCEPT ![e] = @ \cup {c}]
          PROVE  waiters' \in [Calls -> SUBSET Calls]
      BY <3>3
    <3> QED
      BY <2>1, <2>2, <2>4, <3>1, <3>2, <3>3 DEF Join
  <2>5. CASE Begin(c)
    <3>1. ASSUME Reply(c, "capacity", NoCall) PROVE Shapes'
      BY <2>1, <2>2, <3>1 DEF Reply, runs
    <3> QED
      BY <2>1, <2>2, <2>5, <3>1 DEF Begin
  <2> QED
    BY <1>1, <2>3, <2>4, <2>5 DEF Run
<1>2. ASSUME NEW c \in Calls, Disconnect(c) PROVE Shapes'
  BY <1>2 DEF Disconnect, requests, retained
<1>3. ASSUME NEW e \in Calls, Dispatch(e) PROVE Shapes'
  BY <1>3 DEF Dispatch, requests, callers, retained
<1>4. ASSUME NEW e \in Calls, NEW r \in {"answer", "denied", "retryable", "abandoned"}, NEW n,
             Complete(e, r, n), exec[e] \in Active
      PROVE  Shapes'
  <2>1. /\ held' \in [Keys -> {"none", "body", "tombstone"}]
        /\ heldBy' \in [Keys -> Calls \cup {NoCall}]
    <3>1. CASE key[e] # None /\ ~Retryable(r)
      <4>1. key[e] \in Keys /\ Retain(key[e], e, n)
        BY <1>4, <3>1 DEF Complete
      <4> HIDE DEF Shapes, Active, Replies
      <4>2. Remembers(key[e], e)
        BY <4>1, RetainRemembers
      <4> QED
        BY <4>1, <4>2 DEF Remembers, Shapes
    <3>2. CASE ~(key[e] # None /\ ~Retryable(r))
      BY <1>4, <3>2 DEF Complete, retained
    <3> QED
      BY <3>1, <3>2
  <2>2. sending' \in [Calls -> SUBSET Calls]
    BY <1>4 DEF Complete, Audience
  <2>3. byKey' \in [Keys -> Calls \cup {NoCall}]
    BY <1>4 DEF Complete
  <2> QED
    BY <1>4, <2>1, <2>2, <2>3 DEF Complete, requests, callers
<1>5. ASSUME NEW e \in Calls, Finish(e) PROVE Shapes'
  BY <1>4, <1>5 DEF Finish
<1>6. ASSUME NEW e \in Calls, Refuse(e) PROVE Shapes'
  BY <1>4, <1>6 DEF Refuse
<1>7. ASSUME NEW e \in Calls, NEW c \in Calls, Send(e, c) PROVE Shapes'
  BY <1>7 DEF Send, requests, callers, retained
<1>8. CASE Sweeper
  BY <1>8, PruneForgets DEF Sweeper, OnlyForgets, requests, callers, runs
<1>9. CASE Tick
  BY <1>9, LimitsAssumption DEF Tick, requests, callers, runs, retained
<1>10. CASE UNCHANGED vars
  BY <1>10 DEF vars, requests, callers, runs, retained
<1> QED
  BY <1>1, <1>2, <1>3, <1>5, <1>6, <1>7, <1>8, <1>9, <1>10 DEF Next

(* A step that starts, dispatches and completes nothing.                   *)
Quiet == UNCHANGED <<clock, key, exec, result, began, done, byKey>> /\ OnlyForgets

\* A quiet step keeps the invariant: what it forgets had expired.
LEMMA QuietKeeps == Shapes /\ OnceInductive /\ Quiet => OnceInductive'
<1> SUFFICES ASSUME Shapes, OnceInductive, Quiet PROVE OnceInductive'
  OBVIOUS
<1> USE DEF OnceInductive, Quiet, OnlyForgets
<1>1. IndexExact'
  BY DEF IndexExact
<1>2. Remembered'
  <2> SUFFICES ASSUME NEW e \in Calls, key[e] # None, exec[e] = "ended", result[e] = "answer"
               PROVE  \/ clock - done[e] > Retention
                      \/ held'[key[e]] # "none" /\ heldBy[key[e]] = e
    BY DEF Remembered
  <2>1. key[e] \in Keys
    BY DEF Shapes
  <2> QED
    BY <2>1 DEF Remembered, Expired
<1>3. EntriesOwned'
  BY DEF EntriesOwned
<1>4. ExactlyOnce'
  BY DEF ExactlyOnce, Reached, After
<1> QED
  BY <1>1, <1>2, <1>3, <1>4

\* An execution that starts under a key finds it neither in flight nor
\* remembered.
LEMMA BeginKeeps ==
    ASSUME Shapes, OnceInductive, NEW c \in Calls, Run(c), Begin(c), exec' # exec
    PROVE  OnceInductive'
<1>1. /\ UNCHANGED <<clock, key, result, began, done>> /\ OnlyForgets
      /\ exec' = [exec EXCEPT ![c] = "parked"]
      /\ byKey' = [k \in Keys |-> IF k = key[c] THEN c ELSE byKey[k]]
  BY PruneForgets DEF Run, Begin, Reply, runs, requests
<1>2. key[c] # None => key[c] \in Keys /\ held'[key[c]] = "none" /\ byKey[key[c]] = NoCall
  BY DEF Run, Prune, Begin, Shapes
<1> USE NamesAssumption DEF OnceInductive
<1>3. IndexExact'
  <2>1. ASSUME NEW e \in Calls, key[e] # None, exec'[e] \in Active
        PROVE  byKey'[key[e]] = e
    BY <1>1, <1>2, <2>1 DEF IndexExact, Shapes
  <2>2. ASSUME NEW k \in Keys, byKey'[k] # NoCall
        PROVE  key[byKey'[k]] = k /\ exec'[byKey'[k]] \in Active /\ held'[k] = "none"
    BY <1>1, <1>2, <2>2 DEF IndexExact, Shapes, OnlyForgets, Active
  <2> QED
    BY <1>1, <2>1, <2>2 DEF IndexExact
<1>4. Remembered'
  <2> SUFFICES ASSUME NEW e \in Calls, key[e] # None, exec'[e] = "ended", result[e] = "answer"
               PROVE  \/ clock - done[e] > Retention
                      \/ held'[key[e]] # "none" /\ heldBy'[key[e]] = e
    BY <1>1 DEF Remembered
  <2>1. key[e] \in Keys /\ exec[e] = "ended"
    BY <1>1 DEF Shapes
  <2> QED
    BY <1>1, <2>1 DEF Remembered, Expired, OnlyForgets
<1>5. EntriesOwned'
  BY <1>1 DEF EntriesOwned, OnlyForgets
<1>6. ExactlyOnce'
  <2>1. \A e \in Calls : Reached(e)' => Reached(e) /\ exec'[e] = exec[e]
    BY <1>1 DEF Reached, Shapes
  <2> QED
    BY <1>1, <2>1 DEF ExactlyOnce, After
<1> QED
  BY <1>3, <1>4, <1>5, <1>6

\* An execution that reaches the upstream does so after every earlier one
\* under its key was forgotten.
LEMMA DispatchKeeps ==
    ASSUME Shapes, OnceInductive, NEW e \in Calls, Dispatch(e)
    PROVE  OnceInductive'
<1>1. /\ UNCHANGED <<clock, key, result, done, byKey, held, heldBy>>
      /\ exec[e] = "parked" /\ exec' = [exec EXCEPT ![e] = "upstream"]
      /\ began' = [began EXCEPT ![e] = IF key[e] = None THEN 0 ELSE clock]
  BY DEF Dispatch, requests, retained
<1> USE NamesAssumption DEF OnceInductive
<1>2. IndexExact' /\ Remembered' /\ EntriesOwned'
  BY <1>1 DEF IndexExact, Remembered, EntriesOwned, Active, Shapes
<1>3. ASSUME NEW d \in Calls, d # e, key[d] = key[e], key[e] # None, Reached(d)
      PROVE  exec[d] = "ended" /\ clock > done[d] + Retention
  <2>1. key[e] \in Keys /\ byKey[key[e]] = e /\ held[key[e]] = "none"
    BY <1>1, <1>3 DEF IndexExact, Active, Shapes
  <2>2. exec[d] # "upstream"
    BY <1>3, <2>1 DEF IndexExact, Active
  <2>3. exec[d] = "ended" /\ result[d] = "answer"
    BY <1>3, <2>2 DEF Reached
  <2>4. clock - done[d] > Retention
    BY <1>3, <2>1, <2>3 DEF Remembered
  <2>5. Retention \in Nat
    BY LimitsAssumption
  <2>6. clock \in Nat /\ done[d] \in Nat
    BY DEF Shapes
  <2> QED
    BY <2>3, <2>4, <2>5, <2>6
<1>4. ExactlyOnce'
  <2> SUFFICES ASSUME NEW e1 \in Calls, NEW e2 \in Calls, e1 # e2, key[e1] = key[e2],
                      key[e1] # None, Reached(e1)', Reached(e2)'
               PROVE  After(e1, e2)' \/ After(e2, e1)'
    BY <1>1 DEF ExactlyOnce
  <2>1. \A d \in Calls : d # e /\ Reached(d)' => Reached(d) /\ exec'[d] = exec[d] /\ began'[d] = began[d]
    BY <1>1 DEF Reached, Shapes
  <2>2. CASE e1 = e
    BY <1>1, <1>3, <2>1, <2>2 DEF After, Shapes
  <2>3. CASE e2 = e
    BY <1>1, <1>3, <2>1, <2>3 DEF After, Shapes
  <2>4. CASE e1 # e /\ e2 # e
    BY <1>1, <2>1, <2>4 DEF ExactlyOnce, After
  <2> QED
    BY <2>2, <2>3, <2>4
<1> QED
  BY <1>2, <1>4

\* A completion trades its reservation for a memory, if the upstream answered.
LEMMA CompleteKeeps ==
    ASSUME Shapes, OnceInductive, NEW e \in Calls, NEW r, NEW n, Complete(e, r, n),
           exec[e] \in Active, r = "answer" <=> exec[e] = "upstream"
    PROVE  OnceInductive'
<1>1. /\ UNCHANGED <<clock, key, began>>
      /\ exec' = [exec EXCEPT ![e] = "ended"] /\ result' = [result EXCEPT ![e] = r]
      /\ done' \in {done, [done EXCEPT ![e] = clock]}
      /\ byKey' = [k \in Keys |-> IF k = key[e] THEN NoCall ELSE byKey[k]]
  BY DEF Complete, requests, retained
<1>2. \/ key[e] \in Keys /\ Remembers(key[e], e)
      \/ (key[e] = None \/ r # "answer") /\ held' = held /\ heldBy' = heldBy
  <2>1. CASE key[e] # None /\ ~Retryable(r)
    BY <2>1, RetainRemembers DEF Complete, Shapes
  <2>2. CASE ~(key[e] # None /\ ~Retryable(r))
    BY <2>2 DEF Complete, retained, Retryable
  <2> QED
    BY <2>1, <2>2
<1>3. key[e] # None => byKey[key[e]] = e /\ held[key[e]] = "none"
  BY NamesAssumption DEF OnceInductive, IndexExact, Shapes
<1> USE NamesAssumption DEF OnceInductive
<1>4. IndexExact'
  <2>1. ASSUME NEW d \in Calls, key[d] # None, exec'[d] \in Active
        PROVE  byKey'[key[d]] = d
    BY <1>1, <1>3, <2>1 DEF IndexExact, Shapes, Active
  <2>2. ASSUME NEW k \in Keys, byKey'[k] # NoCall
        PROVE  key[byKey'[k]] = k /\ exec'[byKey'[k]] \in Active /\ held'[k] = "none"
    <3>1. k # key[e] /\ byKey'[k] = byKey[k] /\ byKey[k] \in Calls /\ byKey[k] # e
      BY <1>1, <2>2 DEF IndexExact, Shapes
    <3>2. held'[k] = "none"
      BY <1>2, <2>2, <3>1 DEF IndexExact, Remembers
    <3> QED
      BY <1>1, <2>2, <3>1, <3>2 DEF IndexExact, Shapes
  <2> QED
    BY <1>1, <2>1, <2>2 DEF IndexExact
<1>5. Remembered'
  <2> SUFFICES ASSUME NEW d \in Calls, key[d] # None, exec'[d] = "ended", result'[d] = "answer"
               PROVE  \/ clock - done'[d] > Retention
                      \/ held'[key[d]] # "none" /\ heldBy'[key[d]] = d
    BY <1>1 DEF Remembered
  <2>1. CASE d = e
    BY <1>1, <1>2, <2>1 DEF Remembers, Shapes
  <2>2. CASE d # e
    <3>1. exec[d] = "ended" /\ result[d] = "answer" /\ done'[d] = done[d] /\ key[d] \in Keys
      BY <1>1, <2>2 DEF Shapes
    <3>2. CASE key[d] = key[e]
      BY <1>3, <2>2, <3>1, <3>2 DEF Remembered
    <3>3. CASE key[d] # key[e]
      BY <1>2, <3>1, <3>3 DEF Remembered, Remembers, Shapes
    <3> QED
      BY <3>2, <3>3
  <2> QED
    BY <2>1, <2>2
<1>6. EntriesOwned'
  BY <1>1, <1>2 DEF EntriesOwned, Remembers, Shapes
<1>7. ExactlyOnce'
  <2>1. \A d \in Calls : Reached(d)' => Reached(d)
    BY <1>1 DEF Reached, Shapes, Active
  <2>2. \A d1, d2 \in Calls : After(d1, d2) => After(d1, d2)'
    BY <1>1 DEF After, Shapes, Active
  <2> QED
    BY <1>1, <2>1, <2>2 DEF ExactlyOnce
<1> QED
  BY <1>4, <1>5, <1>6, <1>7

\* Every step keeps the invariant.
LEMMA StepOnce == Shapes /\ OnceInductive /\ [Next]_vars => OnceInductive'
<1> SUFFICES ASSUME Shapes, OnceInductive, [Next]_vars PROVE OnceInductive'
  OBVIOUS
<1>0. held' = held /\ heldBy' = heldBy => OnlyForgets
  BY DEF OnlyForgets, Shapes
<1>1. ASSUME NEW c \in Calls, Run(c) PROVE OnceInductive'
  <2>1. CASE Begin(c) /\ exec' # exec
    BY <1>1, <2>1, BeginKeeps
  <2>2. CASE ~(Begin(c) /\ exec' # exec)
    <3>1. UNCHANGED <<clock, key>> /\ OnlyForgets
      BY <1>1, PruneForgets DEF Run, requests
    <3>2. UNCHANGED <<exec, result, began, done, byKey>>
      <4>1. \A r, e : Reply(c, r, e) => UNCHANGED <<exec, result, began, done, byKey>>
        BY DEF Reply, runs
      <4>2. CASE Replay(c)
        BY <4>1, <4>2 DEF Replay
      <4>3. CASE Join(c)
        BY <4>1, <4>3 DEF Join
      <4>4. CASE Begin(c)
        <5>1. ASSUME exec' = [exec EXCEPT ![c] = "parked"], exec' = exec
              PROVE  exec[c] = "parked"
          BY <5>1 DEF Shapes
        <5>2. key[c] # None => byKey[key[c]] = NoCall /\ key[c] \in Keys
          BY <4>4 DEF Begin, Shapes
        <5>3. exec[c] = "parked" => key[c] = None
          BY <5>2, NamesAssumption DEF OnceInductive, IndexExact, Active
        <5>4. key[c] = None => [k \in Keys |-> IF k = key[c] THEN c ELSE byKey[k]] = byKey
          BY NamesAssumption DEF Shapes
        <5> QED
          BY <2>2, <4>1, <4>4, <5>1, <5>3, <5>4 DEF Begin
      <4> QED
        BY <1>1, <4>2, <4>3, <4>4 DEF Run
    <3> QED
      BY <3>1, <3>2, QuietKeeps DEF Quiet
  <2> QED
    BY <2>1, <2>2
<1>2. ASSUME NEW c \in Calls, Disconnect(c) PROVE OnceInductive'
  BY <1>0, <1>2, QuietKeeps DEF Disconnect, Quiet, requests, retained
<1>3. ASSUME NEW e \in Calls, Dispatch(e) PROVE OnceInductive'
  BY <1>3, DispatchKeeps
<1>4. ASSUME NEW e \in Calls, Finish(e) PROVE OnceInductive'
  <2>1. PICK n \in Sizes : Complete(e, "answer", n)
    BY <1>4 DEF Finish
  <2> QED
    BY <1>4, <2>1, CompleteKeeps DEF Finish, Active
<1>5. ASSUME NEW e \in Calls, Refuse(e) PROVE OnceInductive'
  <2>1. PICK n \in Sizes, r \in {"retryable", "denied", "abandoned"} : Complete(e, r, n)
    BY <1>5 DEF Refuse
  <2>2. exec[e] = "parked"
    BY <1>5 DEF Refuse
  <2> QED
    BY <2>1, <2>2, CompleteKeeps DEF Active
<1>6. ASSUME NEW e \in Calls, NEW c \in Calls, Send(e, c) PROVE OnceInductive'
  BY <1>0, <1>6, QuietKeeps DEF Send, Quiet, requests, retained
<1>7. CASE Sweeper
  BY <1>7, PruneForgets, QuietKeeps DEF Sweeper, Quiet, requests, runs
<1>8. CASE Tick
  <2>1. /\ UNCHANGED <<key, exec, result, began, done, byKey, held, heldBy>>
        /\ clock' = clock + 1
    BY <1>8 DEF Tick, requests, runs, retained
  <2>2. IndexExact' /\ EntriesOwned' /\ ExactlyOnce'
    BY <2>1 DEF OnceInductive, IndexExact, EntriesOwned, ExactlyOnce, Reached, After
  <2>3. Remembered'
    <3>1. Retention \in Nat /\ clock \in Nat /\ \A e \in Calls : done[e] \in Nat
      BY LimitsAssumption DEF Shapes
    <3>2. \A e \in Calls : clock - done[e] > Retention => clock' - done[e] > Retention
      BY <2>1, <3>1
    <3> QED
      BY <2>1, <3>2 DEF OnceInductive, Remembered
  <2> QED
    BY <2>2, <2>3 DEF OnceInductive
<1>9. CASE UNCHANGED vars
  BY <1>0, <1>9, QuietKeeps DEF vars, Quiet, requests, runs, retained
<1> QED
  BY <1>1, <1>2, <1>3, <1>4, <1>5, <1>6, <1>7, <1>8, <1>9 DEF Next

\* Retry safety, of every behaviour of the table: two executions under one key
\* never both reach the upstream within the retention of the first.
THEOREM RetrySafety == Spec => []ExactlyOnce
<1>1. Init => Shapes /\ OnceInductive
  BY InitOnce
<1>2. Shapes /\ OnceInductive /\ [Next]_vars => (Shapes /\ OnceInductive)'
  BY StepShapes, StepOnce
<1>3. OnceInductive => ExactlyOnce
  BY DEF OnceInductive
<1> QED
  BY <1>1, <1>2, <1>3, PTL DEF Spec

\* The table never forgets early: an execution that reached the upstream is
\* remembered, under its own key, until its retention has passed.
THEOREM NeverForgetsEarly == Spec => []OnceInductive
<1>1. Init => Shapes /\ OnceInductive
  BY InitOnce
<1>2. Shapes /\ OnceInductive /\ [Next]_vars => (Shapes /\ OnceInductive)'
  BY StepShapes, StepOnce
<1> QED
  BY <1>1, <1>2, PTL DEF Spec

-----------------------------------------------------------------------------
(* Whose answers callers get.                                              *)

\* The execution is the caller's own request.
Own(c, e) == c = e \/ (key[e] = key[c] /\ key[c] # None /\ payload[e] = payload[c])

\* The index and the remembered outcomes name executions of their key; what is
\* remembered ended, and not for want of a caller.
NamesOwn ==
    /\ \A k \in Keys : byKey[k] # NoCall => key[byKey[k]] = k
    /\ \A k \in Keys : held[k] # "none" =>
          /\ heldBy[k] \in Calls /\ key[heldBy[k]] = k
          /\ exec[heldBy[k]] = "ended" /\ result[heldBy[k]] # "abandoned"

\* An execution no call started has nobody; one that was abandoned has nobody
\* any more, and no retry can join it; one that ended so tells nobody.
NobodyLeft(e) ==
    /\ exec[e] = "none" => waiters[e] = {} /\ e \notin abandoned
    /\ exec[e] # "none" => pc[e] # "idle"
    /\ exec[e] # "ended" => sending[e] = {}
    /\ e \in abandoned => key[e] = None /\ waiters[e] = {}
    /\ exec[e] = "ended" /\ result[e] = "abandoned" => sending[e] = {}

\* Who waits for an execution, or is about to be sent its outcome, asked for it.
AudienceOwn(e) == \A c \in waiters[e] \cup sending[e] : Own(c, e)

\* What a caller was handed.
HandedOwn(c) ==
    pc[c] = "answered" =>
        /\ got[c] \in Calls /\ exec[got[c]] = "ended" /\ result[got[c]] # "abandoned"
        /\ Own(c, got[c])

HearInductive ==
    /\ NamesOwn
    /\ \A e \in Calls : NobodyLeft(e) /\ AudienceOwn(e) /\ HandedOwn(e)

\* A step that ends no execution, forgets at most and hands out nothing new.
Unheard ==
    /\ UNCHANGED <<key, payload>> /\ OnlyForgets
    /\ \A e \in Calls : exec[e] = "ended" => exec'[e] = "ended" /\ result'[e] = result[e]

\* Whatever was remembered and handed out stays so.
LEMMA UnheardKeeps ==
    ASSUME Shapes, HearInductive, Unheard
    PROVE  /\ \A k \in Keys : held'[k] # "none" =>
                 /\ heldBy'[k] \in Calls /\ key'[heldBy'[k]] = k
                 /\ exec'[heldBy'[k]] = "ended" /\ result'[heldBy'[k]] # "abandoned"
           /\ \A c, e \in Calls : Own(c, e)' <=> Own(c, e)
           /\ \A c \in Calls : pc'[c] = pc[c] /\ got'[c] = got[c] => HandedOwn(c)'
<1>1. \A k \in Keys : held'[k] # "none" => held[k] # "none" /\ heldBy'[k] = heldBy[k]
  BY DEF Unheard, OnlyForgets
<1>2. \A c, e \in Calls : Own(c, e)' <=> Own(c, e)
  BY DEF Unheard, Own
<1>3. ASSUME NEW c \in Calls, pc'[c] = pc[c], got'[c] = got[c], pc[c] = "answered"
      PROVE  HandedOwn(c)'
  BY <1>2, <1>3 DEF HearInductive, HandedOwn, Unheard
<1>4. \A c \in Calls : pc'[c] = pc[c] /\ got'[c] = got[c] => HandedOwn(c)'
  BY <1>3 DEF HandedOwn
<1>5. QED BY <1>1, <1>2, <1>4 DEF HearInductive, NamesOwn, Unheard

\* The initial table.
LEMMA InitHear == Init => HearInductive
BY NamesAssumption DEF Init, HearInductive, NamesOwn, NobodyLeft, AudienceOwn, HandedOwn

\* A call is answered at once, or refused.
LEMMA ReplyHears ==
    ASSUME Shapes, HearInductive, NEW c \in Calls, NEW r \in Replies, NEW e \in Calls \cup {NoCall},
           OnlyForgets, UNCHANGED <<key, payload>>, Reply(c, r, e),
           r = "answered" => /\ e \in Calls /\ exec[e] = "ended" /\ result[e] # "abandoned"
                             /\ Own(c, e)
    PROVE  HearInductive'
<1>1. pc' = [pc EXCEPT ![c] = r] /\ got' = [got EXCEPT ![c] = e] /\ UNCHANGED <<runs, byKey>>
  BY DEF Reply
<1>2. Unheard
  BY <1>1 DEF Unheard, runs
<1>3. NamesOwn'
  BY <1>1, <1>2, UnheardKeeps DEF NamesOwn, HearInductive, Unheard
<1>4. ASSUME NEW d \in Calls PROVE NobodyLeft(d)' /\ AudienceOwn(d)' /\ HandedOwn(d)'
  <2>1. NobodyLeft(d)'
    BY <1>1, <1>2 DEF HearInductive, NobodyLeft, runs, Unheard, Shapes, Replies
  <2>2. AudienceOwn(d)'
    BY <1>1, <1>2, UnheardKeeps DEF HearInductive, AudienceOwn, runs, Shapes
  <2>3. HandedOwn(d)'
    <3>1. CASE d = c
      <4>1. pc'[d] = r /\ got'[d] = e
        BY <1>1, <3>1 DEF Shapes
      <4>2. UNCHANGED <<exec, result, key, payload>>
        BY <1>1, <1>2 DEF runs, Unheard
      <4>3. QED BY <3>1, <4>1, <4>2 DEF HandedOwn, Own
    <3>2. CASE d # c
      BY <1>1, <1>2, <3>2, UnheardKeeps DEF Shapes
    <3>3. QED BY <3>1, <3>2
  <2>4. QED BY <2>1, <2>2, <2>3
<1>5. QED BY <1>3, <1>4 DEF HearInductive

\* A call joins an execution of its own request, or starts one.
LEMMA RunHears ==
    ASSUME Shapes, OnceInductive, HearInductive, NEW c \in Calls, Run(c)
    PROVE  HearInductive'
<1>1. OnlyForgets /\ UNCHANGED <<key, payload>> /\ pc[c] = "idle"
  BY PruneForgets DEF Run, requests
<1>2. exec[c] = "none" /\ waiters[c] = {} /\ sending[c] = {} /\ c \notin abandoned
  BY <1>1 DEF HearInductive, NobodyLeft
<1>3. Kept = held' /\ \A k \in Keys : held'[k] # "none" => held[k] # "none"
  BY <1>1 DEF Run, Prune, OnlyForgets
<1>4. CASE Replay(c)
  <2>1. key[c] \in Keys /\ key[c] # None /\ held[key[c]] # "none"
    BY <1>3, <1>4 DEF Replay, Shapes
  <2>2. /\ heldBy[key[c]] \in Calls /\ key[heldBy[key[c]]] = key[c]
        /\ exec[heldBy[key[c]]] = "ended" /\ result[heldBy[key[c]]] # "abandoned"
    BY <2>1 DEF HearInductive, NamesOwn
  <2>3. CASE SamePayload(c, heldBy[key[c]]) /\ Reply(c, "answered", heldBy[key[c]])
    BY <1>1, <2>1, <2>2, <2>3, ReplyHears DEF Replies, Own, SamePayload
  <2>4. CASE Reply(c, "mismatch", NoCall) \/ Reply(c, "unreplayable", NoCall)
    BY <1>1, <2>4, ReplyHears DEF Replies
  <2>5. QED BY <1>4, <2>3, <2>4 DEF Replay
<1>5. CASE Join(c)
  <2> DEFINE e == byKey[key[c]]
  <2>1. key[c] \in Keys /\ key[c] # None /\ e \in Calls /\ key[e] = key[c]
    BY <1>5 DEF Join, Shapes, HearInductive, NamesOwn
  <2>2. CASE Reply(c, "mismatch", NoCall)
    BY <1>1, <2>2, ReplyHears DEF Replies
  <2>3. CASE ~Reply(c, "mismatch", NoCall)
    <3>1. /\ payload[c] = payload[e] /\ pc' = [pc EXCEPT ![c] = "waiting"]
          /\ waiters' = [waiters EXCEPT ![e] = @ \cup {c}]
          /\ UNCHANGED <<got, exec, result, abandoned, sending, byKey>>
      BY <1>5, <2>3 DEF Join, SamePayload
    <3>2. Unheard /\ e \notin abandoned /\ exec[e] # "none"
      <4>1. e \notin abandoned
        BY <2>1 DEF HearInductive, NobodyLeft
      <4>2. exec[e] # "none"
        BY <1>5, <2>1 DEF Join, OnceInductive, IndexExact, Active
      <4>3. QED BY <1>1, <3>1, <4>1, <4>2 DEF Unheard
    <3> HIDE DEF e
    <3>3. NamesOwn'
      BY <1>1, <3>1, <3>2, UnheardKeeps DEF NamesOwn, HearInductive
    <3>4. ASSUME NEW d \in Calls PROVE NobodyLeft(d)' /\ AudienceOwn(d)' /\ HandedOwn(d)'
      <4>1. NobodyLeft(d)'
        BY <1>1, <1>2, <3>1, <3>2 DEF HearInductive, NobodyLeft, Shapes
      <4>2. AudienceOwn(d)'
        <5>1. Own(c, e)
          BY <2>1, <3>1 DEF Own
        <5>2. \A x \in waiters'[d] \cup sending'[d] : x \in Calls /\ (x \in waiters[d] \cup sending[d] \/ (x = c /\ d = e))
          BY <2>1, <3>1 DEF Shapes
        <5>3. QED BY <2>1, <3>2, <5>1, <5>2, UnheardKeeps DEF HearInductive, AudienceOwn
      <4>3. HandedOwn(d)'
        BY <3>1, <3>2, UnheardKeeps DEF HandedOwn, Shapes
      <4>4. QED BY <4>1, <4>2, <4>3
    <3>5. QED BY <3>3, <3>4 DEF HearInductive
  <2>4. QED BY <2>2, <2>3
<1>6. CASE Begin(c)
  <2>1. CASE Reply(c, "capacity", NoCall)
    BY <1>1, <2>1, ReplyHears DEF Replies
  <2>2. CASE ~Reply(c, "capacity", NoCall)
    <3>1. /\ pc' = [pc EXCEPT ![c] = "waiting"] /\ exec' = [exec EXCEPT ![c] = "parked"]
          /\ waiters' = [waiters EXCEPT ![c] = {c}]
          /\ byKey' = [k \in Keys |-> IF k = key[c] THEN c ELSE byKey[k]]
          /\ UNCHANGED <<got, result, abandoned, sending>>
      BY <1>6, <2>2 DEF Begin
    <3>2. Unheard
      BY <1>1, <1>2, <3>1 DEF Unheard, Shapes
    <3>3. NamesOwn'
      BY <1>1, <3>1, <3>2, UnheardKeeps DEF NamesOwn, HearInductive
    <3>4. ASSUME NEW d \in Calls PROVE NobodyLeft(d)' /\ AudienceOwn(d)' /\ HandedOwn(d)'
      <4>1. NobodyLeft(d)'
        BY <1>1, <1>2, <3>1 DEF HearInductive, NobodyLeft, Shapes
      <4>2. AudienceOwn(d)'
        <5>1. \A x \in waiters'[d] \cup sending'[d] : x \in Calls /\ (x \in waiters[d] \cup sending[d] \/ x = d)
          BY <3>1 DEF Shapes
        <5>2. Own(d, d)
          BY DEF Own
        <5>3. QED BY <3>2, <5>1, <5>2, UnheardKeeps DEF HearInductive, AudienceOwn
      <4>3. HandedOwn(d)'
        <5>1. CASE d = c
          BY <3>1, <5>1 DEF HandedOwn, Shapes
        <5>2. CASE d # c
          BY <3>1, <3>2, <5>2, UnheardKeeps DEF Shapes
        <5>3. QED BY <5>1, <5>2
      <4>4. QED BY <4>1, <4>2, <4>3
    <3>5. QED BY <3>3, <3>4 DEF HearInductive
  <2>3. QED BY <2>1, <2>2
<1>7. QED BY <1>4, <1>5, <1>6 DEF Run

\* A caller hangs up: an unkeyed execution it leaves may give up.
LEMMA DisconnectHears ==
    ASSUME Shapes, HearInductive, NEW c \in Calls, Disconnect(c)
    PROVE  HearInductive'
<1>1. /\ pc[c] = "waiting" /\ pc' = [pc EXCEPT ![c] = "gone"]
      /\ waiters' = [e \in Calls |-> IF exec[e] \in Active THEN waiters[e] \ {c} ELSE waiters[e]]
      /\ abandoned' = abandoned \cup {e \in Calls : exec[e] \in Active /\ waiters[e] = {c} /\ Tells(e)}
      /\ UNCHANGED <<key, payload, got, exec, result, sending, byKey, held, heldBy>>
  BY DEF Disconnect, requests, retained
<1>2. Unheard
  BY <1>1 DEF Unheard, OnlyForgets, Shapes
<1>3. NamesOwn'
  BY <1>1, <1>2, UnheardKeeps DEF NamesOwn, HearInductive
<1>4. ASSUME NEW d \in Calls PROVE NobodyLeft(d)' /\ AudienceOwn(d)' /\ HandedOwn(d)'
  <2>1. NobodyLeft(d)'
    <3>1. NobodyLeft(d) /\ waiters'[d] \subseteq waiters[d]
      BY <1>1 DEF HearInductive
    <3>2. d \in abandoned' /\ d \notin abandoned =>
              key[d] = None /\ waiters'[d] = {} /\ exec[d] \in Active
      BY <1>1 DEF Tells
    <3>3. exec[d] # "none" => pc'[d] # "idle"
      BY <1>1, <3>1 DEF NobodyLeft, Shapes
    <3>4. QED BY <1>1, <3>1, <3>2, <3>3 DEF NobodyLeft, Active
  <2>2. AudienceOwn(d)'
    <3>1. \A x \in waiters'[d] \cup sending'[d] : x \in Calls /\ x \in waiters[d] \cup sending[d]
      BY <1>1 DEF Shapes
    <3>2. QED BY <1>2, <3>1, UnheardKeeps DEF HearInductive, AudienceOwn
  <2>3. HandedOwn(d)'
    <3>1. CASE d = c
      BY <1>1, <3>1 DEF HandedOwn, Shapes
    <3>2. CASE d # c
      BY <1>1, <1>2, <3>2, UnheardKeeps DEF Shapes
    <3>3. QED BY <3>1, <3>2
  <2>4. QED BY <2>1, <2>2, <2>3
<1>5. QED BY <1>3, <1>4 DEF HearInductive

\* An execution that ends tells those who wait for it, and is remembered only when it
\* was not given up.
LEMMA CompleteHears ==
    ASSUME Shapes, OnceInductive, HearInductive, NEW e \in Calls,
           NEW r \in {"answer", "denied", "retryable", "abandoned"}, NEW n, Complete(e, r, n),
           exec[e] \in Active, r = "abandoned" => e \in abandoned
    PROVE  HearInductive'
<1>1. /\ UNCHANGED <<key, payload, pc, got, abandoned>>
      /\ exec' = [exec EXCEPT ![e] = "ended"] /\ result' = [result EXCEPT ![e] = r]
      /\ sending' = [sending EXCEPT ![e] = waiters[e]] /\ waiters' = [waiters EXCEPT ![e] = {}]
      /\ byKey' = [k \in Keys |-> IF k = key[e] THEN NoCall ELSE byKey[k]]
  BY DEF Complete, requests, callers, Audience
<1>2. \/ key[e] \in Keys /\ Remembers(key[e], e) /\ r # "abandoned"
      \/ held' = held /\ heldBy' = heldBy
  <2>1. CASE key[e] # None /\ ~Retryable(r)
    BY <2>1, RetainRemembers DEF Complete, Shapes, Retryable
  <2>2. CASE ~(key[e] # None /\ ~Retryable(r))
    BY <2>2 DEF Complete, retained
  <2>3. QED BY <2>1, <2>2
<1>3. \A d \in Calls : exec[d] = "ended" => d # e /\ exec'[d] = "ended" /\ result'[d] = result[d]
  BY <1>1 DEF Shapes, Active
<1>4. \A c, d \in Calls : Own(c, d)' <=> Own(c, d)
  BY <1>1 DEF Own
<1>5. NamesOwn'
  <2>1. ASSUME NEW k \in Keys, held'[k] # "none"
        PROVE  /\ heldBy'[k] \in Calls /\ key[heldBy'[k]] = k
               /\ exec'[heldBy'[k]] = "ended" /\ result'[heldBy'[k]] # "abandoned"
    <3>1. CASE k = key[e] /\ Remembers(key[e], e) /\ r # "abandoned"
      BY <1>1, <3>1 DEF Remembers, Shapes
    <3>2. CASE held[k] # "none" /\ heldBy'[k] = heldBy[k]
      BY <1>1, <1>3, <3>2 DEF HearInductive, NamesOwn
    <3>3. QED BY <1>2, <2>1, <3>1, <3>2 DEF Remembers, Shapes
  <2>2. \A k \in Keys : byKey'[k] # NoCall => key[byKey'[k]] = k
    BY <1>1 DEF HearInductive, NamesOwn
  <2>3. QED BY <1>1, <2>1, <2>2 DEF NamesOwn
<1>6. ASSUME NEW d \in Calls PROVE NobodyLeft(d)' /\ AudienceOwn(d)' /\ HandedOwn(d)'
  <2>1. NobodyLeft(d)'
    BY <1>1 DEF HearInductive, NobodyLeft, Shapes, Active
  <2>2. AudienceOwn(d)'
    <3>1. \A x \in waiters'[d] \cup sending'[d] : x \in Calls /\ x \in waiters[d] \cup sending[d]
      BY <1>1 DEF Shapes
    <3>2. QED BY <1>4, <3>1 DEF HearInductive, AudienceOwn
  <2>3. HandedOwn(d)'
    BY <1>1, <1>3, <1>4 DEF HearInductive, HandedOwn
  <2>4. QED BY <2>1, <2>2, <2>3
<1>7. QED BY <1>5, <1>6 DEF HearInductive

\* A waiter is sent the outcome.
LEMMA SendHears ==
    ASSUME Shapes, HearInductive, NEW e \in Calls, NEW c \in Calls, Send(e, c)
    PROVE  HearInductive'
<1>1. /\ c \in sending[e] /\ sending' = [sending EXCEPT ![e] = @ \ {c}]
      /\ UNCHANGED <<key, payload, exec, result, waiters, abandoned, byKey, held, heldBy>>
      /\ \/ pc' = [pc EXCEPT ![c] = "answered"] /\ got' = [got EXCEPT ![c] = e]
         \/ UNCHANGED <<pc, got>>
  BY DEF Send, requests, retained, callers
<1>2. Unheard
  BY <1>1 DEF Unheard, OnlyForgets, Shapes
<1>3. exec[e] = "ended" /\ result[e] # "abandoned" /\ Own(c, e)
  BY <1>1 DEF HearInductive, NobodyLeft, AudienceOwn
<1>4. NamesOwn'
  BY <1>1, <1>2, UnheardKeeps DEF NamesOwn, HearInductive
<1>5. ASSUME NEW d \in Calls PROVE NobodyLeft(d)' /\ AudienceOwn(d)' /\ HandedOwn(d)'
  <2>1. NobodyLeft(d)'
    BY <1>1 DEF HearInductive, NobodyLeft, Shapes
  <2>2. AudienceOwn(d)'
    <3>1. \A x \in waiters'[d] \cup sending'[d] : x \in Calls /\ x \in waiters[d] \cup sending[d]
      BY <1>1 DEF Shapes
    <3>2. QED BY <1>2, <3>1, UnheardKeeps DEF HearInductive, AudienceOwn
  <2>3. HandedOwn(d)'
    <3>1. CASE pc'[d] = pc[d] /\ got'[d] = got[d]
      BY <1>2, <3>1, UnheardKeeps
    <3>2. CASE d = c /\ got'[d] = e
      BY <1>1, <1>2, <1>3, <3>2, UnheardKeeps DEF HandedOwn
    <3>3. QED BY <1>1, <3>1, <3>2 DEF Shapes
  <2>4. QED BY <2>1, <2>2, <2>3
<1>6. QED BY <1>4, <1>5 DEF HearInductive

\* A step that touches neither callers nor audiences.
LEMMA StillHears ==
    ASSUME Shapes, HearInductive, Unheard,
           UNCHANGED <<pc, got, waiters, sending, abandoned, byKey>>,
           \A e \in Calls : /\ exec'[e] = "none" <=> exec[e] = "none"
                            /\ exec'[e] = "ended" <=> exec[e] = "ended"
    PROVE  HearInductive'
<1>1. NamesOwn'
  BY UnheardKeeps DEF NamesOwn, HearInductive, Unheard
<1>2. \A e \in Calls : HandedOwn(e)'
  BY UnheardKeeps
<1>3. \A e \in Calls : NobodyLeft(e)'
  BY DEF HearInductive, NobodyLeft, Unheard
<1>4. \A e \in Calls : AudienceOwn(e)'
  <2>1. \A e \in Calls : waiters[e] \cup sending[e] \subseteq Calls
    BY DEF Shapes
  <2>2. QED BY <2>1, UnheardKeeps DEF HearInductive, AudienceOwn
<1>5. QED BY <1>1, <1>2, <1>3, <1>4 DEF HearInductive

\* Every step keeps it.
LEMMA StepHears == Shapes /\ OnceInductive /\ HearInductive /\ [Next]_vars => HearInductive'
<1> SUFFICES ASSUME Shapes, OnceInductive, HearInductive, [Next]_vars PROVE HearInductive'
  OBVIOUS
<1>0. held' = held /\ heldBy' = heldBy => OnlyForgets
  BY DEF OnlyForgets, Shapes
<1>1. ASSUME NEW e \in Calls, Dispatch(e) PROVE HearInductive'
  BY <1>0, <1>1, StillHears DEF Dispatch, requests, callers, retained, Unheard, Shapes
<1>2. ASSUME NEW e \in Calls, Finish(e) PROVE HearInductive'
  BY <1>2, CompleteHears DEF Finish, Active
<1>3. ASSUME NEW e \in Calls, Refuse(e) PROVE HearInductive'
  BY <1>3, CompleteHears DEF Refuse, Active
<1>4. CASE Sweeper
  BY <1>4, PruneForgets, StillHears DEF Sweeper, requests, callers, runs, Unheard
<1>5. CASE Tick
  BY <1>0, <1>5, StillHears DEF Tick, requests, callers, runs, retained, Unheard
<1>6. CASE UNCHANGED vars
  BY <1>0, <1>6, StillHears DEF vars, requests, callers, runs, retained, Unheard
<1>7. QED BY <1>1, <1>2, <1>3, <1>4, <1>5, <1>6, RunHears, DisconnectHears, SendHears DEF Next

\* A caller is handed the outcome of its own request, and never the refusal of an
\* execution that gave up for want of a caller: WaiterGuard, the abandon channel and
\* the replays of run(), for any calls, keys, payloads and bounds.
THEOREM AnswersReachTheirOwn == Spec => []AnswersHeard
<1>1. Init => Shapes /\ OnceInductive /\ HearInductive
  BY InitOnce, InitHear
<1>2. Shapes /\ OnceInductive /\ HearInductive /\ [Next]_vars => (Shapes /\ OnceInductive /\ HearInductive)'
  BY StepShapes, StepOnce, StepHears
<1>3. HearInductive => AnswersHeard
  BY NamesAssumption DEF HearInductive, HandedOwn, AnswersHeard, AnswersOwn, AbandonedUnheard, Own
<1> QED
  BY <1>1, <1>2, <1>3, PTL DEF Spec

-----------------------------------------------------------------------------
(* The slots of the table.                                                 *)

\* What a set of keys or calls grows and shrinks by.
LEMMA Counting ==
    /\ IsFiniteSet(KeyedActive) /\ Cardinality(KeyedActive) \in Nat
    /\ IsFiniteSet(HeldKeys) /\ Cardinality(HeldKeys) \in Nat
    /\ \A S \in SUBSET Keys : IsFiniteSet(S) /\ Cardinality(S) \in Nat
<1>1. \A S \in SUBSET Keys : IsFiniteSet(S) /\ Cardinality(S) \in Nat
  BY NamesAssumption, FS_Subset, FS_CardinalityType
<1>2. IsFiniteSet(KeyedActive) /\ Cardinality(KeyedActive) \in Nat
  <2>1. KeyedActive \subseteq Calls
    BY DEF KeyedActive
  <2>2. QED BY <2>1, NamesAssumption, FS_Subset, FS_CardinalityType
<1>3. HeldKeys \in SUBSET Keys
  BY DEF HeldKeys
<1>4. QED BY <1>1, <1>2, <1>3

\* Steps that accept and complete nothing: they may forget.
LEMMA QuietSlots ==
    ASSUME Shapes, SlotsExact, OnlyForgets, UNCHANGED <<key, exec, reserved>>
    PROVE  SlotsExact'
<1>1. KeyedActive' = KeyedActive
  BY DEF KeyedActive
<1>2. HeldKeys' \subseteq HeldKeys /\ HeldKeys' \in SUBSET Keys
  BY DEF HeldKeys, OnlyForgets
<1>3. Cardinality(HeldKeys') <= Cardinality(HeldKeys) /\ Cardinality(HeldKeys') \in Nat
  BY <1>2, Counting, FS_Subset
<1>4. MaxEntries \in Nat /\ Cardinality(HeldKeys) \in Nat /\ Cardinality(KeyedActive) \in Nat
  BY LimitsAssumption, Counting
<1>5. Cardinality(HeldKeys)' = Cardinality(HeldKeys') /\ Cardinality(KeyedActive)' = Cardinality(KeyedActive)
  BY <1>1
<1>6. Cardinality(HeldKeys') + reserved <= MaxEntries
  BY <1>3, <1>4 DEF SlotsExact
<1>7. QED BY <1>5, <1>6 DEF SlotsExact

\* An execution is accepted into a slot that is free.
LEMMA BeginSlots ==
    ASSUME Shapes, OnceInductive, HearInductive, SlotsExact, NEW c \in Calls, Run(c)
    PROVE  SlotsExact'
<1>1. OnlyForgets /\ key' = key /\ pc[c] = "idle" /\ Kept = held'
  BY PruneForgets DEF Run, requests, Prune
<1>2. CASE UNCHANGED <<exec, reserved>>
  BY <1>1, <1>2, QuietSlots
<1>3. CASE key[c] = None /\ exec' = [exec EXCEPT ![c] = "parked"] /\ reserved' = reserved
  <2>1. KeyedActive' = KeyedActive
    BY <1>1, <1>3 DEF KeyedActive, Shapes
  <2>2. HeldKeys' \subseteq HeldKeys /\ HeldKeys' \in SUBSET Keys
    BY <1>1 DEF HeldKeys, OnlyForgets
  <2>3. Cardinality(HeldKeys') <= Cardinality(HeldKeys) /\ Cardinality(HeldKeys') \in Nat
    BY <2>2, Counting, FS_Subset
  <2>4. MaxEntries \in Nat /\ Cardinality(HeldKeys) \in Nat /\ Cardinality(KeyedActive) \in Nat
    BY LimitsAssumption, Counting
  <2>5. Cardinality(HeldKeys') + reserved <= MaxEntries
    BY <2>3, <2>4 DEF SlotsExact
  <2>6. QED BY <1>3, <2>1, <2>5 DEF SlotsExact
<1>4. CASE key[c] # None /\ ~Full /\ exec' = [exec EXCEPT ![c] = "parked"] /\ reserved' = reserved + 1
  <2>1. c \notin KeyedActive
    BY <1>1 DEF KeyedActive, HearInductive, NobodyLeft, Active
  <2>2. KeyedActive' = KeyedActive \cup {c}
    BY <1>1, <1>4 DEF KeyedActive, Shapes, Active
  <2>3. Cardinality(KeyedActive') = Cardinality(KeyedActive) + 1
    BY <2>1, <2>2, Counting, FS_AddElement
  <2>4. HeldKeys' = {k \in Keys : Kept[k] # "none"} /\ HeldKeys' \in SUBSET Keys
    BY <1>1 DEF HeldKeys
  <2>5. ~(Cardinality(HeldKeys') + reserved >= MaxEntries)
    BY <1>4, <2>4 DEF Full
  <2>6. MaxEntries \in Nat /\ Cardinality(HeldKeys') \in Nat /\ Cardinality(KeyedActive) \in Nat
    BY <2>4, LimitsAssumption, Counting
  <2>7. Cardinality(HeldKeys') + reserved' <= MaxEntries /\ reserved' = Cardinality(KeyedActive')
    BY <1>4, <2>3, <2>5, <2>6 DEF SlotsExact
  <2>8. QED BY <2>7 DEF SlotsExact
<1>5. \A r, e : Reply(c, r, e) => UNCHANGED <<exec, reserved>>
  BY DEF Reply, runs
<1>6. CASE Replay(c) \/ Join(c)
  BY <1>2, <1>5, <1>6 DEF Replay, Join
<1>7. CASE Begin(c)
  BY <1>2, <1>3, <1>4, <1>5, <1>7 DEF Begin
<1>8. QED BY <1>6, <1>7 DEF Run

\* A completion gives its reservation back, and takes one slot at most.
LEMMA CompleteSlots ==
    ASSUME Shapes, SlotsExact, NEW e \in Calls, NEW r, NEW n, Complete(e, r, n), exec[e] \in Active
    PROVE  SlotsExact'
<1>1. key' = key /\ exec' = [exec EXCEPT ![e] = "ended"]
  BY DEF Complete, requests
<1>2. MaxEntries \in Nat /\ Cardinality(HeldKeys) \in Nat /\ Cardinality(KeyedActive) \in Nat
  BY LimitsAssumption, Counting
<1>3. CASE key[e] = None
  <2>1. reserved' = reserved /\ held' = held
    BY <1>3 DEF Complete, retained
  <2>2. KeyedActive' = KeyedActive /\ HeldKeys' = HeldKeys
    BY <1>1, <1>3, <2>1 DEF KeyedActive, HeldKeys, Shapes
  <2>3. QED BY <2>1, <2>2 DEF SlotsExact
<1>4. CASE key[e] # None
  <2>1. e \in KeyedActive
    BY <1>4 DEF KeyedActive
  <2>2. KeyedActive' = KeyedActive \ {e}
    BY <1>1, <1>4 DEF KeyedActive, Shapes, Active
  <2>3. Cardinality(KeyedActive') = Cardinality(KeyedActive) - 1
    BY <2>1, <2>2, Counting, FS_RemoveElement
  <2>4. Cardinality(KeyedActive) # 0
    <3>1. SUFFICES ASSUME Cardinality(KeyedActive) = 0 PROVE FALSE
      OBVIOUS
    <3>2. KeyedActive = {}
      BY <3>1, Counting, FS_EmptySet
    <3>3. QED BY <2>1, <3>2
  <2>5. reserved' = Cardinality(KeyedActive) - 1
    BY <1>2, <1>4, <2>4 DEF Complete, Released, Monus, SlotsExact
  <2>6. HeldKeys' \subseteq HeldKeys \cup {key[e]} /\ key[e] \in Keys
    <3>1. key[e] \in Keys
      BY <1>4 DEF Shapes
    <3>2. CASE ~Retryable(r)
      <4>1. Remembers(key[e], e)
        BY <1>4, <3>1, <3>2, RetainRemembers DEF Complete
      <4>2. QED BY <3>1, <4>1 DEF Remembers, HeldKeys
    <3>3. CASE Retryable(r)
      <4>1. held' = held
        BY <3>3 DEF Complete, retained
      <4>2. QED BY <3>1, <4>1 DEF HeldKeys
    <3>4. QED BY <3>2, <3>3
  <2>7. IsFiniteSet(HeldKeys \cup {key[e]}) /\ Cardinality(HeldKeys \cup {key[e]}) <= Cardinality(HeldKeys) + 1
    BY <1>2, Counting, FS_AddElement
  <2>8. Cardinality(HeldKeys') <= Cardinality(HeldKeys \cup {key[e]}) /\ Cardinality(HeldKeys \cup {key[e]}) \in Nat
        /\ Cardinality(HeldKeys') \in Nat
    BY <2>6, <2>7, FS_Subset, FS_CardinalityType
  <2>9. Cardinality(HeldKeys') + reserved' <= MaxEntries
    BY <1>2, <2>5, <2>7, <2>8 DEF SlotsExact
  <2>10. QED BY <2>3, <2>5, <2>9 DEF SlotsExact
<1>5. QED BY <1>3, <1>4

\* The fail-closed boundary, for every bound of the table: the reservations are the
\* keyed executions in flight, and with the keys remembered they never exceed the
\* entries there are, so that a completion always finds the slot it was promised
\* (reserve_retention_slot, retain_completed_outcome).
THEOREM SlotsHold == Spec => []SlotsExact
<1> DEFINE SInv == Shapes /\ OnceInductive /\ HearInductive /\ SlotsExact
<1>1. Init => SInv
  <2>1. SUFFICES ASSUME Init PROVE SlotsExact
    BY InitOnce, InitHear
  <2>2. KeyedActive = {} /\ HeldKeys = {}
    BY <2>1 DEF Init, KeyedActive, HeldKeys, Active
  <2>3. QED BY <2>1, <2>2, LimitsAssumption, FS_EmptySet DEF Init, SlotsExact
<1>2. SInv /\ [Next]_vars => SlotsExact'
  <2> SUFFICES ASSUME SInv, [Next]_vars PROVE SlotsExact'
    OBVIOUS
  <2>0. held' = held /\ heldBy' = heldBy => OnlyForgets
    BY DEF OnlyForgets, Shapes
  <2>1. ASSUME NEW e \in Calls, Dispatch(e) PROVE SlotsExact'
    <3>1. /\ exec[e] = "parked" /\ exec' = [exec EXCEPT ![e] = "upstream"]
          /\ UNCHANGED <<key, reserved, held>>
      BY <2>1 DEF Dispatch, requests, retained
    <3>2. KeyedActive' = KeyedActive /\ HeldKeys' = HeldKeys
      BY <3>1 DEF KeyedActive, HeldKeys, Shapes, Active
    <3>3. QED BY <3>1, <3>2 DEF SlotsExact
  <2>2. ASSUME NEW e \in Calls, Finish(e) \/ Refuse(e) PROVE SlotsExact'
    BY <2>2, CompleteSlots DEF Finish, Refuse, Active
  <2>3. ASSUME NEW c \in Calls, Disconnect(c) PROVE SlotsExact'
    BY <2>0, <2>3, QuietSlots DEF Disconnect, requests, retained
  <2>4. ASSUME NEW e \in Calls, NEW c \in Calls, Send(e, c) PROVE SlotsExact'
    BY <2>0, <2>4, QuietSlots DEF Send, requests, retained
  <2>5. CASE Sweeper \/ Tick \/ UNCHANGED vars
    BY <2>0, <2>5, PruneForgets, QuietSlots DEF Sweeper, Tick, vars, requests, runs, retained
  <2>6. QED BY <2>1, <2>2, <2>3, <2>4, <2>5, BeginSlots DEF Next
<1>3. SInv /\ [Next]_vars => SInv'
  BY <1>2, StepShapes, StepOnce, StepHears
<1> QED
  BY <1>1, <1>3, PTL DEF Spec

-----------------------------------------------------------------------------
(* Sums over finite sets.                                                 *)

\* One of a set, and what g says the sum over s is.
OneOf(s) == CHOOSE x \in s : TRUE
SumsUp(len, S, g) ==
    g = [s \in SUBSET S |-> IF s = {} THEN 0 ELSE len[OneOf(s)] + g[s \ {OneOf(s)}]]

\* The fold is such a function's value.
LEMMA SumChosen ==
    ASSUME NEW len, NEW S
    PROVE  SumFunctionOnSet(len, S) = (CHOOSE g : SumsUp(len, S, g))[S]
BY DEF SumFunctionOnSet, FoldFunctionOnSet, MapThenFoldSet, SumsUp, OneOf

\* A family of subsets of a finite set has a member of which no proper part is in it.
LEMMA LeastSubset ==
    ASSUME NEW S, IsFiniteSet(S), NEW F \in SUBSET (SUBSET S), F # {}
    PROVE  \E u \in F : \A v \in F : v \subseteq u => v = u
<1>1. IsWellFoundedOn(StrictSubsetOrdering(S), FiniteSubsetsOf(S))
  BY FS_StrictSubsetOrderingWellFounded
<1>2. F \subseteq FiniteSubsetsOf(S)
  BY FS_Subset DEF FiniteSubsetsOf
<1>3. \E u \in F : \A v \in F : ~(<<v, u>> \in StrictSubsetOrdering(S))
  BY <1>1, <1>2, WFMin
<1>4. PICK u \in F : \A v \in F : ~(<<v, u>> \in StrictSubsetOrdering(S))
  BY <1>3
<1>5. ASSUME NEW v \in F, v \subseteq u PROVE v = u
  <2>1. v \in SUBSET S /\ u \in SUBSET S
    OBVIOUS
  <2>2. QED BY <1>4, <1>5, <2>1 DEF StrictSubsetOrdering
<1>6. QED BY <1>5

\* Any two agree where both are defined.
LEMMA SumsAgree ==
    ASSUME NEW len, NEW S, NEW T, NEW g, NEW h, IsFiniteSet(S),
           SumsUp(len, S, g), SumsUp(len, T, h)
    PROVE  \A u \in SUBSET S : u \in SUBSET T => g[u] = h[u]
<1> DEFINE Bad == {u \in SUBSET S : u \in SUBSET T /\ g[u] # h[u]}
<1>1. SUFFICES ASSUME Bad # {} PROVE FALSE
  OBVIOUS
<1>2. Bad \in SUBSET (SUBSET S)
  OBVIOUS
<1> HIDE DEF Bad
<1>3. PICK u \in Bad : \A v \in Bad : v \subseteq u => v = u
  BY <1>1, <1>2, LeastSubset
<1>4. u \in SUBSET S /\ u \in SUBSET T /\ g[u] # h[u]
  BY <1>3 DEF Bad
<1>5. CASE u = {}
  BY <1>4, <1>5 DEF SumsUp
<1>6. CASE u # {}
  <2> DEFINE c == OneOf(u)
             v == u \ {c}
  <2>1. c \in u
    BY <1>6 DEF OneOf
  <2>2. g[u] = len[c] + g[v] /\ h[u] = len[c] + h[v]
    BY <1>4, <1>6 DEF SumsUp
  <2>3. v \subseteq u /\ v # u /\ v \in SUBSET S /\ v \in SUBSET T
    BY <1>4, <2>1
  <2>4. v \notin Bad
    BY <1>3, <2>3
  <2>5. g[v] = h[v]
    BY <2>3, <2>4 DEF Bad
  <2>6. QED BY <1>4, <2>2, <2>5
<1>7. QED BY <1>5, <1>6

\* For a finite set there is one.
LEMMA SumsExist ==
    ASSUME NEW len, NEW S, IsFiniteSet(S)
    PROVE  \E g : SumsUp(len, S, g)
<1> DEFINE Bad == {u \in SUBSET S : ~ \E g : SumsUp(len, u, g)}
<1>1. SUFFICES ASSUME Bad # {} PROVE FALSE
  OBVIOUS
<1>2. Bad \in SUBSET (SUBSET S)
  OBVIOUS
<1> HIDE DEF Bad
<1>3. PICK T \in Bad : \A v \in Bad : v \subseteq T => v = T
  BY <1>1, <1>2, LeastSubset
<1>4. T \in SUBSET S /\ ~ \E g : SumsUp(len, T, g)
  BY <1>3 DEF Bad
<1>5. IsFiniteSet(T)
  BY <1>4, FS_Subset
<1>6. ASSUME NEW v \in SUBSET T, v # T
      PROVE  SumsUp(len, v, CHOOSE g : SumsUp(len, v, g)) /\ IsFiniteSet(v)
  <2>1. v \notin Bad /\ v \in SUBSET S
    BY <1>3, <1>4, <1>6
  <2>2. \E g : SumsUp(len, v, g)
    BY <2>1 DEF Bad
  <2>3. QED BY <1>5, <2>2, FS_Subset
<1> DEFINE c == OneOf(T)
           h == [s \in SUBSET T |->
                   IF s # T THEN SumFunctionOnSet(len, s)
                   ELSE IF T = {} THEN 0 ELSE len[c] + SumFunctionOnSet(len, T \ {c})]
<1>7. ASSUME NEW s \in SUBSET T
      PROVE  h[s] = IF s = {} THEN 0 ELSE len[OneOf(s)] + h[s \ {OneOf(s)}]
  <2>1. CASE s = T
    <3>1. CASE T = {}
      BY <2>1, <3>1
    <3>2. CASE T # {}
      <4>1. c \in T
        BY <3>2 DEF OneOf
      <4>2. T \ {c} \in SUBSET T /\ T \ {c} # T
        BY <4>1
      <4>3. h[T \ {c}] = SumFunctionOnSet(len, T \ {c})
        BY <4>2
      <4>4. h[T] = len[c] + SumFunctionOnSet(len, T \ {c})
        BY <3>2
      <4>5. QED BY <2>1, <3>2, <4>3, <4>4
    <3>3. QED BY <3>1, <3>2
  <2>2. CASE s # T
    <3> DEFINE gs == CHOOSE g : SumsUp(len, s, g)
    <3>1. SumsUp(len, s, gs) /\ IsFiniteSet(s)
      BY <1>6, <2>2
    <3>2. h[s] = gs[s]
      BY <2>2, SumChosen
    <3>3. CASE s = {}
      BY <3>1, <3>2, <3>3 DEF SumsUp
    <3>4. CASE s # {}
      <4> DEFINE d == OneOf(s)
                 v == s \ {d}
                 gv == CHOOSE g : SumsUp(len, v, g)
      <4>1. d \in s
        BY <3>4 DEF OneOf
      <4>2. v \in SUBSET s /\ v \in SUBSET T /\ v # T /\ s \in SUBSET s /\ v \in SUBSET v
        BY <2>2, <4>1
      <4>3. SumsUp(len, v, gv) /\ IsFiniteSet(v)
        BY <1>6, <4>2
      <4>4. h[v] = gv[v]
        BY <4>2, SumChosen
      <4> HIDE DEF gs, gv, h
      <4>5. gs[s] = len[d] + gs[v]
        BY <3>1, <3>4, <4>2 DEF SumsUp
      <4>6. gv[v] = gs[v]
        BY <3>1, <4>2, <4>3, SumsAgree
      <4>7. QED BY <3>2, <3>4, <4>4, <4>5, <4>6
    <3>5. QED BY <3>3, <3>4
  <2>3. QED BY <2>1, <2>2
<1>8. h = [s \in SUBSET T |-> IF s = {} THEN 0 ELSE len[OneOf(s)] + h[s \ {OneOf(s)}]]
  <2>1. h = [s \in SUBSET T |-> h[s]]
    OBVIOUS
  <2> HIDE DEF h
  <2>2. QED BY <1>7, <2>1
<1>9. SumsUp(len, T, h)
  BY <1>8 DEF SumsUp
<1>10. QED BY <1>4, <1>9

\* The sum of nothing, and of one and the rest.
LEMMA SumStep ==
    ASSUME NEW len, NEW S, IsFiniteSet(S)
    PROVE  /\ S = {} => SumFunctionOnSet(len, S) = 0
           /\ S # {} => /\ OneOf(S) \in S
                        /\ SumFunctionOnSet(len, S) = len[OneOf(S)] + SumFunctionOnSet(len, S \ {OneOf(S)})
<1> DEFINE g == CHOOSE f : SumsUp(len, S, f)
<1>1. SumsUp(len, S, g)
  BY SumsExist
<1>2. SumFunctionOnSet(len, S) = g[S]
  BY SumChosen
<1>3. S \in SUBSET S
  OBVIOUS
<1> HIDE DEF g
<1>4. CASE S = {}
  BY <1>1, <1>2, <1>3, <1>4 DEF SumsUp
<1>5. CASE S # {}
  <2> DEFINE c == OneOf(S)
             v == S \ {c}
             h == CHOOSE f : SumsUp(len, v, f)
  <2>1. c \in S /\ v \in SUBSET S /\ v \in SUBSET v
    BY <1>5 DEF OneOf
  <2>2. IsFiniteSet(v)
    BY <2>1, FS_Subset
  <2>3. SumsUp(len, v, h)
    BY <2>2, SumsExist
  <2>4. SumFunctionOnSet(len, v) = h[v]
    BY SumChosen
  <2> HIDE DEF h
  <2>5. g[v] = h[v]
    BY <1>1, <2>1, <2>3, SumsAgree
  <2>6. g[S] = len[c] + g[v]
    BY <1>1, <1>3, <1>5 DEF SumsUp
  <2>7. QED BY <1>2, <1>5, <2>1, <2>4, <2>5, <2>6
<1>6. QED BY <1>4, <1>5

\* Whichever is taken out, the sum is its own and that of the rest; sums are numbers.
LEMMA SumTake ==
    ASSUME NEW len, NEW S, IsFiniteSet(S), \A x \in S : len[x] \in Nat
    PROVE  \A u \in SUBSET S :
               /\ SumFunctionOnSet(len, u) \in Nat
               /\ \A x \in u : SumFunctionOnSet(len, u) = len[x] + SumFunctionOnSet(len, u \ {x})
<1> DEFINE Good(u) == /\ SumFunctionOnSet(len, u) \in Nat
                      /\ \A x \in u : SumFunctionOnSet(len, u) = len[x] + SumFunctionOnSet(len, u \ {x})
           Bad == {u \in SUBSET S : ~Good(u)}
<1>1. SUFFICES ASSUME Bad # {} PROVE FALSE
  OBVIOUS
<1>2. Bad \in SUBSET (SUBSET S)
  OBVIOUS
<1> HIDE DEF Bad
<1>3. PICK u \in Bad : \A v \in Bad : v \subseteq u => v = u
  BY <1>1, <1>2, LeastSubset
<1>4. u \in SUBSET S /\ ~Good(u)
  BY <1>3 DEF Bad
<1>5. IsFiniteSet(u)
  BY <1>4, FS_Subset
<1>6. ASSUME NEW v \in SUBSET u, v # u PROVE Good(v)
  <2>1. v \notin Bad /\ v \in SUBSET S
    BY <1>3, <1>4, <1>6
  <2>2. QED BY <2>1 DEF Bad
<1>7. CASE u = {}
  <2>1. SumFunctionOnSet(len, u) = 0
    BY <1>5, <1>7, SumStep
  <2>2. Good(u)
    BY <1>7, <2>1
  <2>3. QED BY <1>4, <2>2
<1>8. CASE u # {}
  <2> DEFINE c == OneOf(u)
  <2>1. c \in u /\ SumFunctionOnSet(len, u) = len[c] + SumFunctionOnSet(len, u \ {c})
    BY <1>5, <1>8, SumStep
  <2> HIDE DEF c
  <2>2. u \ {c} \in SUBSET u /\ u \ {c} # u
    BY <2>1
  <2>3. Good(u \ {c})
    BY <1>6, <2>2
  <2>4. len[c] \in Nat
    BY <1>4, <2>1
  <2>5. SumFunctionOnSet(len, u) \in Nat
    BY <2>1, <2>3, <2>4
  <2>6. ASSUME NEW x \in u, x # c PROVE SumFunctionOnSet(len, u) = len[x] + SumFunctionOnSet(len, u \ {x})
    <3>1. SumFunctionOnSet(len, u \ {c}) = len[x] + SumFunctionOnSet(len, (u \ {c}) \ {x})
      BY <2>3, <2>6
    <3>2. u \ {x} \in SUBSET u /\ u \ {x} # u /\ c \in u \ {x}
      BY <2>1, <2>6
    <3>3. SumFunctionOnSet(len, u \ {x}) = len[c] + SumFunctionOnSet(len, (u \ {x}) \ {c})
      BY <1>6, <3>2
    <3>4. (u \ {c}) \ {x} = (u \ {x}) \ {c}
      OBVIOUS
    <3>5. (u \ {x}) \ {c} \in SUBSET u /\ (u \ {x}) \ {c} # u
      BY <2>1
    <3>6. SumFunctionOnSet(len, (u \ {x}) \ {c}) \in Nat
      BY <1>6, <3>5
    <3>8. len[x] \in Nat
      BY <1>4, <2>6
    <3>9. SumFunctionOnSet(len, (u \ {c}) \ {x}) = SumFunctionOnSet(len, (u \ {x}) \ {c})
      BY <3>4, Zenon
    <3> DEFINE t == SumFunctionOnSet(len, (u \ {x}) \ {c})
               tx == SumFunctionOnSet(len, u \ {x})
               tc == SumFunctionOnSet(len, u \ {c})
    <3>10. t \in Nat /\ tc = len[x] + t /\ tx = len[c] + t /\ SumFunctionOnSet(len, u) = len[c] + tc
      BY ONLY <2>1, <3>1, <3>3, <3>6, <3>9
    <3> HIDE DEF t, tx, tc
    <3>11. SumFunctionOnSet(len, u) = len[x] + tx
      BY ONLY <2>4, <3>8, <3>10
    <3>7. QED BY <3>11 DEF tx
  <2>7. Good(u)
    BY <2>1, <2>5, <2>6
  <2>8. QED BY <1>4, <2>7
<1>9. QED BY <1>7, <1>8

\* Equal lengths give equal sums.
LEMMA SumCong ==
    ASSUME NEW len, NEW len2, NEW S, IsFiniteSet(S), \A x \in S : len[x] = len2[x]
    PROVE  SumFunctionOnSet(len, S) = SumFunctionOnSet(len2, S)
<1> DEFINE Bad == {u \in SUBSET S : SumFunctionOnSet(len, u) # SumFunctionOnSet(len2, u)}
<1>1. SUFFICES ASSUME Bad # {} PROVE FALSE
  OBVIOUS
<1>2. Bad \in SUBSET (SUBSET S)
  OBVIOUS
<1> HIDE DEF Bad
<1>3. PICK u \in Bad : \A v \in Bad : v \subseteq u => v = u
  BY <1>1, <1>2, LeastSubset
<1>4. u \in SUBSET S /\ SumFunctionOnSet(len, u) # SumFunctionOnSet(len2, u) /\ IsFiniteSet(u)
  BY <1>3, FS_Subset DEF Bad
<1>5. CASE u = {}
  BY <1>4, <1>5, SumStep
<1>6. CASE u # {}
  <2> DEFINE c == OneOf(u)
             v == u \ {c}
  <2>1. c \in u /\ SumFunctionOnSet(len, u) = len[c] + SumFunctionOnSet(len, v) /\ SumFunctionOnSet(len2, u) = len2[c] + SumFunctionOnSet(len2, v)
    BY <1>4, <1>6, SumStep
  <2> HIDE DEF c
  <2>2. v \notin Bad /\ v \in SUBSET S
    BY <1>3, <1>4, <2>1
  <2>3. SumFunctionOnSet(len, v) = SumFunctionOnSet(len2, v)
    BY <2>2 DEF Bad
  <2>4. len[c] = len2[c]
    BY <1>4, <2>1
  <2>5. QED BY <1>4, <2>1, <2>3, <2>4
<1>7. QED BY <1>5, <1>6

\* A sum is that of a part and that of the rest.
LEMMA SumSplit ==
    ASSUME NEW len, NEW S, IsFiniteSet(S), \A x \in S : len[x] \in Nat, NEW T \in SUBSET S
    PROVE  /\ SumFunctionOnSet(len, T) \in Nat /\ SumFunctionOnSet(len, S \ T) \in Nat
           /\ SumFunctionOnSet(len, S) = SumFunctionOnSet(len, T) + SumFunctionOnSet(len, S \ T)
<1> DEFINE Bad == {u \in SUBSET T : SumFunctionOnSet(len, (S \ T) \cup u) # SumFunctionOnSet(len, u) + SumFunctionOnSet(len, S \ T)}
<1>0. SumFunctionOnSet(len, T) \in Nat /\ SumFunctionOnSet(len, S \ T) \in Nat
  <2>1. T \in SUBSET S /\ S \ T \in SUBSET S
    OBVIOUS
  <2>2. QED BY <2>1, SumTake
<1>1. SUFFICES ASSUME Bad # {} PROVE FALSE
  <2>1. T \in SUBSET T /\ (S \ T) \cup T = S
    OBVIOUS
  <2>2. ASSUME Bad = {} PROVE SumFunctionOnSet(len, (S \ T) \cup T) = SumFunctionOnSet(len, T) + SumFunctionOnSet(len, S \ T)
    BY <2>1, <2>2
  <2>3. QED BY <1>0, <2>1, <2>2
<1>2. Bad \in SUBSET (SUBSET T) /\ IsFiniteSet(T)
  BY FS_Subset
<1> HIDE DEF Bad
<1>3. PICK u \in Bad : \A v \in Bad : v \subseteq u => v = u
  BY <1>1, <1>2, LeastSubset
<1>4. u \in SUBSET T /\ SumFunctionOnSet(len, (S \ T) \cup u) # SumFunctionOnSet(len, u) + SumFunctionOnSet(len, S \ T)
  BY <1>3 DEF Bad
<1>5. CASE u = {}
  <2>1. SumFunctionOnSet(len, u) = 0
    BY <1>5, FS_EmptySet, SumStep
  <2>2. (S \ T) \cup u = S \ T
    BY <1>4, <1>5
  <2>3. SumFunctionOnSet(len, (S \ T) \cup u) = SumFunctionOnSet(len, S \ T)
    BY <2>2, Zenon
  <2>4. QED BY <1>0, <1>4, <2>1, <2>3
<1>6. CASE u # {}
  <2>1. PICK c \in u : TRUE
    BY <1>6
  <2> DEFINE v == u \ {c}
             w == (S \ T) \cup u
  <2>2. u \in SUBSET S /\ w \in SUBSET S /\ c \in w /\ v \in SUBSET S
    BY <1>4
  <2>3. SumFunctionOnSet(len, u) = len[c] + SumFunctionOnSet(len, v) /\ SumFunctionOnSet(len, w) = len[c] + SumFunctionOnSet(len, w \ {c})
    BY <2>2, SumTake
  <2>4. w \ {c} = (S \ T) \cup v
    BY <1>4, <2>1
  <2>5. v \notin Bad /\ v \in SUBSET T
    BY <1>3, <1>4, <2>1
  <2>6. SumFunctionOnSet(len, (S \ T) \cup v) = SumFunctionOnSet(len, v) + SumFunctionOnSet(len, S \ T)
    BY <2>5 DEF Bad
  <2>7. len[c] \in Nat
    BY <2>2
  <2>8. SumFunctionOnSet(len, v) \in Nat
    BY <2>2, SumTake
  <2>9. SumFunctionOnSet(len, w) = len[c] + (SumFunctionOnSet(len, v) + SumFunctionOnSet(len, S \ T))
    BY <2>3, <2>4, <2>6
  <2> HIDE DEF v, w
  <2>10. SumFunctionOnSet(len, w) = SumFunctionOnSet(len, u) + SumFunctionOnSet(len, S \ T)
    BY <1>0, <2>3, <2>7, <2>8, <2>9
  <2>11. QED BY <1>4, <2>10 DEF w
<1>7. QED BY <1>5, <1>6

\* One of them and the rest.
LEMMA SumOne ==
    ASSUME NEW len, NEW S, IsFiniteSet(S), \A y \in S : len[y] \in Nat, NEW x \in S
    PROVE  SumFunctionOnSet(len, S) = len[x] + SumFunctionOnSet(len, S \ {x})
<1>1. \A u \in SUBSET S :
          /\ SumFunctionOnSet(len, u) \in Nat
          /\ \A y \in u : SumFunctionOnSet(len, u) = len[y] + SumFunctionOnSet(len, u \ {y})
  BY SumTake
<1>2. S \in SUBSET S
  OBVIOUS
<1>3. QED BY <1>1, <1>2

\* Where nothing has a length the sum is nothing.
LEMMA SumZero ==
    ASSUME NEW len, NEW S, IsFiniteSet(S), \A x \in S : len[x] = 0
    PROVE  SumFunctionOnSet(len, S) = 0
<1> DEFINE Bad == {u \in SUBSET S : SumFunctionOnSet(len, u) # 0}
<1>1. SUFFICES ASSUME Bad # {} PROVE FALSE
  OBVIOUS
<1>2. Bad \in SUBSET (SUBSET S)
  OBVIOUS
<1> HIDE DEF Bad
<1>3. PICK u \in Bad : \A v \in Bad : v \subseteq u => v = u
  BY <1>1, <1>2, LeastSubset
<1>4. u \in SUBSET S /\ SumFunctionOnSet(len, u) # 0 /\ IsFiniteSet(u)
  BY <1>3, FS_Subset DEF Bad
<1>5. CASE u = {}
  BY <1>4, <1>5, SumStep
<1>6. CASE u # {}
  <2> DEFINE c == OneOf(u)
             v == u \ {c}
  <2>1. c \in u /\ SumFunctionOnSet(len, u) = len[c] + SumFunctionOnSet(len, v)
    BY <1>4, <1>6, SumStep
  <2> HIDE DEF c
  <2>2. v \notin Bad /\ v \in SUBSET S
    BY <1>3, <1>4, <2>1
  <2>3. SumFunctionOnSet(len, v) = 0
    BY <2>2 DEF Bad
  <2>4. len[c] = 0
    BY <1>4, <2>1
  <2>5. QED BY <1>4, <2>1, <2>3, <2>4
<1>7. QED BY <1>5, <1>6

-----------------------------------------------------------------------------
(* The byte count and the queues.                                          *)

\* A queue names each element of S once.
Lines(q, S) ==
    /\ q \in Seq(Keys)
    /\ \A i, j \in 1 .. Len(q) : q[i] = q[j] => i = j
    /\ \A i \in 1 .. Len(q) : q[i] \in S
    /\ \A k \in S : \E i \in 1 .. Len(q) : q[i] = k

\* Such a queue is as long as what it names.
LEMMA LinesCount ==
    ASSUME NEW q, NEW S, Lines(q, S)
    PROVE  Len(q) = Cardinality(S) /\ {q[i] : i \in 1 .. Len(q)} = S
<1>1. Len(q) \in Nat /\ q \in [1 .. Len(q) -> Keys]
  BY LenProperties DEF Lines
<1>2. q \in [1 .. Len(q) -> S]
  BY <1>1 DEF Lines
<1>3. q \in Bijection(1 .. Len(q), S)
  BY <1>2 DEF Lines, Bijection, Injection, Surjection, IsInjective
<1>4. IsFiniteSet(1 .. Len(q)) /\ Cardinality(1 .. Len(q)) = Len(q)
  BY <1>1, FS_Interval
<1>5. ExistsBijection(1 .. Len(q), S)
  BY <1>3 DEF ExistsBijection
<1>6. Cardinality(S) = Len(q)
  BY <1>4, <1>5, FS_Bijection
<1>7. {q[i] : i \in 1 .. Len(q)} = S
  BY DEF Lines
<1>8. QED BY <1>6, <1>7

\* One more comes last.
LEMMA LinesAppend ==
    ASSUME NEW q, NEW S, Lines(q, S), NEW k \in Keys, k \notin S
    PROVE  Lines(Append(q, k), S \cup {k})
<1>1. /\ Append(q, k) \in Seq(Keys) /\ Len(Append(q, k)) = Len(q) + 1 /\ Len(q) \in Nat
      /\ \A i \in 1 .. Len(q) : Append(q, k)[i] = q[i]
      /\ Append(q, k)[Len(q) + 1] = k
  BY AppendProperties, LenProperties DEF Lines
<1>2. QED BY <1>1 DEF Lines

\* The first m leave.
LEMMA LinesDrop ==
    ASSUME NEW q, NEW S, Lines(q, S), NEW m \in 0 .. Len(q)
    PROVE  Lines(SubSeq(q, m + 1, Len(q)), S \ {q[i] : i \in 1 .. m})
<1> DEFINE r == SubSeq(q, m + 1, Len(q))
           R == S \ {q[i] : i \in 1 .. m}
<1>1. Len(q) \in Nat /\ m \in Nat /\ m <= Len(q) /\ \A i \in 1 .. Len(q) : q[i] \in Keys
  BY LenProperties, ElementOfSeq DEF Lines
<1>2. m + 1 \in Int /\ Len(q) \in Int /\ \A i \in m + 1 .. Len(q) : q[i] \in Keys
  BY <1>1
<1>3. /\ r \in Seq(Keys) /\ Len(r) = IF m + 1 <= Len(q) THEN Len(q) - (m + 1) + 1 ELSE 0
      /\ \A i \in 1 .. Len(q) - (m + 1) + 1 : r[i] = q[(m + 1) + i - 1]
  BY <1>2, SubSeqProperties
<1>4. Len(r) = Len(q) - m /\ \A i \in 1 .. Len(q) - m : r[i] = q[m + i]
  <2>1. Len(r) = Len(q) - m /\ Len(q) - (m + 1) + 1 = Len(q) - m
    BY <1>1, <1>3
  <2>2. ASSUME NEW i \in 1 .. Len(q) - m PROVE r[i] = q[m + i]
    <3>1. (m + 1) + i - 1 = m + i
      BY <1>1
    <3>2. QED BY <1>3, <2>1, <3>1
  <2>3. QED BY <2>1, <2>2
<1> HIDE DEF r
<1>5. ASSUME NEW i \in 1 .. Len(r), NEW j \in 1 .. Len(r), r[i] = r[j] PROVE i = j
  <2>1. m + i \in 1 .. Len(q) /\ m + j \in 1 .. Len(q) /\ q[m + i] = q[m + j]
    BY <1>1, <1>4, <1>5
  <2>2. m + i = m + j
    BY <2>1 DEF Lines
  <2>3. QED BY <1>1, <2>2
<1>6. ASSUME NEW i \in 1 .. Len(r) PROVE r[i] \in R
  <2>1. m + i \in 1 .. Len(q) /\ r[i] = q[m + i]
    BY <1>1, <1>4
  <2>2. ASSUME NEW j \in 1 .. m, q[m + i] = q[j] PROVE FALSE
    <3>1. j \in 1 .. Len(q)
      BY <1>1
    <3>2. m + i = j
      BY <2>1, <2>2, <3>1 DEF Lines
    <3>3. QED BY <1>1, <3>2
  <2>3. QED BY <2>1, <2>2 DEF Lines
<1>7. ASSUME NEW k \in R PROVE \E i \in 1 .. Len(r) : r[i] = k
  <2>1. PICK j \in 1 .. Len(q) : q[j] = k
    BY DEF Lines
  <2>2. j \notin 1 .. m
    BY <2>1
  <2>3. j - m \in 1 .. Len(r) /\ m + (j - m) = j
    BY <1>1, <1>4, <2>2
  <2>4. r[j - m] = k
    BY <1>4, <2>1, <2>3
  <2>5. QED BY <2>3, <2>4
<1>8. Lines(r, R)
  BY <1>3, <1>5, <1>6, <1>7 DEF Lines
<1>9. QED BY <1>8 DEF r

\* What is below an element of an interval's closed part fills an interval.
LEMMA PrefixCount ==
    ASSUME NEW n \in Nat, NEW P \in SUBSET (1 .. n),
           \A i \in P : \A j \in 1 .. i : j \in P
    PROVE  P = 1 .. Cardinality(P) /\ Cardinality(P) \in 0 .. n
<1> DEFINE Out == {i \in Nat : i + 1 \notin P}
<1>1. n \in Out
  OBVIOUS
<1>2. IsWellFoundedOn(OpToRel(<, Nat), Nat)
  BY NatLessThanWellFounded
<1>3. \E m \in Out : \A i \in Out : ~(<<i, m>> \in OpToRel(<, Nat))
  <2>1. Out \subseteq Nat /\ Out # {}
    BY <1>1
  <2> HIDE DEF Out
  <2>2. QED BY <1>2, <2>1, WFMin
<1>4. PICK m \in Out : \A i \in Out : ~(<<i, m>> \in OpToRel(<, Nat))
  BY <1>3
<1>5. m \in Nat /\ m + 1 \notin P
  OBVIOUS
<1>6. ASSUME NEW i \in Nat, i < m PROVE i + 1 \in P
  <2>1. <<i, m>> \in OpToRel(<, Nat)
    BY <1>5, <1>6 DEF OpToRel
  <2>2. QED BY <1>4, <2>1
<1>7. ASSUME NEW i \in P PROVE i \in 1 .. m
  <2>1. i \in Nat /\ i >= 1
    OBVIOUS
  <2>2. m + 1 \in 1 .. i => m + 1 \in P
    OBVIOUS
  <2>3. QED BY <1>5, <2>1, <2>2
<1>8. ASSUME NEW i \in 1 .. m PROVE i \in P
  <2>1. i - 1 \in Nat /\ i - 1 < m /\ (i - 1) + 1 = i
    BY <1>5
  <2>2. QED BY <1>6, <2>1
<1>9. P = 1 .. m
  BY <1>7, <1>8
<1>10. Cardinality(P) = m
  <2>1. Cardinality(1 .. m) = IF 1 > m THEN 0 ELSE m - 1 + 1
    BY <1>5, FS_Interval
  <2>2. QED BY <1>5, <1>9, <2>1
<1>11. m <= n
  BY <1>5, <1>9
<1>12. QED BY <1>5, <1>9, <1>10, <1>11

\* A queue without the members of P, as Requeued makes it.
Filtered(q, P) ==
    LET stay == {i \in 1 .. Len(q) : q[i] \notin P}
        place(n) == CHOOSE i \in stay : Cardinality({j \in stay : j <= i}) = n
    IN  [n \in 1 .. Cardinality(stay) |-> q[place(n)]]

\* Those that stay keep their order.
LEMMA LinesFilter ==
    ASSUME NEW q, NEW S, Lines(q, S), NEW P
    PROVE  Lines(Filtered(q, P), S \ P)
<1> DEFINE stay == {i \in 1 .. Len(q) : q[i] \notin P}
           r == Filtered(q, P)
<1>0. /\ stay = {i \in 1 .. Len(q) : q[i] \notin P}
      /\ r = [n \in 1 .. Cardinality(stay) |->
                 q[CHOOSE i \in stay : Cardinality({j \in stay : j <= i}) = n]]
  BY DEF Filtered
<1> HIDE DEF stay, r
<1> DEFINE upto(i) == {j \in stay : j <= i}
           rank == [i \in stay |-> Cardinality(upto(i))]
           place(n) == CHOOSE i \in stay : Cardinality(upto(i)) = n
           N == Cardinality(stay)
<1>1. Len(q) \in Nat /\ \A i \in 1 .. Len(q) : q[i] \in Keys
  BY LenProperties, ElementOfSeq DEF Lines
<1>2. IsFiniteSet(stay) /\ N \in Nat
  <2>1. IsFiniteSet(1 .. Len(q)) /\ stay \in SUBSET (1 .. Len(q))
    BY <1>0, <1>1, FS_Interval
  <2>2. IsFiniteSet(stay)
    BY <2>1, FS_Subset
  <2>3. QED BY <2>2, FS_CardinalityType
<1>3. \A i \in stay : i \in Int
  BY <1>0, <1>1
<1>4. ASSUME NEW i \in stay PROVE rank[i] \in 1 .. N /\ IsFiniteSet(upto(i))
  <2>1. upto(i) \in SUBSET stay /\ i \in upto(i)
    BY <1>3
  <2>2. IsFiniteSet(upto(i)) /\ Cardinality(upto(i)) <= N
    BY <1>2, <2>1, FS_Subset
  <2>3. Cardinality(upto(i)) \in Nat
    BY <2>2, FS_CardinalityType
  <2>4. Cardinality(upto(i)) # 0
    BY <2>1, <2>2, FS_EmptySet
  <2>5. QED BY <1>2, <2>2, <2>3, <2>4
<1>5. ASSUME NEW i \in stay, NEW j \in stay, i < j PROVE rank[i] # rank[j]
  <2>1. upto(i) \in SUBSET upto(j) /\ j \in upto(j) /\ j \notin upto(i)
    BY <1>3, <1>5
  <2>2. IsFiniteSet(upto(j))
    BY <1>4
  <2> HIDE DEF upto
  <2>3. Cardinality(upto(j)) # Cardinality(upto(i))
    BY <2>1, <2>2, FS_Subset
  <2>4. QED BY <2>3
<1>6. rank \in Injection(stay, 1 .. N)
  <2>1. rank \in [stay -> 1 .. N]
    BY <1>4
  <2>2. ASSUME NEW i \in stay, NEW j \in stay, rank[i] = rank[j] PROVE i = j
    <3>1. i \in Int /\ j \in Int
      BY <1>3
    <3>2. ~(i < j) /\ ~(j < i)
      BY <1>5, <2>2
    <3>3. QED BY <3>1, <3>2
  <2> HIDE DEF rank
  <2>3. QED BY <2>1, <2>2 DEF Injection, IsInjective
<1>7. rank \in Surjection(stay, 1 .. N)
  <2>1. IsFiniteSet(1 .. N) /\ Cardinality(1 .. N) = N
    BY <1>2, FS_Interval
  <2> HIDE DEF rank
  <2>2. QED BY <1>6, <2>1, FS_Injection
<1>8. ASSUME NEW n \in 1 .. N PROVE place(n) \in stay /\ rank[place(n)] = n
  <2>1. \E i \in stay : rank[i] = n
    BY <1>7 DEF Surjection
  <2>2. \E i \in stay : Cardinality(upto(i)) = n
    BY <2>1
  <2> HIDE DEF upto
  <2>3. QED BY <2>2
<1>9. ASSUME NEW i \in stay PROVE rank[i] \in 1 .. N /\ place(rank[i]) = i
  <2>1. rank[i] \in 1 .. N
    BY <1>4
  <2>2. place(rank[i]) \in stay /\ rank[place(rank[i])] = rank[i]
    BY <1>8, <2>1
  <2> HIDE DEF rank, place
  <2>3. QED BY <1>6, <2>1, <2>2 DEF Injection, IsInjective
<1>10. r = [n \in 1 .. N |-> q[place(n)]]
  BY <1>0
<1> HIDE DEF rank, place, upto, N
<1>11. ASSUME NEW n \in 1 .. N
       PROVE  r[n] = q[place(n)] /\ place(n) \in 1 .. Len(q) /\ r[n] \notin P
  BY <1>0, <1>8, <1>10
<1>12. r \in Seq(Keys) /\ Len(r) = N
  <2>1. \A n \in 1 .. N : q[place(n)] \in Keys
    BY <1>1, <1>11
  <2>2. [n \in 1 .. N |-> q[place(n)]] \in Seq(Keys)
    BY <1>2, <2>1, IsASeq
  <2>3. DOMAIN r = 1 .. N /\ DOMAIN r = 1 .. Len(r) /\ Len(r) \in Nat
    BY <1>10, <2>2, LenProperties
  <2>4. 1 .. N = 1 .. Len(r) /\ Len(r) \in Nat
    BY <2>3
  <2>5. Len(r) = N
    BY ONLY <1>2, <2>4
  <2>6. QED BY <1>10, <2>2, <2>5
<1>13. ASSUME NEW m \in 1 .. N, NEW n \in 1 .. N, r[m] = r[n] PROVE m = n
  <2>1. place(m) = place(n)
    <3>1. /\ place(m) \in 1 .. Len(q) /\ place(n) \in 1 .. Len(q)
          /\ r[m] = q[place(m)] /\ r[n] = q[place(n)]
      BY <1>11
    <3>2. \A i, j \in 1 .. Len(q) : q[i] = q[j] => i = j
      BY DEF Lines
    <3>3. QED BY <1>13, <3>1, <3>2
  <2>2. QED BY <1>8, <2>1
<1>14. ASSUME NEW k \in S \ P PROVE \E n \in 1 .. N : r[n] = k
  <2>1. PICK i \in 1 .. Len(q) : q[i] = k
    BY DEF Lines
  <2>2. i \in stay
    BY <1>0, <2>1
  <2>3. rank[i] \in 1 .. N /\ r[rank[i]] = k
    BY <1>9, <1>11, <2>1, <2>2
  <2>4. QED BY <2>3
<1>15. ASSUME NEW n \in 1 .. N PROVE r[n] \in S \ P
  <2>1. place(n) \in 1 .. Len(q) /\ r[n] = q[place(n)] /\ r[n] \notin P
    BY <1>11
  <2>2. q[place(n)] \in S
    BY <2>1 DEF Lines
  <2>3. QED BY <2>1, <2>2
<1>16. /\ r \in Seq(Keys)
       /\ \A i, j \in 1 .. Len(r) : r[i] = r[j] => i = j
       /\ \A i \in 1 .. Len(r) : r[i] \in S \ P
       /\ \A k \in S \ P : \E i \in 1 .. Len(r) : r[i] = k
  <2>1. 1 .. Len(r) = 1 .. N
    BY <1>12
  <2>2. \A i, j \in 1 .. N : r[i] = r[j] => i = j
    BY <1>13
  <2>3. \A i \in 1 .. N : r[i] \in S \ P
    BY <1>15
  <2>4. \A k \in S \ P : \E i \in 1 .. N : r[i] = k
    BY <1>14
  <2> DEFINE D == 1 .. Len(r)
  <2>5. D = 1 .. N
    BY <2>1
  <2> HIDE DEF D
  <2>6. \A i, j \in D : r[i] = r[j] => i = j
    BY ONLY <2>2, <2>5
  <2>7. \A i \in D : r[i] \in S \ P
    BY ONLY <2>3, <2>5
  <2>8. \A k \in S \ P : \E i \in D : r[i] = k
    BY ONLY <2>4, <2>5
  <2>9. QED BY <1>12, <2>6, <2>7, <2>8 DEF D
<1>17. QED BY <1>16 DEF Lines, r

\* Without the part that counts for nothing the sum is that of the rest.
LEMMA SumsDrop ==
    ASSUME NEW S, IsFiniteSet(S), NEW G \in SUBSET S, NEW len, NEW len2,
           \A k \in S : len[k] \in Nat,
           \A k \in G : len2[k] = 0,
           \A k \in S \ G : len2[k] = len[k]
    PROVE  /\ SumFunctionOnSet(len2, S) \in Nat
           /\ SumFunctionOnSet(len2, S) <= SumFunctionOnSet(len, S)
           /\ Monus(SumFunctionOnSet(len, S), SumFunctionOnSet(len, G)) = SumFunctionOnSet(len2, S)
<1> DEFINE a == SumFunctionOnSet(len, S)
           b == SumFunctionOnSet(len2, S)
           g == SumFunctionOnSet(len, G)
           h == SumFunctionOnSet(len, S \ G)
           h2 == SumFunctionOnSet(len2, S \ G)
           g2 == SumFunctionOnSet(len2, G)
<1>0. ASSUME NEW l, \A x \in S : l[x] \in Nat
      PROVE  /\ SumFunctionOnSet(l, G) \in Nat /\ SumFunctionOnSet(l, S \ G) \in Nat
             /\ SumFunctionOnSet(l, S) = SumFunctionOnSet(l, G) + SumFunctionOnSet(l, S \ G)
  BY <1>0, SumSplit
<1>1. g \in Nat /\ h \in Nat /\ a = g + h
  BY <1>0
<1>2. \A k \in S : len2[k] \in Nat
  OBVIOUS
<1>3. g2 \in Nat /\ h2 \in Nat /\ b = g2 + h2
  BY <1>0, <1>2
<1>4. IsFiniteSet(G) /\ IsFiniteSet(S \ G)
  BY FS_Subset
<1>5. g2 = 0
  BY <1>4, SumZero
<1>6. h = h2
  BY <1>4, SumCong
<1> HIDE DEF a, b, g, h, h2, g2
<1>7. b \in Nat /\ b <= a /\ Monus(a, g) = b
  BY <1>1, <1>3, <1>5, <1>6 DEF Monus
<1>8. QED BY <1>7 DEF a, b, g

\* One that counted for nothing adds what it now counts for.
LEMMA SumsRaise ==
    ASSUME NEW S, IsFiniteSet(S), NEW k \in S, NEW len, NEW len2,
           \A j \in S : len[j] \in Nat,
           len[k] = 0, len2[k] \in Nat,
           \A j \in S \ {k} : len2[j] = len[j]
    PROVE  SumFunctionOnSet(len2, S) = SumFunctionOnSet(len, S) + len2[k]
<1> DEFINE h == SumFunctionOnSet(len, S \ {k})
           h2 == SumFunctionOnSet(len2, S \ {k})
           a == SumFunctionOnSet(len, S)
           b == SumFunctionOnSet(len2, S)
<1>1. \A j \in S : len2[j] \in Nat
  OBVIOUS
<1>0. ASSUME NEW l, \A x \in S : l[x] \in Nat
      PROVE  SumFunctionOnSet(l, S) = l[k] + SumFunctionOnSet(l, S \ {k})
  BY <1>0, SumOne
<1>2. a = len[k] + h
  BY <1>0
<1>3. b = len2[k] + h2
  BY <1>0, <1>1
<1>4. IsFiniteSet(S \ {k})
  BY FS_Subset
<1>5. h = h2
  BY <1>4, SumCong
<1>6. h \in Nat
  <2>1. S \ {k} \in SUBSET S
    OBVIOUS
  <2>2. QED BY <2>1, SumTake
<1> HIDE DEF a, b, h, h2
<1>7. b = a + len2[k]
  BY <1>2, <1>3, <1>5, <1>6
<1>8. QED BY <1>7 DEF a, b

Bodies == {k \in Keys : held[k] = "body"}

\* The strengthening of BytesExact and QueuesExact.
BooksInductive ==
    /\ size \in [Calls -> Nat]
    /\ bytes \in Nat
    /\ Lines(order, HeldKeys)
    /\ Lines(replays, Bodies)
    /\ BytesExact

\* It says what the runs check.
LEMMA BooksTell == BooksInductive => BytesExact /\ QueuesExact
<1> SUFFICES ASSUME BooksInductive PROVE QueuesExact
  BY DEF BooksInductive
<1>1. Len(order) = Cardinality(HeldKeys) /\ {order[i] : i \in 1 .. Len(order)} = HeldKeys
  BY LinesCount DEF BooksInductive
<1>2. Len(replays) = Cardinality(Bodies) /\ {replays[i] : i \in 1 .. Len(replays)} = Bodies
  BY LinesCount DEF BooksInductive
<1>3. QED BY <1>1, <1>2 DEF QueuesExact, Bodies

\* Lengths are numbers.
LEMMA LengthsCount ==
    Shapes /\ EntriesOwned /\ BooksInductive => \A k \in Keys : SerializedLen[k] \in Nat
BY DEF Shapes, EntriesOwned, BooksInductive, SerializedLen

\* What expires is the front of the line.
LEMMA FrontPruned ==
    ASSUME BooksInductive
    PROVE  /\ PrunedCount \in 0 .. Len(order)
           /\ Pruned = {order[i] : i \in 1 .. PrunedCount}
           /\ Pruned \subseteq HeldKeys
<1> DEFINE P == {i \in 1 .. Len(order) : \A j \in 1 .. i : Expired(order[j])}
<1>1. Len(order) \in Nat /\ \A i \in 1 .. Len(order) : order[i] \in HeldKeys
  BY LenProperties DEF BooksInductive, Lines
<1>2. P \in SUBSET (1 .. Len(order)) /\ \A i \in P : \A j \in 1 .. i : j \in P
  BY <1>1
<1>3. P = 1 .. Cardinality(P) /\ Cardinality(P) \in 0 .. Len(order)
  <2> HIDE DEF P
  <2>1. QED BY <1>1, <1>2, PrefixCount
<1>4. PrunedCount = Cardinality(P)
  BY DEF PrunedCount
<1>5. P = 1 .. PrunedCount /\ PrunedCount \in 0 .. Len(order)
  BY <1>3, <1>4
<1>6. ASSUME NEW i \in 1 .. PrunedCount
      PROVE  order[i] \in HeldKeys /\ order[i] \in Keys /\ Expired(order[i])
  <2>1. i \in P /\ i \in 1 .. i
    BY <1>1, <1>5
  <2>2. QED BY <1>1, <2>1 DEF HeldKeys
<1> HIDE DEF P
<1>7. Pruned = {order[i] : i \in 1 .. PrunedCount}
  BY <1>6 DEF Pruned
<1>8. QED BY <1>5, <1>6, <1>7

\* Expiry keeps the books.
LEMMA PruneBooks ==
    ASSUME Shapes, EntriesOwned, BooksInductive, Prune, size' = size
    PROVE  BooksInductive'
<1>1. /\ PrunedCount \in 0 .. Len(order) /\ Pruned \subseteq HeldKeys
      /\ Pruned = {order[i] : i \in 1 .. PrunedCount}
  BY FrontPruned
<1>2. /\ held' = [k \in Keys |-> IF k \in Pruned THEN "none" ELSE held[k]]
      /\ order' = SubSeq(order, PrunedCount + 1, Len(order))
      /\ replays' = Requeued /\ bytes' = Monus(bytes, SumFunctionOnSet(SerializedLen, Pruned))
      /\ heldBy' = heldBy
  BY DEF Prune, Kept, PrunedBytes
<1>3. HeldKeys' = HeldKeys \ Pruned /\ Bodies' = Bodies \ Pruned
  BY <1>2 DEF HeldKeys, Bodies
<1>4. Lines(order', HeldKeys')
  <2>1. Lines(order, HeldKeys)
    BY DEF BooksInductive
  <2>2. Lines(SubSeq(order, PrunedCount + 1, Len(order)),
              HeldKeys \ {order[i] : i \in 1 .. PrunedCount})
    BY <1>1, <2>1, LinesDrop
  <2>3. QED BY <1>1, <1>2, <1>3, <2>2
<1>5. Lines(replays', Bodies')
  <2>1. Lines(replays, Bodies)
    BY DEF BooksInductive
  <2>2. Requeued = Filtered(replays, Pruned)
    BY DEF Requeued, Filtered
  <2>3. Lines(Filtered(replays, Pruned), Bodies \ Pruned)
    BY <2>1, LinesFilter
  <2>4. QED BY <1>2, <1>3, <2>2, <2>3
<1>6. \A k \in Keys : SerializedLen[k] \in Nat
  BY LengthsCount
<1>7. /\ \A k \in Pruned : SerializedLen'[k] = 0
      /\ \A k \in Keys \ Pruned : SerializedLen'[k] = SerializedLen[k]
  BY <1>1, <1>2 DEF SerializedLen, HeldKeys
<1>8. Pruned \in SUBSET Keys /\ IsFiniteSet(Keys)
  BY <1>1, NamesAssumption DEF HeldKeys
<1> DEFINE len2 == SerializedLen'
<1>9. /\ SumFunctionOnSet(len2, Keys) \in Nat
      /\ SumFunctionOnSet(len2, Keys) <= SumFunctionOnSet(SerializedLen, Keys)
      /\ Monus(SumFunctionOnSet(SerializedLen, Keys), SumFunctionOnSet(SerializedLen, Pruned))
           = SumFunctionOnSet(len2, Keys)
  <2> HIDE DEF len2
  <2>1. /\ \A k \in Pruned : len2[k] = 0
        /\ \A k \in Keys \ Pruned : len2[k] = SerializedLen[k]
    BY <1>7 DEF len2
  <2>2. QED BY <1>6, <1>8, <2>1, SumsDrop
<1>10. bytes = SumFunctionOnSet(SerializedLen, Keys) /\ bytes <= MaxBytes /\ bytes \in Nat
  BY DEF BooksInductive, BytesExact
<1>11. bytes' = SumFunctionOnSet(len2, Keys) /\ bytes' \in Nat /\ bytes' <= MaxBytes
  <2> HIDE DEF len2
  <2>1. bytes' = SumFunctionOnSet(len2, Keys)
    BY <1>2, <1>9, <1>10
  <2>2. QED BY <1>9, <1>10, <2>1, LimitsAssumption
<1>12. BytesExact'
  BY <1>11 DEF BytesExact
<1>13. QED BY <1>4, <1>5, <1>11, <1>12 DEF BooksInductive

\* A nonempty set of numbers has a least.
LEMMA LeastNumber ==
    ASSUME NEW T, T \subseteq Nat, T # {}
    PROVE  Min(T) \in T
<1>1. IsWellFoundedOn(OpToRel(<, Nat), Nat)
  BY NatLessThanWellFounded
<1>2. PICK m \in T : \A i \in T : ~(<<i, m>> \in OpToRel(<, Nat))
  BY <1>1, WFMin
<1>3. ASSUME NEW i \in T PROVE m <= i
  <2>1. ~(i < m)
    BY <1>2 DEF OpToRel
  <2>2. QED BY <2>1
<1>4. QED BY <1>3 DEF Min

\* At most every body in line is evicted; those that are count no longer.
LEMMA EvictionsLeave ==
    ASSUME Shapes, EntriesOwned, BooksInductive, NEW n,
           NEW gone, gone = {replays[i] : i \in 1 .. Evictions(n)},
           NEW len2, \A k \in gone : len2[k] = 0,
           \A k \in Keys \ gone : len2[k] = SerializedLen[k]
    PROVE  /\ Evictions(n) \in 0 .. Len(replays)
           /\ gone \subseteq Bodies
           /\ BytesLeft(Evictions(n)) = SumFunctionOnSet(len2, Keys)
           /\ BytesLeft(Evictions(n)) \in Nat /\ BytesLeft(Evictions(n)) <= MaxBytes
<1>1. Len(replays) \in Nat /\ \A i \in 1 .. Len(replays) : replays[i] \in Bodies
  BY LenProperties DEF BooksInductive, Lines
<1>2. Evictions(n) \in 0 .. Len(replays)
  <2> DEFINE enough == {i \in 0 .. Len(replays) : Room(n, i)}
  <2>1. enough # {} => Min(enough) \in enough
    <3>1. enough \subseteq Nat
      BY <1>1
    <3> HIDE DEF enough
    <3>2. QED BY <3>1, LeastNumber
  <2>2. Evictions(n) = IF n > MaxBytes THEN 0 ELSE IF enough = {} THEN Len(replays) ELSE Min(enough)
    BY DEF Evictions
  <2>3. enough \subseteq 0 .. Len(replays)
    OBVIOUS
  <2> HIDE DEF enough
  <2>4. CASE n > MaxBytes
    BY <1>1, <2>2, <2>4
  <2>5. CASE ~(n > MaxBytes) /\ enough = {}
    BY <1>1, <2>2, <2>5
  <2>6. CASE ~(n > MaxBytes) /\ enough # {}
    BY <2>1, <2>2, <2>3, <2>6
  <2>7. QED BY <2>4, <2>5, <2>6
<1>3. gone \subseteq Bodies
  BY <1>1, <1>2
<1>4. gone \in SUBSET Keys /\ IsFiniteSet(Keys)
  BY <1>3, NamesAssumption DEF Bodies
<1>5. \A k \in Keys : SerializedLen[k] \in Nat
  BY LengthsCount
<1>6. /\ SumFunctionOnSet(len2, Keys) \in Nat
      /\ SumFunctionOnSet(len2, Keys) <= SumFunctionOnSet(SerializedLen, Keys)
      /\ Monus(SumFunctionOnSet(SerializedLen, Keys), SumFunctionOnSet(SerializedLen, gone))
           = SumFunctionOnSet(len2, Keys)
  BY <1>4, <1>5, SumsDrop
<1>7. BytesLeft(Evictions(n)) = Monus(bytes, SumFunctionOnSet(SerializedLen, gone))
  BY DEF BytesLeft
<1>8. bytes = SumFunctionOnSet(SerializedLen, Keys) /\ bytes <= MaxBytes /\ bytes \in Nat
  BY DEF BooksInductive, BytesExact
<1>9. BytesLeft(Evictions(n)) = SumFunctionOnSet(len2, Keys)
  BY <1>6, <1>7, <1>8
<1>10. BytesLeft(Evictions(n)) \in Nat /\ BytesLeft(Evictions(n)) <= bytes
  BY <1>6, <1>8, <1>9
<1>11. MaxBytes \in Nat
  BY LimitsAssumption
<1>12. BytesLeft(Evictions(n)) <= MaxBytes
  <2> DEFINE left == BytesLeft(Evictions(n))
  <2>1. left \in Nat /\ left <= bytes /\ bytes <= MaxBytes /\ bytes \in Nat
    BY <1>8, <1>10
  <2> HIDE DEF left
  <2>2. left <= MaxBytes
    BY <1>11, <2>1
  <2>3. QED BY <2>2 DEF left
<1>13. QED BY <1>2, <1>3, <1>9, <1>10, <1>12

\* An execution in flight is behind no entry, and nothing is held under its key.
LEMMA FlightUnheld ==
    ASSUME Shapes, OnceInductive, NEW e \in Calls, exec[e] \in Active
    PROVE  /\ key[e] # None => key[e] \in Keys /\ held[key[e]] = "none"
           /\ \A j \in Keys : held[j] # "none" => heldBy[j] # e /\ heldBy[j] \in Calls
<1>1. key[e] # None => key[e] \in Keys /\ held[key[e]] = "none"
  <2>1. SUFFICES ASSUME key[e] # None PROVE key[e] \in Keys /\ held[key[e]] = "none"
    OBVIOUS
  <2>2. key[e] \in Keys
    BY <2>1 DEF Shapes
  <2>3. byKey[key[e]] = e
    BY <2>1 DEF OnceInductive, IndexExact
  <2>4. byKey[key[e]] # NoCall
    BY <2>3, NamesAssumption
  <2>5. QED BY <2>2, <2>4 DEF OnceInductive, IndexExact
<1>2. ASSUME NEW j \in Keys, held[j] # "none" PROVE heldBy[j] # e /\ heldBy[j] \in Calls
  <2>1. heldBy[j] \in Calls /\ key[heldBy[j]] = j
    BY <1>2 DEF OnceInductive, EntriesOwned
  <2>2. j # None
    BY NamesAssumption
  <2>3. QED BY <1>1, <1>2, <2>1, <2>2
<1>3. QED BY <1>1, <1>2

\* Retention keeps the books.
LEMMA RetainBooks ==
    ASSUME Shapes, EntriesOwned, BooksInductive, NEW k \in Keys, NEW e \in Calls, NEW n \in Nat,
           held[k] = "none", \A j \in Keys : held[j] # "none" => heldBy[j] # e /\ heldBy[j] \in Calls,
           Retain(k, e, n), size' = [size EXCEPT ![e] = n]
    PROVE  BooksInductive'
<1> DEFINE m == Evictions(n)
           gone == {replays[i] : i \in 1 .. m}
           len1 == [j \in Keys |-> IF j \in gone THEN 0 ELSE SerializedLen[j]]
           fits == Fits(n)
           rest == SubSeq(replays, m + 1, Len(replays))
<1>1. /\ m \in 0 .. Len(replays) /\ gone \subseteq Bodies
      /\ BytesLeft(m) = SumFunctionOnSet(len1, Keys)
      /\ BytesLeft(m) \in Nat /\ BytesLeft(m) <= MaxBytes
  <2>1. /\ gone = {replays[i] : i \in 1 .. Evictions(n)}
        /\ \A j \in gone : j \in Keys => len1[j] = 0
        /\ \A j \in Keys \ gone : len1[j] = SerializedLen[j]
    OBVIOUS
  <2>2. gone \subseteq Keys
    <3>1. gone \subseteq Bodies
      <4> DEFINE l0 == [j \in Keys \cup gone |-> IF j \in gone THEN 0 ELSE SerializedLen[j]]
      <4>1. /\ \A j \in gone : l0[j] = 0
            /\ \A j \in Keys \ gone : l0[j] = SerializedLen[j]
        OBVIOUS
      <4> HIDE DEF l0, gone
      <4>2. QED BY <2>1, <4>1, EvictionsLeave
    <3>2. QED BY <3>1 DEF Bodies
  <2>3. \A j \in gone : len1[j] = 0
    BY <2>1, <2>2
  <2> HIDE DEF gone, len1
  <2>4. \A j \in Keys \ gone : len1[j] = SerializedLen[j]
    BY <2>1
  <2>5. gone = {replays[i] : i \in 1 .. Evictions(n)}
    BY <2>1
  <2>6. /\ Evictions(n) \in 0 .. Len(replays)
        /\ gone \subseteq Bodies
        /\ BytesLeft(Evictions(n)) = SumFunctionOnSet(len1, Keys)
        /\ BytesLeft(Evictions(n)) \in Nat /\ BytesLeft(Evictions(n)) <= MaxBytes
    BY <2>3, <2>4, <2>5, EvictionsLeave
  <2>7. QED BY <2>6
<1>2. /\ held' = [j \in Keys |->
             IF j = k THEN IF fits THEN "body" ELSE "tombstone"
             ELSE IF held[j] = "body" /\ j \in gone THEN "tombstone" ELSE held[j]]
      /\ heldBy' = [heldBy EXCEPT ![k] = e]
      /\ order' = Append(order, k)
      /\ replays' = IF fits THEN Append(rest, k) ELSE rest
      /\ bytes' = BytesLeft(m) + IF fits THEN n ELSE 0
  <2>1. \A j : Evicted(n, j) <=> j \in gone
    BY DEF Evicted
  <2> HIDE DEF gone
  <2>2. QED BY <2>1 DEF Retain, Enqueued
<1>3. k \notin HeldKeys /\ k \notin Bodies /\ k \notin gone
  BY <1>1 DEF HeldKeys, Bodies
<1>4. fits \in BOOLEAN
  BY DEF Fits
<1>5. fits => n + BytesLeft(m) <= MaxBytes
  <2>1. SUFFICES ASSUME fits PROVE n + BytesLeft(m) <= MaxBytes
    OBVIOUS
  <2>2. n <= Monus(MaxBytes, BytesLeft(m))
    BY <2>1 DEF Fits, Room
  <2>3. MaxBytes \in Nat
    BY LimitsAssumption
  <2> DEFINE b == BytesLeft(m)
  <2>4. b \in Nat /\ b <= MaxBytes /\ n <= Monus(MaxBytes, b)
    BY <1>1, <2>2
  <2> HIDE DEF b
  <2>5. n + b <= MaxBytes
    BY <2>3, <2>4 DEF Monus
  <2>6. QED BY <2>5 DEF b
<1>6. Lines(order, HeldKeys) /\ Lines(rest, Bodies \ gone)
  BY <1>1, LinesDrop DEF BooksInductive
<1> HIDE DEF fits, rest, m, len1
<1>7. Lines(order', HeldKeys')
  <2>1. HeldKeys' = HeldKeys \cup {k}
    BY <1>2, <1>4 DEF HeldKeys
  <2>2. Lines(Append(order, k), HeldKeys \cup {k})
    BY <1>3, <1>6, LinesAppend
  <2>3. QED BY <1>2, <2>1, <2>2
<1>8. Lines(replays', Bodies')
  <2> HIDE DEF gone
  <2>1. CASE fits
    <3>1. Bodies' = (Bodies \ gone) \cup {k}
      BY <1>2, <2>1 DEF Bodies
    <3>2. Lines(Append(rest, k), (Bodies \ gone) \cup {k})
      BY <1>3, <1>6, LinesAppend
    <3>3. QED BY <1>2, <2>1, <3>1, <3>2
  <2>2. CASE ~fits
    <3>1. Bodies' = Bodies \ gone
      BY <1>2, <1>3, <2>2 DEF Bodies
    <3>2. QED BY <1>2, <1>6, <2>2, <3>1
  <2>3. QED BY <2>1, <2>2
<1>9. size' \in [Calls -> Nat] /\ size \in [Calls -> Nat] /\ heldBy \in [Keys -> Calls \cup {NoCall}]
  BY DEF BooksInductive, Shapes
<1> HIDE DEF gone
<1>10. SerializedLen'[k] = IF fits THEN n ELSE 0
  <2>1. heldBy'[k] = e /\ size'[e] = n /\ held'[k] = IF fits THEN "body" ELSE "tombstone"
    BY <1>2, <1>9
  <2>2. SerializedLen'[k] = IF held'[k] = "body" THEN size'[heldBy'[k]] ELSE 0
    BY DEF SerializedLen
  <2>3. QED BY <1>4, <2>1, <2>2
<1>11. ASSUME NEW j \in Keys \ {k} PROVE SerializedLen'[j] = len1[j]
  <2>1. heldBy'[j] = heldBy[j]
    BY <1>2, <1>9
  <2>2. held'[j] = IF held[j] = "body" /\ j \in gone THEN "tombstone" ELSE held[j]
    BY <1>2
  <2>3. SerializedLen'[j] = IF held'[j] = "body" THEN size'[heldBy[j]] ELSE 0
    BY <2>1 DEF SerializedLen
  <2>4. held[j] = "body" => size'[heldBy[j]] = size[heldBy[j]]
    BY <1>9
  <2>5. SerializedLen[j] = IF held[j] = "body" THEN size[heldBy[j]] ELSE 0
    BY DEF SerializedLen
  <2>6. len1[j] = IF j \in gone THEN 0 ELSE SerializedLen[j]
    BY DEF len1
  <2>7. j \in gone => held[j] = "body"
    BY <1>1 DEF Bodies
  <2>8. CASE j \in gone
    BY <2>2, <2>3, <2>6, <2>7, <2>8
  <2>9. CASE j \notin gone
    BY <2>2, <2>3, <2>4, <2>5, <2>6, <2>9
  <2>10. QED BY <2>8, <2>9
<1>12. /\ \A j \in Keys : len1[j] \in Nat
       /\ len1[k] = 0
  <2>1. \A j \in Keys : SerializedLen[j] \in Nat
    BY LengthsCount
  <2>2. SerializedLen[k] = 0
    BY DEF SerializedLen
  <2>3. QED BY <2>1, <2>2 DEF len1
<1> DEFINE len2 == SerializedLen'
<1>13. /\ len2[k] = (IF fits THEN n ELSE 0) /\ len2[k] \in Nat
       /\ \A j \in Keys \ {k} : len2[j] = len1[j]
  BY <1>4, <1>10, <1>11
<1>14. SumFunctionOnSet(len2, Keys) = SumFunctionOnSet(len1, Keys) + len2[k]
  <2> HIDE DEF len2
  <2>1. IsFiniteSet(Keys)
    BY NamesAssumption
  <2>2. QED BY <1>12, <1>13, <2>1, SumsRaise
<1>15. bytes' = SumFunctionOnSet(len2, Keys) /\ bytes' \in Nat /\ bytes' <= MaxBytes
  <2> DEFINE b == BytesLeft(m)
             w == len2[k]
             t == SumFunctionOnSet(len2, Keys)
  <2>1. /\ b \in Nat /\ b <= MaxBytes /\ bytes' = b + (IF fits THEN n ELSE 0)
        /\ w = (IF fits THEN n ELSE 0) /\ t = b + w
        /\ (fits => n + b <= MaxBytes)
    BY <1>1, <1>2, <1>5, <1>13, <1>14
  <2> HIDE DEF b, w, t, len2
  <2>2. bytes' = t /\ bytes' \in Nat
    BY <2>1
  <2>3. bytes' <= MaxBytes
    <3>1. CASE fits
      BY <2>1, <3>1
    <3>2. CASE ~fits
      BY <2>1, <3>2
    <3>3. QED BY <3>1, <3>2
  <2>4. QED BY <2>2, <2>3 DEF t
<1>16. BytesExact'
  BY <1>15 DEF BytesExact
<1>17. QED BY <1>7, <1>8, <1>9, <1>15, <1>16 DEF BooksInductive

\* What leaves the table and its lengths alone keeps the books.
LEMMA StillBooks ==
    ASSUME BooksInductive, held' = held, order' = order, replays' = replays, bytes' = bytes,
           size' \in [Calls -> Nat], SerializedLen' = SerializedLen
    PROVE  BooksInductive'
<1>1. HeldKeys' = HeldKeys /\ Bodies' = Bodies
  BY DEF HeldKeys, Bodies
<1>2. Lines(order', HeldKeys') /\ Lines(replays', Bodies') /\ bytes' \in Nat
  BY <1>1 DEF BooksInductive
<1>3. bytes = SumFunctionOnSet(SerializedLen, Keys) /\ bytes <= MaxBytes
  BY DEF BooksInductive, BytesExact
<1>4. BytesExact'
  BY <1>3 DEF BytesExact
<1>5. QED BY <1>2, <1>4 DEF BooksInductive

\* The initial books are empty.
LEMMA InitBooks == Init => BooksInductive
<1> SUFFICES ASSUME Init PROVE BooksInductive
  OBVIOUS
<1>1. HeldKeys = {} /\ Bodies = {}
  BY DEF Init, HeldKeys, Bodies
<1>2. <<>> \in Seq(Keys) /\ Len(<<>>) = 0
  BY EmptySeq
<1>3. order = <<>> /\ replays = <<>> /\ bytes = 0 /\ size = [c \in Calls |-> 0]
  BY DEF Init
<1>4. Lines(<<>>, {})
  BY <1>2 DEF Lines
<1>5. \A k \in Keys : SerializedLen[k] = 0
  BY DEF Init, SerializedLen
<1>6. SumFunctionOnSet(SerializedLen, Keys) = 0
  BY <1>5, NamesAssumption, SumZero
<1>7. BytesExact
  BY <1>3, <1>6, LimitsAssumption DEF BytesExact
<1>8. QED BY <1>1, <1>3, <1>4, <1>7 DEF BooksInductive

\* A completion keeps the books.
LEMMA CompleteBooks ==
    ASSUME Shapes, OnceInductive, BooksInductive, NEW e \in Calls, exec[e] \in Active,
           NEW r, NEW n \in Sizes, Complete(e, r, n)
    PROVE  BooksInductive'
<1>1. /\ key[e] # None => key[e] \in Keys /\ held[key[e]] = "none"
      /\ \A j \in Keys : held[j] # "none" => heldBy[j] # e /\ heldBy[j] \in Calls
  BY FlightUnheld
<1>2. n \in Nat /\ size' = [size EXCEPT ![e] = n] /\ EntriesOwned
  BY LimitsAssumption DEF Complete, OnceInductive
<1>3. CASE key[e] # None /\ ~Retryable(r)
  <2>1. Retain(key[e], e, n)
    BY <1>3 DEF Complete
  <2>2. QED BY <1>1, <1>2, <1>3, <2>1, RetainBooks
<1>4. CASE ~(key[e] # None /\ ~Retryable(r))
  <2>1. held' = held /\ heldBy' = heldBy /\ order' = order /\ replays' = replays /\ bytes' = bytes
    BY <1>4 DEF Complete, retained
  <2>2. size \in [Calls -> Nat] /\ size' \in [Calls -> Nat]
    BY <1>2 DEF BooksInductive
  <2>3. ASSUME NEW j \in Keys
        PROVE  (IF held'[j] = "body" THEN size'[heldBy'[j]] ELSE 0)
             = (IF held[j] = "body" THEN size[heldBy[j]] ELSE 0)
    <3>1. CASE held[j] = "body"
      <4>1. heldBy[j] # e /\ heldBy[j] \in Calls
        BY <1>1, <3>1
      <4>2. QED BY <1>2, <2>1, <2>2, <3>1, <4>1
    <3>2. CASE held[j] # "body"
      BY <2>1, <3>2
    <3>3. QED BY <3>1, <3>2
  <2>4. SerializedLen' = SerializedLen
    BY <2>3 DEF SerializedLen
  <2>5. QED BY <2>1, <2>2, <2>4, StillBooks
<1>5. QED BY <1>3, <1>4

\* Every step keeps the books.
LEMMA StepBooks == Shapes /\ OnceInductive /\ BooksInductive /\ [Next]_vars => BooksInductive'
<1> SUFFICES ASSUME Shapes, OnceInductive, BooksInductive, [Next]_vars PROVE BooksInductive'
  OBVIOUS
<1>1. EntriesOwned /\ size \in [Calls -> Nat]
  BY DEF OnceInductive, BooksInductive
<1>2. ASSUME retained' = retained, size' = size PROVE BooksInductive'
  <2>1. /\ held' = held /\ heldBy' = heldBy /\ order' = order
        /\ replays' = replays /\ bytes' = bytes
    BY <1>2 DEF retained
  <2>2. SerializedLen' = SerializedLen
    BY <1>2, <2>1 DEF SerializedLen
  <2>3. QED BY <1>1, <1>2, <2>1, <2>2, StillBooks
<1>3. ASSUME NEW c \in Calls, Run(c) PROVE BooksInductive'
  <2>1. Prune /\ size' = size
    BY <1>3 DEF Run, Replay, Join, Begin, Reply, runs
  <2>2. QED BY <1>1, <2>1, PruneBooks
<1>4. ASSUME NEW e \in Calls, Finish(e) PROVE BooksInductive'
  <2>1. exec[e] \in Active /\ \E n \in Sizes : Complete(e, "answer", n)
    BY <1>4 DEF Finish, Active
  <2>2. QED BY <2>1, CompleteBooks
<1>5. ASSUME NEW e \in Calls, Refuse(e) PROVE BooksInductive'
  <2>1. exec[e] \in Active /\ \E n \in Sizes, r \in {"retryable", "denied", "abandoned"} : Complete(e, r, n)
    BY <1>5 DEF Refuse, Active
  <2>2. PICK n \in Sizes, r \in {"retryable", "denied", "abandoned"} : Complete(e, r, n)
    BY <2>1
  <2>3. QED BY <2>1, <2>2, CompleteBooks
<1>6. CASE Sweeper
  BY <1>1, <1>6, PruneBooks DEF Sweeper, runs
<1>7. ASSUME NEW c \in Calls, Disconnect(c) \/ Dispatch(c) PROVE BooksInductive'
  BY <1>2, <1>7 DEF Disconnect, Dispatch
<1>8. ASSUME NEW e \in Calls, NEW c \in Calls, Send(e, c) PROVE BooksInductive'
  BY <1>2, <1>8 DEF Send
<1>9. CASE Tick \/ UNCHANGED vars
  BY <1>2, <1>9 DEF Tick, vars, runs
<1>10. QED BY <1>3, <1>4, <1>5, <1>6, <1>7, <1>8, <1>9 DEF Next

\* The books of the table are exact: slots, reservations, bytes and both queues.
THEOREM TableHolds == Spec => []TableExact
<1>1. Init => Shapes /\ OnceInductive /\ BooksInductive
  BY InitOnce, InitBooks
<1>2. Shapes /\ OnceInductive /\ BooksInductive /\ [Next]_vars
      => (Shapes /\ OnceInductive /\ BooksInductive)'
  BY StepShapes, StepOnce, StepBooks
<1>3. Spec => [](Shapes /\ OnceInductive /\ BooksInductive)
  BY <1>1, <1>2, PTL DEF Spec
<1>4. SlotsExact /\ BooksInductive => TableExact
  BY BooksTell DEF TableExact
<1> QED
  BY <1>3, <1>4, SlotsHold, PTL
=============================================================================
