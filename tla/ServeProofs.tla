----------------------------- MODULE ServeProofs -----------------------------
(***************************************************************************)
(* What serves the agents, for any calls and requests: the admission of a  *)
(* call through the control plane, a request at a direct endpoint, the     *)
(* grades and relays of API calls, the helpers that resolve secrets, and   *)
(* the sliding windows that bound how often any of it is asked for.        *)
(***************************************************************************)
EXTENDS OnePassword, Health, HttpCall, AgentCalls, HttpEndpoint, Limits, Redaction,
        SequenceTheorems, FiniteSetTheorems, WellFoundedInduction, TLAPS

----------------------------------------------------------------------------
(* The admission of a call                                                 *)

\* A call as it can be.
AgRecords == [pc : {"idle", "found", "judged", "parking", "gate", "asking", "version",
                    "switch", "list", "run"},
              mode : {"plain", "kept"}, ver : 0 .. AgMaxVer,
              cur : Lists, asked : BOOLEAN, stale : BOOLEAN]

\* A call under way knows a version the connection had; one that was outdated when it
\* was allowed still differs at the boundary, and is not beyond it.
AgFits(q) ==
    /\ q.pc # "idle" => q.ver >= 1 /\ (agver # 0 => q.ver <= agver)
    /\ q.pc \in {"parking", "gate", "asking"} => q.asked
    /\ q.pc = "version" /\ q.stale => q.ver # agver
    /\ q.pc \in {"switch", "list", "run"} => ~q.stale

\* A call that will close the window when its turn at the boundary comes: for the
\* version, or, when only the allow-list is another, unless the switch stops it first.
AgCloses(q) ==
    /\ q.asked
    /\ \/ q.pc = "version" /\ q.ver # agver
       \/ agwin.ver = agver /\ q.pc \in {"version", "switch", "list"} /\ q.cur # agcur

\* The type of each variable.
AgShape ==
    /\ agcall \in [AgCalls -> AgRecords]
    /\ agver \in 0 .. AgMaxVer /\ agcur \in Lists /\ agon \in BOOLEAN /\ agconf \in BOOLEAN
    /\ agtodo \in BOOLEAN /\ agoffs \in BOOLEAN
    /\ agwin \in [open : BOOLEAN, ver : 0 .. AgMaxVer, cur : Lists]
    /\ ~agon => agoffs

\* An open window is current, or somebody is under way to close it.
AgWindow ==
    agwin.open /\ ~agtodo =>
        \/ agwin.ver = agver /\ (agwin.cur = agcur \/ agoffs)
        \/ \E k \in AgCalls : AgCloses(agcall[k])

\* The inductive invariant of the admission.
AgInv == AgShape /\ (\A k \in AgCalls : AgFits(agcall[k])) /\ AgWindow

\* The bounds are numbers.
LEMMA AgLimits == AgMaxVer \in Nat \ {0} /\ AgMaxChanges \in Nat \ {0}
<1>1. {AgMaxVer, AgMaxChanges} \subseteq Nat \ {0}
  BY AgAssumption
<1>2. QED BY <1>1

\* The invariant says what the properties ask.
LEMMA AgInvMeans == AgInv => AgentCallsSound
<1> SUFFICES ASSUME AgInv PROVE AgentCallsSound
  OBVIOUS
<1>1. AgTypeOK
  BY DEF AgInv, AgShape, AgFits, AgTypeOK, AgRecords, AgAt
<1>2. AgNoStaleRun
  BY DEF AgInv, AgFits, AgNoStaleRun, AgAt
<1>3. AgWindowCurrent
  <2>1. \A k \in AgCalls : AgCloses(agcall[k]) =>
           /\ agcall[k].asked /\ AgAt(k) \in {"version", "switch", "list"}
           /\ agcall[k].ver # agver \/ agcall[k].cur # agcur
    BY DEF AgCloses, AgAt
  <2>2. QED BY <2>1 DEF AgInv, AgWindow, AgWindowCurrent
<1>4. QED BY <1>1, <1>2, <1>3 DEF AgentCallsSound

\* One call moves, and the owner does nothing: what keeps the invariant.
LEMMA AgMove ==
    ASSUME AgInv, NEW k \in AgCalls, NEW q \in AgRecords, AgFits(q),
           agcall' = [agcall EXCEPT ![k] = q], UNCHANGED <<agAuth, agtodo>>,
           \/ agwin' = NoWindow
           \/ agwin' = agwin /\ (AgCloses(agcall[k]) => AgCloses(q) \/ (agwin.ver = agver /\ agoffs))
           \/ agwin' = [open |-> TRUE, ver |-> q.ver, cur |-> q.cur] /\ q.pc = "version" /\ q.asked
    PROVE  AgInv'
<1>1. UNCHANGED <<agon, agver, agcur, agconf, agoffs, agtodo>>
  BY DEF agAuth
<1>2. /\ agcall' \in [AgCalls -> AgRecords] /\ agcall'[k] = q
      /\ \A j \in AgCalls \ {k} : agcall'[j] = agcall[j]
  BY DEF AgInv, AgShape
<1>3. agwin' \in [open : BOOLEAN, ver : 0 .. AgMaxVer, cur : Lists]
  <2>1. NoWindow \in [open : BOOLEAN, ver : 0 .. AgMaxVer, cur : Lists]
    BY AgLimits DEF NoWindow, Lists
  <2>2. [open |-> TRUE, ver |-> q.ver, cur |-> q.cur] \in [open : BOOLEAN, ver : 0 .. AgMaxVer, cur : Lists]
    BY DEF AgRecords
  <2>3. QED BY <2>1, <2>2 DEF AgInv, AgShape
<1>4. AgShape'
  BY <1>1, <1>2, <1>3 DEF AgInv, AgShape, AgRecords, Lists
<1>5. \A j \in AgCalls : AgFits(agcall[j])'
  BY <1>1, <1>2 DEF AgInv, AgFits
<1>6. AgWindow'
  <2>1. CASE agwin' = NoWindow
    BY <2>1 DEF AgWindow, NoWindow
  <2>2. CASE agwin' = agwin /\ (AgCloses(agcall[k]) => AgCloses(q) \/ (agwin.ver = agver /\ agoffs))
    <3> SUFFICES ASSUME agwin.open /\ ~agtodo
                 PROVE  (agwin.ver = agver /\ (agwin.cur = agcur \/ agoffs)) \/ \E j \in AgCalls : AgCloses(agcall[j])'
      BY <1>1, <2>2 DEF AgWindow
    <3>1. CASE agwin.ver = agver /\ (agwin.cur = agcur \/ agoffs)
      BY <3>1
    <3>2. ASSUME NEW j \in AgCalls, AgCloses(agcall[j])
          PROVE  (agwin.ver = agver /\ agoffs) \/ \E i \in AgCalls : AgCloses(agcall[i])'
      <4>1. CASE j # k
        BY <1>1, <1>2, <2>2, <3>2, <4>1 DEF AgCloses
      <4>2. CASE j = k /\ AgCloses(q)
        BY <1>1, <1>2, <2>2, <4>2 DEF AgCloses
      <4>3. QED BY <2>2, <3>2, <4>1, <4>2
    <3>3. QED BY <3>1, <3>2 DEF AgInv, AgWindow
  <2>3. CASE agwin' = [open |-> TRUE, ver |-> q.ver, cur |-> q.cur] /\ q.pc = "version" /\ q.asked
    <3>1. agwin'.ver = q.ver /\ agwin'.cur = q.cur
      BY <2>3
    <3>2. CASE q.ver = agver /\ q.cur = agcur
      BY <1>1, <3>1, <3>2 DEF AgWindow
    <3>3. CASE q.ver # agver \/ q.cur # agcur
      <4>1. AgCloses(agcall[k])'
        BY <1>1, <1>2, <2>3, <3>1, <3>3 DEF AgCloses
      <4>2. QED BY <4>1 DEF AgWindow
    <3>4. QED BY <3>2, <3>3
  <2>4. QED BY <2>1, <2>2, <2>3
<1>7. QED BY <1>4, <1>5, <1>6 DEF AgInv

\* An idle call fits, and closes nothing.
LEMMA AgIdle == NoAgCall \in AgRecords /\ AgFits(NoAgCall)
<1>1. QED BY AgLimits DEF NoAgCall, AgRecords, AgFits, Lists

\* A call moves: it is found, judged, let in, asked about, answered, checked and done.
LEMMA AgRequestStep ==
    ASSUME AgInv, NEW k \in AgCalls,
           \/ \E mode \in {"plain", "kept"} : AgCall(k, mode)
           \/ AgJudge(k) \/ AgEnter(k) \/ AgPark(k) \/ AgGate(k)
           \/ \E allow, window \in BOOLEAN : AgVerdict(k, allow, window)
           \/ AgAbandon(k) \/ AgVersion(k) \/ AgSwitch(k) \/ AgList(k) \/ AgDone(k)
    PROVE  AgInv'
<1> DEFINE c == agcall[k]
<1>1. c \in AgRecords /\ AgFits(c)
  BY DEF AgInv, AgShape
<1>2. agver \in 0 .. AgMaxVer /\ agcur \in Lists /\ agconf \in BOOLEAN /\ (~agon => agoffs)
  BY DEF AgInv, AgShape
<1> USE DEF AgAt, AgTo, AgEnd
<1>3. ASSUME NEW mode \in {"plain", "kept"}, AgCall(k, mode) PROVE AgInv'
  <2> DEFINE q == [NoAgCall EXCEPT !.pc = "found", !.mode = mode, !.ver = agver]
  <2>1. q \in AgRecords /\ q.pc = "found" /\ q.ver = agver
    BY <1>2, AgIdle DEF AgRecords
  <2>2. agver # 0 /\ agver \in Nat
    BY <1>2, <1>3 DEF AgCall
  <2>3. AgFits(q)
    BY <2>1, <2>2 DEF AgFits
  <2>4. agcall' = [agcall EXCEPT ![k] = q] /\ c.pc = "idle" /\ UNCHANGED <<agAuth, agwin, agtodo>>
    BY <1>3 DEF AgCall
  <2>5. ~AgCloses(c)
    BY <2>4 DEF AgCloses
  <2> HIDE DEF q
  <2>6. QED BY <2>1, <2>3, <2>4, <2>5, AgMove
<1>4. CASE AgJudge(k)
  <2> DEFINE q == [c EXCEPT !.pc = "judged", !.cur = agcur]
  <2>1. q \in AgRecords /\ AgFits(q) /\ c.pc = "found" /\ ~AgCloses(c)
    BY <1>1, <1>2, <1>4 DEF AgJudge, AgRecords, AgFits, AgCloses
  <2>2. UNCHANGED <<agAuth, agwin, agtodo>>
    BY <1>4 DEF AgJudge
  <2>3. CASE agcall' = [agcall EXCEPT ![k] = NoAgCall]
    BY <2>1, <2>2, <2>3, AgIdle, AgMove
  <2>4. CASE agcall' = [agcall EXCEPT ![k].pc = "judged", ![k].cur = agcur]
    <3>1. agcall' = [agcall EXCEPT ![k] = q]
      BY <2>4
    <3> HIDE DEF q
    <3>2. QED BY <2>1, <2>2, <3>1, AgMove
  <2>5. QED BY <1>4, <2>3, <2>4 DEF AgJudge
<1>5. CASE AgEnter(k)
  <2> DEFINE pc == IF agconf THEN "parking" ELSE "version"
             st == ~agconf /\ Outdated(k)
             q == [c EXCEPT !.pc = pc, !.asked = agconf, !.stale = st]
  <2>1. c.pc = "judged" /\ ~AgCloses(c)
    BY <1>5 DEF AgEnter, AgCloses
  <2>2. UNCHANGED <<agAuth, agwin, agtodo>>
    BY <1>5 DEF AgEnter
  <2>3. CASE agcall' = [agcall EXCEPT ![k] = NoAgCall]
    BY <2>1, <2>2, <2>3, AgIdle, AgMove
  <2>4. CASE agcall' = [agcall EXCEPT ![k].pc = pc, ![k].asked = agconf, ![k].stale = st]
    <3>1. agcall' = [agcall EXCEPT ![k] = q]
      BY <2>4
    <3>2. q \in AgRecords
      BY <1>1, <1>2 DEF AgRecords, Outdated
    <3>3. q.pc = pc /\ q.ver = c.ver /\ q.stale = st
      BY <1>1 DEF AgRecords
    <3>4. AgFits(q)
      <4>1. (q.stale => q.ver # agver) /\ (q.pc = "parking" => q.asked) /\ q.pc \in {"parking", "version"}
        BY <1>1, <3>3 DEF AgRecords, Outdated
      <4> HIDE DEF q
      <4>2. QED BY <1>1, <2>1, <3>3, <4>1 DEF AgFits
    <3> HIDE DEF q
    <3>5. QED BY <2>1, <2>2, <3>1, <3>2, <3>4, AgMove
  <2>5. QED BY <1>5, <2>3, <2>4 DEF AgEnter
<1>6. CASE AgPark(k)
  <2> DEFINE q == [c EXCEPT !.pc = "gate"]
  <2>1. c.pc = "parking" /\ ~AgCloses(c) /\ UNCHANGED <<agAuth, agwin, agtodo>>
    BY <1>6 DEF AgPark, AgCloses
  <2>2. CASE agcall' = [agcall EXCEPT ![k] = NoAgCall]
    BY <2>1, <2>2, AgIdle, AgMove
  <2>3. CASE agcall' = [agcall EXCEPT ![k].pc = "gate"]
    <3>1. agcall' = [agcall EXCEPT ![k] = q]
      BY <2>3
    <3>2. q \in AgRecords /\ AgFits(q)
      BY <1>1, <2>1 DEF AgRecords, AgFits
    <3> HIDE DEF q
    <3>3. QED BY <2>1, <3>1, <3>2, AgMove
  <2>4. QED BY <1>6, <2>2, <2>3 DEF AgPark
<1>7. CASE AgGate(k)
  <2> DEFINE pc == IF agwin.open THEN "version" ELSE "asking"
             st == agwin.open /\ Outdated(k)
             q == [c EXCEPT !.pc = pc, !.stale = st]
  <2>1. c.pc = "gate" /\ ~AgCloses(c) /\ c.asked /\ UNCHANGED <<agAuth, agwin, agtodo>>
    BY <1>1, <1>7 DEF AgGate, AgCloses, AgFits
  <2>2. agcall' = [agcall EXCEPT ![k] = q]
    BY <1>7 DEF AgGate
  <2>3. agwin.open \in BOOLEAN
    BY DEF AgInv, AgShape
  <2>4. q \in AgRecords
    BY <1>1, <2>3 DEF AgRecords, Outdated
  <2>5. q.pc = pc /\ q.ver = c.ver /\ q.stale = st /\ q.asked = c.asked
    BY <1>1 DEF AgRecords
  <2>6. AgFits(q)
    <3>1. (q.stale => q.ver # agver) /\ q.asked /\ q.pc \in {"asking", "version"}
      BY <1>1, <2>1, <2>5 DEF AgRecords, Outdated
    <3> HIDE DEF q
    <3>2. QED BY <1>1, <2>1, <2>5, <3>1 DEF AgFits
  <2> HIDE DEF q
  <2>7. QED BY <2>1, <2>2, <2>4, <2>6, AgMove
<1>8. ASSUME NEW allow \in BOOLEAN, NEW window \in BOOLEAN, AgVerdict(k, allow, window) PROVE AgInv'
  <2> DEFINE st == Outdated(k)
             q == [c EXCEPT !.pc = "version", !.stale = st]
  <2>1. c.pc = "asking" /\ ~AgCloses(c) /\ c.asked /\ UNCHANGED <<agAuth, agtodo>>
    BY <1>1, <1>8 DEF AgVerdict, AgCloses, AgFits
  <2>2. CASE agcall' = [agcall EXCEPT ![k] = NoAgCall] /\ agwin' = agwin
    BY <2>1, <2>2, AgIdle, AgMove
  <2>3. CASE /\ agcall' = [agcall EXCEPT ![k].pc = "version", ![k].stale = st]
             /\ agwin' = agwin \/ agwin' = [open |-> TRUE, ver |-> c.ver, cur |-> c.cur]
    <3>1. agcall' = [agcall EXCEPT ![k] = q]
      BY <2>3
    <3>2. q \in AgRecords
      BY <1>1 DEF AgRecords, Outdated
    <3>3. q.pc = "version" /\ q.ver = c.ver /\ q.cur = c.cur /\ q.stale = st /\ q.asked = c.asked
      BY <1>1 DEF AgRecords
    <3>4. AgFits(q)
      BY <1>1, <2>1, <3>3 DEF AgFits, Outdated
    <3>5. agwin' = agwin \/ agwin' = [open |-> TRUE, ver |-> q.ver, cur |-> q.cur]
      BY <2>3, <3>3
    <3> HIDE DEF q
    <3>6. q.pc = "version" /\ q.asked
      BY <2>1, <3>3
    <3>7. QED BY <2>1, <3>1, <3>2, <3>4, <3>5, <3>6, AgMove
  <2>4. QED BY <1>8, <2>2, <2>3 DEF AgVerdict
<1>9. CASE AgAbandon(k) \/ AgDone(k)
  <2>1. ~AgCloses(c) /\ agcall' = [agcall EXCEPT ![k] = NoAgCall] /\ UNCHANGED <<agAuth, agwin, agtodo>>
    BY <1>9 DEF AgAbandon, AgDone, AgCloses
  <2>2. QED BY <2>1, AgIdle, AgMove
<1>10. CASE AgVersion(k)
  <2> DEFINE q == [c EXCEPT !.pc = "switch"]
  <2>1. c.pc = "version" /\ UNCHANGED <<agAuth, agtodo>>
    BY <1>10 DEF AgVersion
  <2>2. CASE agcall' = [agcall EXCEPT ![k] = NoAgCall] /\ agwin' = NoWindow
    BY <2>1, <2>2, AgIdle, AgMove
  <2>3. CASE agver = c.ver /\ agcall' = [agcall EXCEPT ![k].pc = "switch"] /\ agwin' = agwin
    <3>1. agcall' = [agcall EXCEPT ![k] = q]
      BY <2>3
    <3>2. q \in AgRecords /\ q.pc = "switch" /\ q.ver = c.ver /\ q.cur = c.cur /\ q.asked = c.asked /\ q.stale = c.stale
      BY <1>1 DEF AgRecords
    <3>3. AgFits(q)
      BY <1>1, <2>1, <2>3, <3>2 DEF AgFits
    <3>4. AgCloses(c) => AgCloses(q)
      BY <2>1, <2>3, <3>2 DEF AgCloses
    <3> HIDE DEF q
    <3>5. QED BY <2>1, <2>3, <3>1, <3>2, <3>3, <3>4, AgMove
  <2>4. QED BY <1>10, <2>2, <2>3 DEF AgVersion
<1>11. CASE AgSwitch(k)
  <2> DEFINE q == [c EXCEPT !.pc = "list"]
  <2>1. c.pc = "switch" /\ UNCHANGED <<agAuth, agwin, agtodo>>
    BY <1>11 DEF AgSwitch
  <2>2. CASE ~agon /\ agcall' = [agcall EXCEPT ![k] = NoAgCall]
    <3>1. AgCloses(c) => agwin.ver = agver /\ agoffs
      BY <1>2, <2>1, <2>2 DEF AgCloses
    <3>2. QED BY <2>1, <2>2, <3>1, AgIdle, AgMove
  <2>3. CASE agcall' = [agcall EXCEPT ![k].pc = "list"]
    <3>1. agcall' = [agcall EXCEPT ![k] = q]
      BY <2>3
    <3>2. q \in AgRecords /\ q.pc = "list" /\ q.ver = c.ver /\ q.cur = c.cur /\ q.asked = c.asked /\ q.stale = c.stale
      BY <1>1 DEF AgRecords
    <3>3. AgFits(q)
      BY <1>1, <2>1, <3>2 DEF AgFits
    <3>4. AgCloses(c) => AgCloses(q)
      BY <2>1, <3>2 DEF AgCloses
    <3> HIDE DEF q
    <3>5. QED BY <2>1, <3>1, <3>2, <3>3, <3>4, AgMove
  <2>4. QED BY <1>11, <2>2, <2>3 DEF AgSwitch
<1>12. CASE AgList(k)
  <2> DEFINE q == [c EXCEPT !.pc = "run"]
  <2>1. c.pc = "list" /\ UNCHANGED <<agAuth, agtodo>>
    BY <1>12 DEF AgList
  <2>2. CASE agcall' = [agcall EXCEPT ![k] = NoAgCall] /\ agwin' = NoWindow
    BY <2>1, <2>2, AgIdle, AgMove
  <2>3. CASE agcur = c.cur /\ agcall' = [agcall EXCEPT ![k].pc = "run"] /\ agwin' = agwin
    <3>1. agcall' = [agcall EXCEPT ![k] = q]
      BY <2>3
    <3>2. q \in AgRecords /\ q.pc = "run" /\ q.ver = c.ver /\ q.stale = c.stale
      BY <1>1 DEF AgRecords
    <3>3. AgFits(q) /\ ~AgCloses(c)
      BY <1>1, <2>1, <2>3, <3>2 DEF AgFits, AgCloses
    <3> HIDE DEF q
    <3>4. QED BY <2>1, <2>3, <3>1, <3>2, <3>3, AgMove
  <2>4. QED BY <1>12, <2>2, <2>3 DEF AgList
<1>13. QED BY <1>3, <1>4, <1>5, <1>6, <1>7, <1>8, <1>9, <1>10, <1>11, <1>12

\* The owner changes something: a window for what was there waits to be revoked.
LEMMA AgOwnerStep ==
    ASSUME AgInv,
           \/ \E b \in BOOLEAN : AgSetAccess(b) \/ AgEdit(b) \/ AgSetConfirm(b)
           \/ \E list \in Lists : AgCurate(list)
           \/ AgRevoke
    PROVE  AgInv'
<1> USE AgLimits
<1>1. ASSUME NEW on \in BOOLEAN, AgSetAccess(on) PROVE AgInv'
  <2>1. /\ agver # 0 /\ on # agon /\ agon' = on /\ agoffs' = (agoffs \/ ~on)
        /\ agtodo' = (agtodo \/ ~on)
        /\ UNCHANGED <<agcall, agwin, agver, agcur, agconf>>
    BY <1>1 DEF AgSetAccess, AgChange
  <2>2. AgShape'
    BY <2>1 DEF AgInv, AgShape, AgRecords, Lists
  <2>3. \A k \in AgCalls : AgFits(agcall[k])'
    BY <2>1 DEF AgInv, AgFits
  <2>4. AgWindow'
    <3>1. CASE ~on
      BY <2>1, <3>1 DEF AgWindow
    <3>2. CASE on
      <4>1. agtodo' = agtodo /\ agoffs' = agoffs
        BY <2>1, <3>2 DEF AgInv, AgShape
      <4>2. QED BY <2>1, <4>1 DEF AgInv, AgWindow, AgCloses
    <3>3. QED BY <3>1, <3>2
  <2>5. QED BY <2>2, <2>3, <2>4 DEF AgInv
<1>2. ASSUME NEW kept \in BOOLEAN, AgEdit(kept) PROVE AgInv'
  <2>1. /\ agver \in 1 .. AgMaxVer - 1 /\ agver' = IF kept THEN agver + 1 ELSE 0
        /\ agon' = (agon /\ kept) /\ agoffs' = (agoffs \/ ~kept) /\ agtodo' = TRUE
        /\ UNCHANGED <<agcall, agwin, agcur, agconf>>
    BY <1>2 DEF AgEdit, AgChange
  <2>2. agver' \in 0 .. AgMaxVer
    BY <2>1
  <2>3. AgShape'
    BY <2>1, <2>2 DEF AgInv, AgShape, AgRecords, Lists
  <2>4. ASSUME NEW k \in AgCalls PROVE AgFits(agcall[k])'
    <3>1. AgFits(agcall[k]) /\ agcall[k].ver \in Nat
      BY DEF AgInv, AgShape, AgRecords
    <3>2. agver # 0 /\ agver \in Nat /\ (agver' = 0 \/ agver' > agver)
      BY <2>1
    <3>3. QED BY <2>1, <3>1, <3>2 DEF AgFits
  <2>5. AgWindow'
    BY <2>1 DEF AgWindow
  <2>6. QED BY <2>3, <2>4, <2>5 DEF AgInv
<1>3. ASSUME NEW list \in Lists, AgCurate(list) PROVE AgInv'
  <2>1. agcur' = list /\ agtodo' = TRUE /\ UNCHANGED <<agcall, agwin, agon, agver, agconf, agoffs>>
    BY <1>3 DEF AgCurate, AgChange
  <2>2. QED BY <2>1 DEF AgInv, AgShape, AgFits, AgWindow, AgRecords, Lists
<1>4. ASSUME NEW on \in BOOLEAN, AgSetConfirm(on) PROVE AgInv'
  <2>1. agconf' = on /\ UNCHANGED <<agcall, agwin, agon, agver, agcur, agoffs>> /\ (agtodo' = (agtodo \/ FALSE))
    BY <1>4 DEF AgSetConfirm, AgChange
  <2>2. agtodo' = agtodo
    BY <2>1 DEF AgInv, AgShape
  <2>3. QED BY <2>1, <2>2 DEF AgInv, AgShape, AgFits, AgWindow, AgRecords, Lists, AgCloses
<1>5. CASE AgRevoke
  <2>1. /\ agtodo' = FALSE /\ agwin' = NoWindow
        /\ agcall' = [k \in AgCalls |-> IF AgAt(k) = "asking" THEN NoAgCall ELSE agcall[k]]
        /\ UNCHANGED <<agon, agver, agcur, agconf, agoffs, agchanges>>
    BY <1>5 DEF AgRevoke, agAuth
  <2>2. \A k \in AgCalls : agcall'[k] \in AgRecords /\ AgFits(agcall'[k])
    <3> HIDE DEF NoAgCall
    <3>1. QED BY <2>1, AgIdle DEF AgInv, AgShape
  <2>3. agcall' \in [AgCalls -> AgRecords]
    BY <2>1, <2>2
  <2>4. NoWindow \in [open : BOOLEAN, ver : 0 .. AgMaxVer, cur : Lists]
    BY DEF NoWindow, Lists
  <2>5. AgShape'
    BY <2>1, <2>3, <2>4 DEF AgInv, AgShape, AgRecords, Lists
  <2>6. \A k \in AgCalls : AgFits(agcall[k])'
    BY <2>1, <2>2 DEF AgFits
  <2>7. AgWindow'
    BY <2>1 DEF AgWindow, NoWindow
  <2>8. QED BY <2>5, <2>6, <2>7 DEF AgInv
<1>6. QED BY <1>1, <1>2, <1>3, <1>4, <1>5

\* daemon/mod.rs: no call runs, and no window stands, on an answer given to another
\* version of the connection, whatever the owner does meanwhile.
THEOREM AgentCallsHold == AgSpec => []AgentCallsSound
<1>1. AgInit => AgInv
  <2> SUFFICES ASSUME AgInit PROVE AgInv
    OBVIOUS
  <2>1. agcall \in [AgCalls -> AgRecords] /\ \A k \in AgCalls : agcall[k] = NoAgCall
    BY AgIdle DEF AgInit
  <2>2. NoWindow \in [open : BOOLEAN, ver : 0 .. AgMaxVer, cur : Lists] /\ ~NoWindow.open
    BY AgLimits DEF NoWindow, Lists
  <2>3. AgShape
    <3>1. agver \in 0 .. AgMaxVer
      BY AgLimits DEF AgInit
    <3>2. agwin \in [open : BOOLEAN, ver : 0 .. AgMaxVer, cur : Lists]
      BY <2>2 DEF AgInit
    <3>3. QED BY <2>1, <3>1, <3>2 DEF AgInit, AgShape
  <2>4. AgWindow
    BY <2>2 DEF AgInit, AgWindow
  <2>5. QED BY <2>1, <2>3, <2>4, AgIdle DEF AgInv
<1>2. AgInv /\ [AgNext]_agVars => AgInv'
  <2> SUFFICES ASSUME AgInv, [AgNext]_agVars PROVE AgInv'
    OBVIOUS
  <2>1. CASE UNCHANGED agVars
    BY <2>1 DEF agVars, agAuth, AgInv, AgShape, AgFits, AgWindow, AgCloses
  <2>2. CASE AgNext
    BY <2>2, AgRequestStep, AgOwnerStep DEF AgNext
  <2>3. QED BY <2>1, <2>2
<1>3. QED BY <1>1, <1>2, AgInvMeans, PTL DEF AgSpec

----------------------------------------------------------------------------
(* A request at a direct endpoint                                          *)

\* A request as it can be.
HeRecords == [pc : {"idle", "known", "screened", "asking", "admitted", "current", "held", "orphan"} \cup InSession,
              kind : AllKinds, ver : 0 .. HeMaxVer, cur : BOOLEAN, asked : BOOLEAN]

\* The requests that upload.
HeUp == {r \in HeReqs : Pc(r) \in Uploading}

\* The type of each variable; a deleted connection has neither an endpoint nor access.
HeShape ==
    /\ herq \in [HeReqs -> HeRecords]
    /\ heep \in {"live", "expired", "gone"} /\ hever \in 0 .. HeMaxVer
    /\ heon \in BOOLEAN /\ hecur \in BOOLEAN /\ heconf \in BOOLEAN /\ hewin \in BOOLEAN
    /\ hetodo \subseteq {"conn", "ep", "win"}
    /\ hever = 0 => heep = "gone" /\ ~heon
    /\ \A r \in HeReqs : Pc(r) = "asking" => herq[r].asked

\* The accounts: permits and sessions are those of the requests that should have them.
HeAccounts ==
    /\ heheld \in [own : Nat, all : Nat]
    /\ heheld.own <= heheld.all /\ heheld.own <= HeUploads /\ heheld.all <= HeAllUploads
    /\ IsFiniteSet(HeUp) /\ heheld.own = Cardinality(HeUp)
    /\ hesess = {r \in HeReqs : Pc(r) \in InSession} /\ heclosed \subseteq hesess
    /\ IsFiniteSet(hesess) /\ Cardinality(hesess) <= HeMaxSess

\* What a withdrawal must not leave alone: a request past its second reading while the
\* authority is gone, or past the third while the connection is another.
HeCurrent(q) ==
    /\ q.pc \in InSession \ {"registered"} => heep # "gone" /\ heon /\ hever # 0
    /\ q.pc \in Dispatched \cup {"fresh"} => hever = q.ver

\* A withdrawal reaches every request it should stop.
HeReaches == \A r \in HeReqs : r \in heclosed \/ hetodo \cap {"conn", "ep"} # {} \/ HeCurrent(herq[r])

\* With the tool off, an open window is owed a sweep, or a request will close it at once.
HeWindow ==
    hewin => heon \/ "win" \in hetodo \/ \E r \in HeReqs : herq[r].asked /\ Pc(r) = "admitted"

\* The inductive invariant of the endpoint.
HeInv == HeShape /\ HeAccounts /\ HeReaches /\ HeWindow

\* The bounds are numbers.
LEMMA HeLimits ==
    /\ HeUploads \in Nat \ {0} /\ HeAllUploads \in Nat \ {0} /\ HeMaxSess \in Nat \ {0}
    /\ HeMaxVer \in Nat \ {0} /\ HeMaxChanges \in Nat \ {0} /\ HeKinds \subseteq AllKinds
<1>1. {HeUploads, HeAllUploads, HeMaxSess, HeMaxVer, HeMaxChanges} \subseteq Nat \ {0} /\ HeKinds \subseteq AllKinds
  BY HeAssumption
<1>2. QED BY <1>1

\* The invariant says what the properties ask.
LEMMA HeInvMeans == HeInv => HttpEndpointSound
<1> SUFFICES ASSUME HeInv PROVE HttpEndpointSound
  OBVIOUS
<1>1. HeTypeOK
  <2>1. heheld.own \in 0 .. HeUploads /\ heheld.all \in heheld.own .. HeAllUploads
    BY HeLimits DEF HeInv, HeAccounts
  <2>2. QED BY <2>1 DEF HeInv, HeShape, HeAccounts, HeTypeOK, HeRecords, HeUp
<1>2. HeReached
  BY DEF HeInv, HeReaches, HeCurrent, HeReached, Pc
<1>3. HeNoStaleWindow
  BY DEF HeInv, HeWindow, HeNoStaleWindow
<1>4. QED BY <1>1, <1>2, <1>3 DEF HttpEndpointSound

\* What one request changes in the accounts of permits and of sessions.
HeHeldAfter(r, q) ==
    IF q.pc \in Uploading
    THEN IF Pc(r) \in Uploading THEN heheld' = heheld
         ELSE /\ heheld' = [own |-> heheld.own + 1, all |-> heheld.all + 1]
              /\ heheld.all < HeAllUploads /\ heheld.own < HeUploads
    ELSE heheld' = IF Pc(r) \in Uploading THEN Released ELSE heheld
HeSessAfter(r, q) ==
    IF q.pc \in InSession
    THEN hesess' = hesess \cup {r} /\ heclosed' = heclosed /\ (r \in hesess \/ Cardinality(hesess) < HeMaxSess)
    ELSE hesess' = hesess \ {r} /\ heclosed' = heclosed \ {r}

\* The accounts still fit when one request moves and its permits and session with it.
LEMMA HeAccountsMove ==
    ASSUME HeShape, HeAccounts, NEW r \in HeReqs, NEW q \in HeRecords,
           herq' = [herq EXCEPT ![r] = q], HeHeldAfter(r, q), HeSessAfter(r, q)
    PROVE  HeAccounts'
<1>1. herq'[r] = q /\ \A j \in HeReqs \ {r} : herq'[j] = herq[j]
  BY DEF HeShape
<1>2. /\ HeUp' = {j \in HeReqs : herq'[j].pc \in Uploading}
      /\ HeUp = {j \in HeReqs : herq[j].pc \in Uploading}
  BY DEF HeUp, Pc
<1>3. IsFiniteSet(HeUp) /\ heheld.own = Cardinality(HeUp) /\ heheld.own \in Nat /\ heheld.all \in Nat
      /\ heheld \in [own : Nat, all : Nat] /\ heheld.own <= heheld.all
      /\ heheld.own <= HeUploads /\ heheld.all <= HeAllUploads
  BY DEF HeAccounts
<1>4. /\ heheld' \in [own : Nat, all : Nat]
      /\ heheld'.own <= heheld'.all /\ heheld'.own <= HeUploads /\ heheld'.all <= HeAllUploads
      /\ IsFiniteSet(HeUp') /\ heheld'.own = Cardinality(HeUp')
  <2>1. CASE q.pc \in Uploading /\ Pc(r) \in Uploading
    <3>1. HeUp' = HeUp
      BY <1>1, <1>2, <2>1 DEF Pc
    <3>2. heheld' = heheld
      BY <2>1 DEF HeHeldAfter
    <3>3. QED BY <1>3, <3>1, <3>2
  <2>2. CASE q.pc \in Uploading /\ Pc(r) \notin Uploading
    <3>1. HeUp' = HeUp \cup {r} /\ r \notin HeUp
      BY <1>1, <1>2, <2>2 DEF Pc
    <3>2. /\ heheld' = [own |-> heheld.own + 1, all |-> heheld.all + 1]
          /\ heheld.all < HeAllUploads /\ heheld.own < HeUploads
      BY <2>2 DEF HeHeldAfter
    <3>3. Cardinality(HeUp \cup {r}) = Cardinality(HeUp) + 1 /\ IsFiniteSet(HeUp \cup {r})
      BY <1>3, <3>1, FS_AddElement
    <3>4. heheld'.own = Cardinality(HeUp')
      BY <1>3, <3>1, <3>2, <3>3
    <3>5. QED BY <1>3, <3>1, <3>2, <3>3, <3>4, HeLimits
  <2>3. CASE q.pc \notin Uploading /\ Pc(r) \in Uploading
    <3>1. HeUp' = HeUp \ {r} /\ r \in HeUp
      BY <1>1, <1>2, <2>3 DEF Pc
    <3>2. heheld' = [own |-> heheld.own - 1, all |-> heheld.all - 1]
      BY <2>3 DEF HeHeldAfter, Released
    <3>3. Cardinality(HeUp \ {r}) = Cardinality(HeUp) - 1 /\ IsFiniteSet(HeUp \ {r})
      BY <1>3, <3>1, FS_RemoveElement
    <3>4. Cardinality(HeUp \ {r}) \in Nat
      BY <3>3, FS_CardinalityType
    <3>5. heheld'.own = Cardinality(HeUp')
      BY <1>3, <3>1, <3>2, <3>3
    <3>6. QED BY <1>3, <3>1, <3>2, <3>3, <3>4, <3>5, HeLimits
  <2>4. CASE q.pc \notin Uploading /\ Pc(r) \notin Uploading
    <3>1. HeUp' = HeUp
      BY <1>1, <1>2, <2>4 DEF Pc
    <3>2. heheld' = heheld
      BY <2>4 DEF HeHeldAfter
    <3>3. QED BY <1>3, <3>1, <3>2
  <2>5. QED BY <2>1, <2>2, <2>3, <2>4
<1>5. hesess = {j \in HeReqs : herq[j].pc \in InSession} /\ heclosed \subseteq hesess
      /\ IsFiniteSet(hesess) /\ Cardinality(hesess) <= HeMaxSess /\ Cardinality(hesess) \in Nat
  BY FS_CardinalityType DEF HeAccounts, Pc
<1>6. /\ hesess' = {j \in HeReqs : herq'[j].pc \in InSession} /\ heclosed' \subseteq hesess'
      /\ IsFiniteSet(hesess') /\ Cardinality(hesess') <= HeMaxSess
  <2>1. CASE q.pc \in InSession
    <3>1. hesess' = hesess \cup {r} /\ heclosed' = heclosed /\ (r \in hesess \/ Cardinality(hesess) < HeMaxSess)
      BY <2>1 DEF HeSessAfter
    <3>2. hesess' = {j \in HeReqs : herq'[j].pc \in InSession} /\ heclosed' \subseteq hesess'
      BY <1>1, <1>5, <2>1, <3>1
    <3>3. CASE r \in hesess
      <4>1. hesess' = hesess
        BY <3>1, <3>3
      <4>2. QED BY <1>5, <3>2, <4>1
    <3>4. CASE r \notin hesess
      <4>1. Cardinality(hesess \cup {r}) = Cardinality(hesess) + 1 /\ IsFiniteSet(hesess \cup {r})
        BY <1>5, <3>4, FS_AddElement
      <4>2. Cardinality(hesess') = Cardinality(hesess) + 1 /\ IsFiniteSet(hesess')
        BY <3>1, <4>1
      <4>3. QED BY <1>5, <3>1, <3>2, <3>4, <4>2, HeLimits
    <3>5. QED BY <3>3, <3>4
  <2>2. CASE q.pc \notin InSession
    <3>1. hesess' = hesess \ {r} /\ heclosed' = heclosed \ {r}
      BY <2>2 DEF HeSessAfter
    <3>2. hesess' = {j \in HeReqs : herq'[j].pc \in InSession} /\ heclosed' \subseteq hesess'
      BY <1>1, <1>5, <2>2, <3>1
    <3>3. hesess' \in SUBSET hesess
      BY <3>1
    <3>4. IsFiniteSet(hesess') /\ Cardinality(hesess') <= Cardinality(hesess) /\ Cardinality(hesess') \in Nat
      BY <1>5, <3>3, FS_Subset, FS_CardinalityType
    <3>5. QED BY <1>5, <3>2, <3>4, HeLimits
  <2>3. QED BY <2>1, <2>2
<1>7. QED BY <1>4, <1>6 DEF HeAccounts, Pc

\* A request moves, and the owner does nothing: what keeps the invariant.
LEMMA HeMove ==
    ASSUME HeInv, NEW r \in HeReqs, NEW q \in HeRecords,
           herq' = [herq EXCEPT ![r] = q],
           UNCHANGED <<heep, heon, hever, hecur, heconf, hetodo>>,
           HeHeldAfter(r, q), HeSessAfter(r, q),
           q.pc = "asking" => q.asked,
           q.pc \in InSession => r \in heclosed \/ hetodo \cap {"conn", "ep"} # {} \/ HeCurrent(q),
           \/ hewin' = FALSE
           \/ hewin' = hewin /\ (herq[r].asked /\ Pc(r) = "admitted" => heon \/ "win" \in hetodo)
           \/ hewin' = TRUE /\ q.pc = "admitted" /\ q.asked
    PROVE  HeInv'
<1>1. herq' \in [HeReqs -> HeRecords] /\ herq'[r] = q /\ \A j \in HeReqs \ {r} : herq'[j] = herq[j]
  BY DEF HeInv, HeShape
<1>2. HeShape'
  <2>1. \A j \in HeReqs : herq'[j].pc = "asking" => herq'[j].asked
    BY <1>1 DEF HeInv, HeShape, Pc
  <2>2. hewin' \in BOOLEAN
    BY DEF HeInv, HeShape
  <2>3. QED BY <1>1, <2>1, <2>2 DEF HeInv, HeShape, Pc, HeRecords, InSession, Dispatched, AllKinds
<1>3. HeAccounts'
  BY HeAccountsMove DEF HeInv
<1>4. HeReaches'
  <2>1. \A j \in HeReqs : HeCurrent(herq[j])' <=> HeCurrent(herq'[j])
    BY DEF HeCurrent, InSession, Dispatched
  <2>2. ASSUME NEW j \in HeReqs
        PROVE  j \in heclosed' \/ hetodo' \cap {"conn", "ep"} # {} \/ HeCurrent(herq'[j])
    <3>1. CASE j # r
      <4>1. j \in heclosed => j \in heclosed'
        BY <3>1 DEF HeSessAfter
      <4>2. QED BY <1>1, <3>1, <4>1 DEF HeInv, HeReaches
    <3>2. CASE j = r /\ q.pc \in InSession
      BY <1>1, <3>2 DEF HeSessAfter
    <3>3. CASE j = r /\ q.pc \notin InSession
      <4>1. HeCurrent(q)
        BY <3>3 DEF HeCurrent, InSession, Dispatched
      <4>2. QED BY <1>1, <3>3, <4>1
    <3>4. QED BY <3>1, <3>2, <3>3
  <2>3. QED BY <2>1, <2>2 DEF HeReaches
<1>5. HeWindow'
  <2>1. CASE hewin' = FALSE
    BY <2>1 DEF HeWindow
  <2>2. CASE hewin' = hewin /\ (herq[r].asked /\ Pc(r) = "admitted" => heon \/ "win" \in hetodo)
    BY <1>1, <2>2 DEF HeInv, HeWindow, Pc
  <2>3. CASE q.pc = "admitted" /\ q.asked
    BY <1>1, <2>3 DEF HeWindow, Pc
  <2>4. QED BY <2>1, <2>2, <2>3
<1>6. QED BY <1>2, <1>3, <1>4, <1>5 DEF HeInv

\* A request that leaves takes what it holds with it.
LEMMA HeLeaves ==
    ASSUME HeInv, NEW r \in HeReqs, NEW rest \in {NoReq, [NoReq EXCEPT !.pc = "orphan"]}, HeEnds(r, rest),
           UNCHANGED <<heep, heon, hever, hecur, heconf, hetodo>>,
           hewin' = FALSE \/ (hewin' = hewin /\ ~(herq[r].asked /\ Pc(r) = "admitted"))
    PROVE  HeInv'
<1>1. rest \in HeRecords /\ rest.pc \in {"idle", "orphan"}
  <2>1. NoReq \in HeRecords /\ NoReq.pc = "idle"
    BY HeLimits DEF NoReq, HeRecords, AllKinds
  <2>2. [NoReq EXCEPT !.pc = "orphan"] \in HeRecords /\ [NoReq EXCEPT !.pc = "orphan"].pc = "orphan"
    BY <2>1 DEF HeRecords
  <2> QED BY <2>1, <2>2
<1>2. HeHeldAfter(r, rest) /\ HeSessAfter(r, rest) /\ herq' = [herq EXCEPT ![r] = rest]
  BY <1>1 DEF HeEnds, HeHeldAfter, HeSessAfter, Uploading, InSession, Dispatched
<1>3. QED BY <1>1, <1>2, HeMove DEF InSession, Dispatched

\* A refusal before the request holds anything.
LEMMA HeTurnsAway ==
    ASSUME HeInv, NEW r \in HeReqs, herq' = [herq EXCEPT ![r] = NoReq], UNCHANGED heUse,
           Pc(r) \notin Uploading \cup InSession,
           UNCHANGED <<heep, heon, hever, hecur, heconf, hetodo>>,
           hewin' = FALSE \/ (hewin' = hewin /\ ~(herq[r].asked /\ Pc(r) = "admitted"))
    PROVE  HeInv'
<1>1. r \notin hesess /\ r \notin heclosed
  BY DEF HeInv, HeAccounts
<1>2. HeEnds(r, NoReq)
  BY <1>1 DEF HeEnds, heUse
<1>3. QED BY <1>2, HeLeaves

\* A request comes in, is screened and asked about, before it has any session.
LEMMA HeAdmissionStep ==
    ASSUME HeInv, NEW r \in HeReqs,
           \/ \E kind \in HeKinds : HeAuthenticate(r, kind)
           \/ HeScreen(r) \/ HeDecide(r)
           \/ \E allow, window \in BOOLEAN : HeVerdict(r, allow, window)
           \/ HeRevalidate(r) \/ HeHold(r)
    PROVE  HeInv'
<1> DEFINE c == herq[r]
<1>1. /\ c \in HeRecords /\ hever \in 0 .. HeMaxVer /\ hecur \in BOOLEAN /\ heconf \in BOOLEAN
      /\ r \in hesess <=> c.pc \in InSession
  BY DEF HeInv, HeShape, HeAccounts, Pc
<1> DEFINE Settles(q, from) ==
        /\ c.pc = from /\ q \in HeRecords /\ herq' = [herq EXCEPT ![r] = q] /\ UNCHANGED <<heheld, hesess, heclosed>>
        /\ q.pc \in {"known", "screened", "asking", "admitted", "current"}
        /\ from \in {"idle", "known", "screened", "asking", "admitted"}
        /\ q.pc = "asking" => q.asked
<1>2. ASSUME NEW q, NEW from, Settles(q, from), UNCHANGED <<heep, heon, hever, hecur, heconf, hetodo>>,
             \/ hewin' = hewin /\ (from = "admitted" => heon)
             \/ hewin' = TRUE /\ q.pc = "admitted" /\ q.asked
      PROVE  HeInv'
  <2>1. HeHeldAfter(r, q)
    BY <1>2 DEF HeHeldAfter, Uploading, Pc
  <2>2. HeSessAfter(r, q)
    <3>1. r \notin hesess /\ r \notin heclosed
      BY <1>1, <1>2 DEF InSession, Dispatched, HeInv, HeAccounts
    <3>2. QED BY <1>2, <3>1 DEF HeSessAfter, InSession, Dispatched
  <2>3. QED BY <1>2, <2>1, <2>2, HeMove DEF InSession, Dispatched, Pc
<1>3. ASSUME NEW kind \in HeKinds, HeAuthenticate(r, kind) PROVE HeInv'
  <2> DEFINE q == [NoReq EXCEPT !.pc = "known", !.kind = kind]
  <2>1. q \in HeRecords /\ q.pc = "known"
    <3>1. NoReq \in HeRecords /\ kind \in AllKinds
      BY HeLimits DEF NoReq, HeRecords, AllKinds
    <3> HIDE DEF NoReq
    <3>2. QED BY <3>1 DEF HeRecords
  <2>2. UNCHANGED <<heep, heon, hever, hecur, heconf, hetodo, hewin>>
    BY <1>3 DEF HeAuthenticate, heAuth
  <2>3. c.pc = "idle" /\ herq' = [herq EXCEPT ![r] = q] /\ UNCHANGED <<heheld, hesess, heclosed>>
    BY <1>3 DEF HeAuthenticate, heUse, Pc
  <2> HIDE DEF q
  <2>4. Settles(q, "idle")
    BY <2>1, <2>3
  <2>5. QED BY <1>2, <2>2, <2>4
<1>4. CASE HeScreen(r)
  <2> DEFINE q == [c EXCEPT !.pc = "screened", !.ver = hever]
  <2>1. q \in HeRecords /\ q.pc = "screened"
    BY <1>1 DEF HeRecords
  <2>2. UNCHANGED <<heep, heon, hever, hecur, heconf, hetodo, hewin>> /\ c.pc = "known" /\ UNCHANGED heUse
        /\ UNCHANGED <<heheld, hesess, heclosed>>
    BY <1>4 DEF HeScreen, heAuth, Pc, heUse
  <2>3. CASE herq' = [herq EXCEPT ![r] = NoReq]
    BY <2>2, <2>3, HeTurnsAway DEF Pc, Uploading, InSession, Dispatched
  <2>4. CASE herq' = [herq EXCEPT ![r].pc = "screened", ![r].ver = hever]
    <3>1. herq' = [herq EXCEPT ![r] = q]
      BY <2>4
    <3> HIDE DEF q
    <3>2. Settles(q, "known")
      BY <2>1, <2>2, <3>1
    <3>3. QED BY <1>2, <2>2, <3>2
  <2>5. QED BY <1>4, <2>3, <2>4 DEF HeScreen
<1>5. CASE HeDecide(r)
  <2> DEFINE ask == heconf /\ c.kind # "leg"
             q == [c EXCEPT !.cur = hecur, !.asked = ask, !.pc = IF ask THEN "asking" ELSE "admitted"]
  <2>1. q \in HeRecords /\ q.asked = ask /\ q.pc = IF ask THEN "asking" ELSE "admitted"
    BY <1>1 DEF HeRecords
  <2>2. UNCHANGED <<heep, heon, hever, hecur, heconf, hetodo, hewin>> /\ c.pc = "screened" /\ UNCHANGED heUse
        /\ UNCHANGED <<heheld, hesess, heclosed>>
    BY <1>5 DEF HeDecide, heAuth, Pc, heUse
  <2>3. CASE herq' = [herq EXCEPT ![r] = NoReq]
    BY <2>2, <2>3, HeTurnsAway DEF Pc, Uploading, InSession, Dispatched
  <2>4. CASE herq' = [herq EXCEPT ![r] = q]
    <3> HIDE DEF q, ask
    <3>1. (q.pc = "asking" => q.asked) /\ q.pc \in {"asking", "admitted"}
      <4>1. CASE ask
        BY <2>1, <4>1
      <4>2. CASE ~ask
        BY <2>1, <4>2
      <4>3. QED BY <4>1, <4>2
    <3>2. Settles(q, "screened")
      BY <2>1, <2>2, <2>4, <3>1
    <3>3. QED BY <1>2, <2>2, <3>2
  <2>5. QED BY <1>5, <2>3, <2>4 DEF HeDecide
<1>6. ASSUME NEW allow \in BOOLEAN, NEW window \in BOOLEAN, HeVerdict(r, allow, window) PROVE HeInv'
  <2> DEFINE q == [c EXCEPT !.pc = "admitted"]
  <2>1. q \in HeRecords /\ q.pc = "admitted" /\ q.asked = c.asked
    BY <1>1 DEF HeRecords
  <2>2. UNCHANGED <<heep, heon, hever, hecur, heconf, hetodo>> /\ c.pc = "asking" /\ UNCHANGED heUse
        /\ UNCHANGED <<heheld, hesess, heclosed>>
    BY <1>6 DEF HeVerdict, Pc, heUse
  <2>3. c.asked
    BY <2>2 DEF HeInv, HeShape, Pc
  <2>4. hewin' = (hewin \/ window) /\ herq' = [herq EXCEPT ![r] = IF allow THEN [@ EXCEPT !.pc = "admitted"] ELSE NoReq]
        /\ (IF hewin THEN allow /\ ~window ELSE window => allow)
    BY <1>6 DEF HeVerdict
  <2>5. CASE ~allow
    <3>1. hewin' = hewin
      BY <2>4, <2>5 DEF HeInv, HeShape
    <3>2. QED BY <2>2, <2>4, <2>5, <3>1, HeTurnsAway DEF Pc, Uploading, InSession, Dispatched
  <2>6. CASE allow
    <3>1. herq' = [herq EXCEPT ![r] = q]
      BY <2>4, <2>6
    <3>2. hewin' = hewin \/ hewin' = TRUE
      BY <2>4 DEF HeInv, HeShape
    <3> HIDE DEF q
    <3>3. Settles(q, "asking") /\ q.asked
      BY <2>1, <2>2, <2>3, <3>1
    <3>4. QED BY <1>2, <2>1, <2>2, <3>2, <3>3
  <2>7. QED BY <2>5, <2>6
<1>7. CASE HeRevalidate(r)
  <2> DEFINE q == [c EXCEPT !.pc = "current", !.cur = FALSE]
  <2>1. q \in HeRecords /\ q.pc = "current"
    BY <1>1 DEF HeRecords
  <2>2. UNCHANGED <<heep, heon, hever, hecur, heconf, hetodo>> /\ c.pc = "admitted" /\ UNCHANGED heUse
        /\ UNCHANGED <<heheld, hesess, heclosed>>
    BY <1>7 DEF HeRevalidate, Pc, heUse
  <2>3. CASE HeRevokeIfAsked(r) /\ herq' = [herq EXCEPT ![r] = NoReq]
    <3>1. hewin' = FALSE \/ (hewin' = hewin /\ ~c.asked)
      BY <1>1, <2>3 DEF HeRevokeIfAsked, HeRecords, HeInv, HeShape
    <3>2. QED BY <2>2, <2>3, <3>1, HeTurnsAway DEF Pc, Uploading, InSession, Dispatched
  <2>4. CASE heon /\ herq' = [herq EXCEPT ![r].pc = "current", ![r].cur = FALSE] /\ hewin' = hewin
    <3>1. herq' = [herq EXCEPT ![r] = q]
      BY <2>4
    <3> HIDE DEF q
    <3>2. Settles(q, "admitted")
      BY <2>1, <2>2, <3>1
    <3>3. QED BY <1>2, <2>2, <2>4, <3>2
  <2>5. QED BY <1>7, <2>3, <2>4 DEF HeRevalidate, Valid
<1>8. CASE HeHold(r)
  <2> DEFINE q == [c EXCEPT !.pc = "held"]
  <2>1. q \in HeRecords /\ q.pc = "held"
    BY <1>1 DEF HeRecords
  <2>2. UNCHANGED <<heep, heon, hever, hecur, heconf, hetodo, hewin, hesess, heclosed>> /\ c.pc = "current"
    BY <1>8 DEF HeHold, Pc, heAuth
  <2>3. CASE heheld' = heheld /\ herq' = [herq EXCEPT ![r] = NoReq]
    BY <2>2, <2>3, HeTurnsAway DEF Pc, Uploading, InSession, Dispatched, heUse
  <2>4. CASE /\ heheld' = [own |-> heheld.own + 1, all |-> heheld.all + 1]
             /\ heheld.all < HeAllUploads /\ heheld.own < HeUploads
             /\ herq' = [herq EXCEPT ![r].pc = "held"]
    <3>1. herq' = [herq EXCEPT ![r] = q]
      BY <2>4
    <3> HIDE DEF q
    <3>2. HeHeldAfter(r, q)
      BY <2>1, <2>2, <2>4 DEF HeHeldAfter, Uploading, Pc
    <3>3. r \notin hesess /\ r \notin heclosed
      BY <1>1, <2>2 DEF InSession, Dispatched, HeInv, HeAccounts
    <3>4. HeSessAfter(r, q)
      BY <2>1, <2>2, <3>3 DEF HeSessAfter, InSession, Dispatched
    <3>5. QED BY <2>1, <2>2, <3>1, <3>2, <3>4, HeMove DEF InSession, Dispatched, Pc
  <2>5. QED BY <1>8, <2>3, <2>4 DEF HeHold, HeGoto
<1>9. QED BY <1>3, <1>4, <1>5, <1>6, <1>7, <1>8

\* A request in its session goes on, unless what is read again stops it.
LEMMA HeGoesOn ==
    ASSUME HeInv, NEW r \in HeReqs, NEW q \in HeRecords,
           herq' = [herq EXCEPT ![r] = q], UNCHANGED <<heUse, hewin>>,
           UNCHANGED <<heep, heon, hever, hecur, heconf, hetodo>>,
           Pc(r) \in InSession, q.pc \in InSession, Pc(r) \in Uploading <=> q.pc \in Uploading,
           HeCurrent(herq[r]) => HeCurrent(q)
    PROVE  HeInv'
<1>1. r \in hesess /\ hesess = hesess \cup {r}
  BY DEF HeInv, HeAccounts
<1>2. HeHeldAfter(r, q) /\ HeSessAfter(r, q)
  BY <1>1 DEF HeHeldAfter, HeSessAfter, heUse
<1>3. r \in heclosed \/ hetodo \cap {"conn", "ep"} # {} \/ HeCurrent(q)
  BY DEF HeInv, HeReaches
<1>4. QED BY <1>2, <1>3, HeMove DEF InSession, Dispatched

\* A request registers, uploads, is read again and dispatched, and ends.
LEMMA HeSessionStep ==
    ASSUME HeInv, NEW r \in HeReqs,
           \/ \E b \in BOOLEAN : HeUpload(r, b) \/ HeDialed(r, b)
           \/ HeRegister(r) \/ HeRecheck(r) \/ HeInterrupted(r) \/ HeDropped(r)
           \/ HeReauth(r) \/ HeRefresh(r) \/ HeFinal(r) \/ HeChunk(r) \/ HeStreamEnd(r)
           \/ \E pc \in {"run", "wait"} : HeEnter(r, pc)
           \/ HeOutcome(r)
    PROVE  HeInv'
<1> DEFINE c == herq[r]
           at(pc) == [c EXCEPT !.pc = pc]
<1>1. /\ c \in HeRecords /\ hever \in 0 .. HeMaxVer /\ (hever = 0 => heep = "gone" /\ ~heon)
      /\ r \in hesess <=> c.pc \in InSession
  BY DEF HeInv, HeShape, HeAccounts, Pc
<1>2. \A pc \in InSession : at(pc) \in HeRecords /\ at(pc).pc = pc /\ at(pc).ver = c.ver
  BY <1>1 DEF HeRecords
<1>3. \A pc : herq' = [herq EXCEPT ![r].pc = pc] => herq' = [herq EXCEPT ![r] = at(pc)]
  OBVIOUS
<1> HIDE DEF at
<1>4. ASSUME HeLeave(r), UNCHANGED <<heep, heon, hever, hecur, heconf, hetodo>>, Pc(r) # "admitted",
             hewin' = hewin \/ HeRevokeIfAsked(r)
      PROVE  HeInv'
  <2>1. hewin' = FALSE \/ hewin' = hewin
    BY <1>4 DEF HeRevokeIfAsked, HeInv, HeShape
  <2>2. Abandoned(herq[r]) \in {NoReq, [NoReq EXCEPT !.pc = "orphan"]}
    BY DEF Abandoned
  <2>3. QED BY <1>4, <2>1, <2>2, HeLeaves DEF HeLeave
<1>5. ASSUME NEW b \in BOOLEAN, HeUpload(r, b) PROVE HeInv'
  <2>1. c.pc = "upload" /\ UNCHANGED <<heep, heon, hever, hecur, heconf, hetodo, hewin>>
    BY <1>5 DEF HeUpload, heAuth, Pc
  <2>2. CASE HeLeave(r)
    BY <1>4, <2>1, <2>2 DEF Pc
  <2>3. CASE herq' = [herq EXCEPT ![r].pc = "spooled"] /\ heheld' = Released /\ UNCHANGED <<hesess, heclosed>>
    <3> DEFINE q == at("spooled")
    <3>1. q \in HeRecords /\ q.pc = "spooled" /\ q.ver = c.ver /\ herq' = [herq EXCEPT ![r] = q]
      BY <1>2, <1>3, <2>3 DEF InSession, Dispatched
    <3> HIDE DEF q
    <3>2. r \in hesess
      BY <1>1, <2>1 DEF InSession, Dispatched
    <3>3. HeHeldAfter(r, q) /\ HeSessAfter(r, q)
      BY <2>1, <2>3, <3>1, <3>2 DEF HeHeldAfter, HeSessAfter, Uploading, InSession, Dispatched, Pc
    <3>4. r \in heclosed \/ hetodo \cap {"conn", "ep"} # {} \/ HeCurrent(q)
      BY <2>1, <3>1 DEF HeInv, HeReaches, HeCurrent, InSession, Dispatched
    <3>5. QED BY <2>1, <3>1, <3>3, <3>4, HeMove DEF Pc
  <2>4. QED BY <1>5, <2>2, <2>3 DEF HeUpload, HeGoto
<1>6. ASSUME NEW b \in BOOLEAN, HeDialed(r, b) PROVE HeInv'
  <2>1. c.pc = "dial" /\ UNCHANGED <<heep, heon, hever, hecur, heconf, hetodo, hewin>>
    BY <1>6 DEF HeDialed, heAuth, Pc
  <2>2. CASE HeLeave(r)
    BY <1>4, <2>1, <2>2 DEF Pc
  <2>3. CASE herq' = [herq EXCEPT ![r].pc = "stream"] /\ UNCHANGED heUse
    <3> DEFINE q == at("stream")
    <3>1. q \in HeRecords /\ q.pc = "stream" /\ q.ver = c.ver /\ herq' = [herq EXCEPT ![r] = q]
      BY <1>2, <1>3, <2>3 DEF InSession, Dispatched
    <3> HIDE DEF q
    <3>2. HeCurrent(c) => HeCurrent(q)
      BY <2>1, <3>1 DEF HeCurrent, InSession, Dispatched
    <3>3. QED BY <2>1, <2>3, <3>1, <3>2, HeGoesOn DEF Pc, InSession, Dispatched, Uploading
  <2>4. QED BY <1>6, <2>2, <2>3 DEF HeDialed, HeGoto
<1>7. CASE HeRegister(r)
  <2>1. c.pc = "held" /\ UNCHANGED <<heep, heon, hever, hecur, heconf, hetodo, hewin>>
    BY <1>7 DEF HeRegister, heAuth, Pc
  <2>2. CASE HeLeave(r)
    BY <1>4, <2>1, <2>2 DEF Pc
  <2>3. CASE /\ herq' = [herq EXCEPT ![r].pc = "registered"] /\ Cardinality(hesess) < HeMaxSess
             /\ hesess' = hesess \cup {r} /\ UNCHANGED <<heheld, heclosed>>
    <3> DEFINE q == at("registered")
    <3>1. q \in HeRecords /\ q.pc = "registered" /\ herq' = [herq EXCEPT ![r] = q]
      BY <1>2, <1>3, <2>3 DEF InSession, Dispatched
    <3> HIDE DEF q
    <3>2. HeHeldAfter(r, q) /\ HeSessAfter(r, q) /\ HeCurrent(q)
      BY <2>1, <2>3, <3>1 DEF HeHeldAfter, HeSessAfter, Uploading, InSession, Dispatched, Pc, HeCurrent
    <3>3. QED BY <2>1, <3>1, <3>2, HeMove DEF Pc
  <2>4. QED BY <1>7, <2>2, <2>3 DEF HeRegister, HeGoto
<1>8. CASE HeRecheck(r)
  <2>1. c.pc = "registered" /\ UNCHANGED <<heep, heon, hever, hecur, heconf, hetodo>>
    BY <1>8 DEF HeRecheck, Pc
  <2>2. CASE HeRevokeIfAsked(r) /\ HeLeave(r)
    BY <1>4, <2>1, <2>2 DEF Pc
  <2>3. CASE Valid /\ herq' = [herq EXCEPT ![r].pc = "upload"] /\ UNCHANGED <<hewin, heUse>>
    <3> DEFINE q == at("upload")
    <3>1. q \in HeRecords /\ q.pc = "upload" /\ herq' = [herq EXCEPT ![r] = q]
      BY <1>2, <1>3, <2>3 DEF InSession, Dispatched
    <3> HIDE DEF q
    <3>2. HeCurrent(q)
      BY <1>1, <2>3, <3>1 DEF HeCurrent, Valid, Dispatched
    <3>3. QED BY <2>1, <2>3, <3>1, <3>2, HeGoesOn DEF Pc, InSession, Dispatched, Uploading
  <2>4. QED BY <1>8, <2>2, <2>3 DEF HeRecheck, HeGoto
<1>9. CASE HeInterrupted(r) \/ HeDropped(r) \/ HeStreamEnd(r)
  <2>1. HeLeave(r) /\ Pc(r) # "admitted" /\ UNCHANGED <<heep, heon, hever, hecur, heconf, hetodo, hewin>>
    BY <1>9 DEF HeInterrupted, HeDropped, HeStreamEnd, heAuth
  <2>2. QED BY <1>4, <2>1
<1>10. ASSUME NEW ok, NEW pc \in {"reauthed", "fresh", "dial"}, HeCheckpoint(r, ok, pc),
              c.pc \in {"spooled", "reauthed", "fresh"},
              ok => \/ pc = "reauthed" /\ Valid
                    \/ pc = "fresh" /\ c.pc = "reauthed" /\ hever = c.ver
                    \/ pc = "dial" /\ c.pc = "fresh" /\ Valid
       PROVE  HeInv'
  <2>1. UNCHANGED <<heep, heon, hever, hecur, heconf, hetodo>>
    BY <1>10 DEF HeCheckpoint
  <2>2. CASE HeRevokeIfAsked(r) /\ HeLeave(r)
    BY <1>4, <1>10, <2>1, <2>2 DEF Pc
  <2>3. CASE ok /\ herq' = [herq EXCEPT ![r] = HeForgets([@ EXCEPT !.pc = pc])] /\ UNCHANGED <<hewin, heUse>>
    <3> DEFINE q == HeForgets(at(pc))
    <3>1. herq' = [herq EXCEPT ![r] = q]
      BY <2>3 DEF at
    <3>2. at(pc) \in HeRecords /\ at(pc).pc = pc /\ at(pc).ver = c.ver
      BY <1>2, <1>10 DEF InSession, Dispatched
    <3>3. q \in HeRecords /\ q.pc = pc /\ q.ver = c.ver
      BY <3>2 DEF HeForgets, HeRecords, AllKinds
    <3> HIDE DEF q
    <3>4. HeCurrent(c) => HeCurrent(q)
      BY <1>1, <1>10, <2>3, <3>3 DEF HeCurrent, InSession, Dispatched, Valid
    <3>5. QED BY <1>10, <2>1, <2>3, <3>1, <3>3, <3>4, HeGoesOn DEF Pc, InSession, Dispatched, Uploading
  <2>4. QED BY <1>10, <2>2, <2>3 DEF HeCheckpoint
<1>11. CASE HeReauth(r)
  BY <1>10, <1>11 DEF HeReauth, Pc
<1>12. CASE HeRefresh(r)
  BY <1>10, <1>12 DEF HeRefresh, Pc
<1>13. CASE HeFinal(r)
  BY <1>10, <1>13 DEF HeFinal, Pc
<1>14. CASE HeChunk(r)
  <2> DEFINE q == at("sent")
  <2>1. c.pc = "stream" /\ UNCHANGED <<heep, heon, hever, hecur, heconf, hetodo, hewin, heUse>>
    BY <1>14 DEF HeChunk, heAuth, Pc
  <2>2. q \in HeRecords /\ q.pc = "sent" /\ q.ver = c.ver /\ herq' = [herq EXCEPT ![r] = q]
    BY <1>2, <1>3, <1>14 DEF InSession, Dispatched, HeChunk, HeGoto
  <2> HIDE DEF q
  <2>3. HeCurrent(c) => HeCurrent(q)
    BY <2>1, <2>2 DEF HeCurrent, InSession, Dispatched
  <2>4. QED BY <2>1, <2>2, <2>3, HeGoesOn DEF Pc, InSession, Dispatched, Uploading
<1>15. ASSUME NEW pc \in {"run", "wait"}, HeEnter(r, pc) PROVE HeInv'
  <2> DEFINE q == at(pc)
  <2>1. c.pc = "dial" /\ UNCHANGED <<heep, heon, hever, hecur, heconf, hetodo, hewin, heUse>>
    BY <1>15 DEF HeEnter, heAuth, Pc
  <2>2. q \in HeRecords /\ q.pc \in {"run", "wait"} /\ q.ver = c.ver /\ herq' = [herq EXCEPT ![r] = q]
    BY <1>2, <1>3, <1>15 DEF InSession, Dispatched, HeEnter, HeGoto
  <2> HIDE DEF q
  <2>3. HeCurrent(c) => HeCurrent(q)
    BY <2>1, <2>2 DEF HeCurrent, InSession, Dispatched
  <2>4. QED BY <2>1, <2>2, <2>3, HeGoesOn DEF Pc, InSession, Dispatched, Uploading
<1>16. CASE HeOutcome(r)
  <2>1. HeEnds(r, NoReq) /\ Pc(r) # "admitted" /\ UNCHANGED <<heep, heon, hever, hecur, heconf, hetodo, hewin>>
    BY <1>16 DEF HeOutcome, heAuth
  <2>2. QED BY <2>1, HeLeaves
<1>17. QED BY <1>5, <1>6, <1>7, <1>8, <1>9, <1>11, <1>12, <1>13, <1>14, <1>15, <1>16

\* The owner changes something, and what it owes is done: what is withdrawn is reached.
LEMMA HeOwnerStep ==
    ASSUME HeInv, HeOwner \/ \E d \in {"take", "give"} : HeOthers(d)
    PROVE  HeInv'
<1> USE HeLimits
<1> DEFINE Accounts == UNCHANGED <<herq, heheld, hesess, heclosed>>
<1>1. Accounts => HeAccounts'
  BY DEF HeInv, HeAccounts, HeUp, Pc, Uploading, InSession, Dispatched
<1>2. ASSUME NEW on \in BOOLEAN, HeSetAccess(on) PROVE HeInv'
  <2>1. /\ hever # 0 /\ heon' = on /\ hetodo' = hetodo \cup (IF on THEN {} ELSE {"win", "conn"})
        /\ UNCHANGED <<herq, heep, hever, hecur, heconf, hewin, heheld, hesess, heclosed>>
    BY <1>2 DEF HeSetAccess, HeOwes, heUse
  <2>2. HeShape'
    BY <2>1 DEF HeInv, HeShape, Pc, HeRecords, InSession, Dispatched, AllKinds
  <2>3. HeReaches' /\ HeWindow'
    <3>1. CASE on
      BY <2>1, <3>1 DEF HeInv, HeReaches, HeWindow, HeCurrent, Pc, InSession, Dispatched
    <3>2. CASE ~on
      <4>1. "win" \in hetodo' /\ "conn" \in hetodo'
        BY <2>1, <3>2
      <4>2. QED BY <2>1, <4>1 DEF HeReaches, HeWindow
    <3>3. QED BY <3>1, <3>2
  <2>4. QED BY <1>1, <2>1, <2>2, <2>3 DEF HeInv
<1>3. ASSUME NEW target \in BOOLEAN, HeEdit(target) PROVE HeInv'
  <2>1. /\ hever \in 1 .. HeMaxVer - 1 /\ hever' = hever + 1 /\ heep' = IF target THEN "gone" ELSE heep
        /\ "conn" \in hetodo' /\ hetodo' \subseteq hetodo \cup {"conn", "ep", "win"} /\ hetodo \subseteq hetodo'
        /\ UNCHANGED <<herq, heon, hecur, heconf, hewin, heheld, hesess, heclosed>>
    BY <1>3 DEF HeEdit, HeOwes, heUse
  <2>2. hever' \in 0 .. HeMaxVer /\ hever' # 0
    BY <2>1
  <2>3. HeShape'
    BY <2>1, <2>2 DEF HeInv, HeShape, Pc, HeRecords, InSession, Dispatched, AllKinds
  <2>4. HeReaches' /\ HeWindow'
    BY <2>1 DEF HeInv, HeReaches, HeWindow, Pc
  <2>5. QED BY <1>1, <2>1, <2>3, <2>4 DEF HeInv
<1>4. CASE HeDelete
  <2>1. /\ hever' = 0 /\ heep' = "gone" /\ heon' = FALSE /\ hetodo' = hetodo \cup {"conn", "ep", "win"}
        /\ UNCHANGED <<herq, hecur, heconf, hewin, heheld, hesess, heclosed>>
    BY <1>4 DEF HeDelete, HeOwes, heUse
  <2>2. HeShape'
    <3>1. hever' \in 0 .. HeMaxVer /\ hetodo' \subseteq {"conn", "ep", "win"}
      BY <2>1 DEF HeInv, HeShape
    <3>2. heep' = "gone" /\ ~heon' /\ heon' \in BOOLEAN
      BY <2>1
    <3>3. QED BY <2>1, <3>1, <3>2 DEF HeInv, HeShape, Pc, HeRecords, InSession, Dispatched, AllKinds
  <2>3. HeReaches' /\ HeWindow'
    BY <2>1 DEF HeReaches, HeWindow
  <2>4. QED BY <1>1, <2>1, <2>2, <2>3 DEF HeInv
<1>5. ASSUME NEW how \in {"expired", "gone"}, HeRevoke(how) PROVE HeInv'
  <2>1. /\ heep = "live" /\ heep' = how /\ hetodo' = hetodo \cup (IF how = "gone" THEN {"ep"} ELSE {})
        /\ UNCHANGED <<herq, heon, hever, hecur, heconf, hewin, heheld, hesess, heclosed>>
    BY <1>5 DEF HeRevoke, HeOwes, heUse
  <2>2. HeShape'
    BY <2>1 DEF HeInv, HeShape, Pc, HeRecords, InSession, Dispatched, AllKinds
  <2>3. HeWindow'
    BY <2>1 DEF HeInv, HeWindow, Pc
  <2>4. HeReaches'
    <3>1. CASE how = "gone"
      <4>1. "ep" \in hetodo'
        BY <2>1, <3>1
      <4>2. QED BY <4>1 DEF HeReaches
    <3>2. CASE how = "expired"
      BY <2>1, <3>2 DEF HeInv, HeReaches, HeCurrent, InSession, Dispatched
    <3>3. QED BY <3>1, <3>2
  <2>5. QED BY <1>1, <2>1, <2>2, <2>3, <2>4 DEF HeInv
<1>6. ASSUME NEW on \in BOOLEAN, HeCurate(on) \/ HeSetConfirm(on) PROVE HeInv'
  <2>1. /\ hecur' \in BOOLEAN /\ heconf' \in BOOLEAN /\ hetodo' \in {hetodo, hetodo \cup {"win"}}
        /\ UNCHANGED <<herq, heep, heon, hever, hewin, heheld, hesess, heclosed>>
    BY <1>6 DEF HeCurate, HeSetConfirm, HeOwes, heUse, HeInv, HeShape
  <2>2. HeShape'
    BY <2>1 DEF HeInv, HeShape, Pc, HeRecords, InSession, Dispatched, AllKinds
  <2>3. HeReaches' /\ HeWindow'
    BY <2>1 DEF HeInv, HeReaches, HeWindow, HeCurrent, Pc, InSession, Dispatched
  <2>4. QED BY <1>1, <2>1, <2>2, <2>3 DEF HeInv
<1>7. CASE HeSweepWindow
  <2>1. /\ hetodo' = hetodo \ {"win"} /\ hewin' = FALSE
        /\ herq' = [r \in HeReqs |-> IF Pc(r) = "asking" THEN NoReq ELSE herq[r]]
        /\ UNCHANGED <<heep, heon, hever, hecur, heconf, heheld, hesess, heclosed>>
    BY <1>7 DEF HeSweepWindow, heUse
  <2>2. NoReq \in HeRecords /\ NoReq.pc = "idle"
    BY DEF NoReq, HeRecords, AllKinds
  <2> HIDE DEF NoReq
  <2>3. /\ herq' \in [HeReqs -> HeRecords]
        /\ \A r \in HeReqs : (herq'[r] = herq[r] /\ herq[r].pc # "asking") \/ (herq'[r].pc = "idle" /\ herq[r].pc = "asking")
    <3>1. \A r \in HeReqs : herq'[r] = IF herq[r].pc = "asking" THEN NoReq ELSE herq[r]
      BY <2>1 DEF Pc
    <3>2. herq \in [HeReqs -> HeRecords]
      BY DEF HeInv, HeShape
    <3>3. \A r \in HeReqs : herq'[r] \in HeRecords
      BY <2>2, <3>1, <3>2
    <3>4. herq' \in [HeReqs -> HeRecords]
      BY <2>1, <3>3
    <3>5. ASSUME NEW r \in HeReqs
          PROVE  (herq'[r] = herq[r] /\ herq[r].pc # "asking") \/ (herq'[r].pc = "idle" /\ herq[r].pc = "asking")
      <4>1. CASE herq[r].pc = "asking"
        BY <2>2, <3>1, <4>1
      <4>2. CASE herq[r].pc # "asking"
        BY <3>1, <4>2
      <4>3. QED BY <4>1, <4>2
    <3>6. QED BY <3>4, <3>5
  <2>4. HeShape'
    BY <2>1, <2>3 DEF HeInv, HeShape, Pc, HeRecords, InSession, Dispatched, AllKinds
  <2>5. HeAccounts'
    <3>1. HeUp' = HeUp
      BY <2>3 DEF HeUp, Pc, Uploading
    <3>2. {r \in HeReqs : Pc(r) \in InSession}' = {r \in HeReqs : Pc(r) \in InSession}
      BY <2>3 DEF Pc, InSession, Dispatched
    <3>3. QED BY <2>1, <3>1, <3>2 DEF HeInv, HeAccounts
  <2>6. HeReaches'
    <3>1. hetodo' \cap {"conn", "ep"} = hetodo \cap {"conn", "ep"}
      BY <2>1
    <3>2. ASSUME NEW r \in HeReqs
          PROVE  r \in heclosed \/ hetodo' \cap {"conn", "ep"} # {} \/ HeCurrent(herq'[r])
      BY <2>3, <3>1 DEF HeInv, HeReaches, HeCurrent, InSession, Dispatched
    <3>3. QED BY <2>1, <3>2 DEF HeReaches, HeCurrent, InSession, Dispatched
  <2>7. HeWindow'
    BY <2>1 DEF HeWindow
  <2>8. QED BY <2>4, <2>5, <2>6, <2>7 DEF HeInv
<1>8. ASSUME NEW what \in {"conn", "ep"}, HeSweepSessions(what) PROVE HeInv'
  <2>1. /\ hetodo' = hetodo \ {what} /\ heclosed' = heclosed \cup hesess
        /\ UNCHANGED <<herq, heep, heon, hever, hecur, heconf, hewin, heheld, hesess>>
    BY <1>8 DEF HeSweepSessions
  <2>2. HeShape'
    BY <2>1 DEF HeInv, HeShape, Pc, HeRecords, InSession, Dispatched, AllKinds
  <2>3. HeAccounts'
    BY <2>1 DEF HeInv, HeAccounts, HeUp, Pc, Uploading, InSession, Dispatched
  <2>4. HeReaches'
    <3>1. ASSUME NEW r \in HeReqs PROVE r \in heclosed' \/ HeCurrent(herq[r])'
      <4>1. CASE herq[r].pc \in InSession
        BY <2>1, <4>1 DEF HeInv, HeAccounts, Pc
      <4>2. CASE herq[r].pc \notin InSession
        BY <2>1, <4>2 DEF HeCurrent, InSession, Dispatched
      <4>3. QED BY <4>1, <4>2
    <3>2. QED BY <3>1 DEF HeReaches
  <2>5. HeWindow'
    BY <2>1 DEF HeInv, HeWindow, Pc
  <2>6. QED BY <2>2, <2>3, <2>4, <2>5 DEF HeInv
<1>9. ASSUME NEW d \in {"take", "give"}, HeOthers(d) PROVE HeInv'
  <2>1. /\ heheld' = [heheld EXCEPT !.all = IF d = "take" THEN @ + 1 ELSE @ - 1]
        /\ heheld'.all \in heheld.own .. HeAllUploads
        /\ UNCHANGED <<herq, hesess, heclosed>>
        /\ UNCHANGED <<heep, heon, hever, hecur, heconf, hewin, hetodo>>
    BY <1>9 DEF HeOthers, heAuth
  <2>2. heheld'.own = heheld.own /\ heheld' \in [own : Nat, all : Nat] /\ heheld'.own <= heheld'.all
        /\ heheld'.all <= HeAllUploads
    BY <2>1 DEF HeInv, HeAccounts
  <2>3. HeAccounts'
    BY <2>1, <2>2 DEF HeInv, HeAccounts, HeUp, Pc, Uploading, InSession, Dispatched
  <2>4. HeShape' /\ HeReaches' /\ HeWindow'
    BY <2>1 DEF HeInv, HeShape, HeReaches, HeWindow, HeCurrent, Pc, HeRecords, InSession, Dispatched, AllKinds
  <2>5. QED BY <2>3, <2>4 DEF HeInv
<1>10. QED BY <1>2, <1>3, <1>4, <1>5, <1>6, <1>7, <1>8, <1>9 DEF HeOwner

\* capability/http.rs: at a direct endpoint the permits and sessions are those of the
\* requests that should have them, a withdrawal reaches every request it should stop,
\* and no window outlives the switch.
THEOREM HttpEndpointHolds == HeSpec => []HttpEndpointSound
<1>1. HeInit => HeInv
  <2> SUFFICES ASSUME HeInit PROVE HeInv
    OBVIOUS
  <2>1. NoReq \in HeRecords /\ NoReq.pc = "idle"
    BY HeLimits DEF NoReq, HeRecords, AllKinds
  <2>2. herq \in [HeReqs -> HeRecords] /\ \A r \in HeReqs : herq[r].pc = "idle"
    BY <2>1 DEF HeInit
  <2>3. hever = 1 /\ 1 \in 0 .. HeMaxVer
    BY HeLimits DEF HeInit
  <2>4. hetodo = {} /\ hetodo \subseteq {"conn", "ep", "win"}
    BY DEF HeInit
  <2>5. HeShape
    <3>1. heep = "live" /\ heon \in BOOLEAN /\ hecur \in BOOLEAN /\ heconf \in BOOLEAN /\ hewin \in BOOLEAN
      BY DEF HeInit
    <3>2. QED BY <2>2, <2>3, <2>4, <3>1 DEF HeShape, Pc
  <2>6. HeUp = {} /\ {r \in HeReqs : Pc(r) \in InSession} = {}
    BY <2>2 DEF HeUp, Pc, Uploading, InSession, Dispatched
  <2>7. hesess = {} /\ heclosed = {} /\ heheld = [own |-> 0, all |-> 0]
    BY DEF HeInit
  <2>8. IsFiniteSet({}) /\ Cardinality({}) = 0
    BY FS_EmptySet
  <2>9. HeAccounts
    BY <2>6, <2>7, <2>8, HeLimits DEF HeAccounts
  <2>10. HeReaches /\ HeWindow
    BY <2>2 DEF HeInit, HeReaches, HeCurrent, InSession, Dispatched, HeWindow
  <2>11. QED BY <2>5, <2>9, <2>10 DEF HeInv
<1>2. HeInv /\ [HeNext]_heVars => HeInv'
  <2> SUFFICES ASSUME HeInv, [HeNext]_heVars PROVE HeInv'
    OBVIOUS
  <2>1. CASE UNCHANGED heVars
    BY <2>1 DEF heVars, heAuth, heUse, HeInv, HeShape, HeAccounts, HeReaches, HeWindow, HeCurrent, HeUp, Pc,
       HeRecords, InSession, Dispatched, Uploading, AllKinds
  <2>2. ASSUME NEW r \in HeReqs, HeRequest(r) PROVE HeInv'
    BY <2>2, HeAdmissionStep, HeSessionStep DEF HeRequest
  <2>3. QED BY <2>1, <2>2, HeOwnerStep DEF HeNext
<1>3. QED BY <1>1, <1>2, HeInvMeans, PTL DEF HeSpec

-----------------------------------------------------------------------------
(* Health: the badge of a connection.                                      *)

\* What the streak counts, and what a badge may rest on.
HlSaid == {"settled", "own", "torn"}
HlLogged == [what : {"other", "rejected"}, ver : 0 .. HlMaxVer, torn : BOOLEAN]
HlRecorder == [pc : {"idle", "dial", "graded", "write"}, ver : 0 .. HlMaxVer,
               verdict : {"none", "ok", "failed", "amber"}, why : HlSaid]
HlBadges == [st : Badges, why : HlSaid]
HlCounted == {i \in 1 .. HlNeed : i + hlstreak > HlNeed}

\* The type of each variable.
HlShape ==
    /\ hlcall \in [HlCalls -> HlRecorder]
    /\ hlbadge \in HlBadges /\ hlfile \in HlBadges
    /\ hlstreak \in 0 .. HlNeed /\ hlver \in 0 .. HlMaxVer
    /\ hldue \in Nat /\ hlhalf \in Nat
    /\ hllog \in [1 .. HlNeed -> HlLogged] /\ hllost \in BOOLEAN

\* The streak counts rejections in a row; once every change of target is forgotten,
\* they are of the present target or torn.
HlRow ==
    /\ \A i \in HlCounted : hllog[i].what = "rejected"
    /\ hldue = 0 => \A i \in HlCounted : hllog[i].torn \/ hllog[i].ver = hlver

\* The inductive invariant of the badge.
HlInv == HlShape /\ HlRow /\ (hllost \/ hlfile = hlbadge)

LEMMA HlConstants ==
    /\ HlNeed \in Nat /\ HlNeed > 0 /\ HlMaxVer \in Nat /\ HlMaxVer > 0
    /\ NoBadge \in HlBadges /\ NoHlCall \in HlRecorder /\ Other \in HlLogged
<1>1. {HlNeed, HlMaxVer} \subseteq Nat \ {0}
  BY HlAssumption DEF HlAssumption
<1> QED
  BY <1>1 DEF NoBadge, NoHlCall, Other, HlBadges, Badges, HlRecorder, HlLogged, HlSaid

\* An empty streak counts nothing.
LEMMA HlNone == HlNeed \in Nat /\ hlstreak = 0 => HlCounted = {}
  BY DEF HlCounted

\* What is logged goes in last, and the rest moves up.
LEMMA HlShift ==
    ASSUME HlShape, NEW e \in HlLogged, Logged(e)
    PROVE  /\ hllog' \in [1 .. HlNeed -> HlLogged]
           /\ hllog'[HlNeed] = e
           /\ \A i \in 1 .. HlNeed : i # HlNeed => i + 1 \in 1 .. HlNeed /\ hllog'[i] = hllog[i + 1]
  BY HlConstants DEF HlShape, Logged

\* Once the streak is ended the row is as it should be.
LEMMA HlEnded ==
    ASSUME HlShape, hlstreak' = 0, Logged(Other)
    PROVE  HlRow' /\ hlstreak' \in 0 .. HlNeed /\ hllog' \in [1 .. HlNeed -> HlLogged]
<1>1. HlCounted' = {}
  BY HlConstants DEF HlCounted
<1> QED BY <1>1, HlShift, HlConstants DEF HlRow

LEMMA HlInitInv == HlInit => HlInv
<1> SUFFICES ASSUME HlInit PROVE HlInv
  OBVIOUS
<1>1. HlShape
  <2>1. hlcall \in [HlCalls -> HlRecorder] /\ hlbadge \in HlBadges /\ hlfile \in HlBadges
    BY HlConstants DEF HlInit
  <2>2. hllog \in [1 .. HlNeed -> HlLogged]
    BY HlConstants DEF HlInit, NoLog
  <2>3. hlstreak \in 0 .. HlNeed /\ hlver \in 0 .. HlMaxVer /\ hldue \in Nat /\ hlhalf \in Nat
    BY HlConstants DEF HlInit
  <2>4. hllost \in BOOLEAN
    BY DEF HlInit
  <2> QED BY <2>1, <2>2, <2>3, <2>4 DEF HlShape
<1>2. HlRow
  BY HlConstants, HlNone DEF HlInit, HlRow
<1> QED BY <1>1, <1>2 DEF HlInit, HlInv

\* A badge is written, or the write is lost.
LEMMA HlWriteKeeps ==
    ASSUME HlInv, NEW badge \in HlBadges, HlWrite(badge)
    PROVE  /\ hlbadge' \in HlBadges /\ hlfile' \in HlBadges /\ hllost' \in BOOLEAN
           /\ hllost' \/ hlfile' = hlbadge'
  BY DEF HlWrite, HlInv, HlShape

\* What leaves the streak, the target and the log alone leaves the row alone.
LEMMA HlRowSame == HlRow /\ UNCHANGED <<hlstreak, hlver, hldue, hllog>> => HlRow'
  BY DEF HlRow, HlCounted

LEMMA HlRecorderMoves ==
    ASSUME NEW k \in HlCalls, NEW call \in HlRecorder, HlInv, hlcall' = [hlcall EXCEPT ![k] = call],
           UNCHANGED <<hlbadge, hlfile, hlstreak, hlver, hldue, hlhalf, hllog, hllost>>
    PROVE  HlInv'
<1>1. HlShape'
  BY DEF HlInv, HlShape
<1>2. HlRow'
  BY HlRowSame DEF HlInv
<1> QED BY <1>1, <1>2 DEF HlInv

LEMMA HlBeginKeeps == ASSUME NEW k \in HlCalls, HlInv, HlBegin(k) PROVE HlInv'
<1> DEFINE call == [NoHlCall EXCEPT !.pc = "dial", !.ver = hlver]
<1>1. call \in HlRecorder
  BY DEF NoHlCall, HlInv, HlShape, HlRecorder, HlSaid
<1> HIDE DEF call
<1> QED BY <1>1, HlRecorderMoves DEF HlBegin, call

LEMMA HlSettledKeeps ==
    ASSUME NEW k \in HlCalls, NEW st \in {"ok", "amber"}, HlInv, HlSettled(k, st) PROVE HlInv'
<1> DEFINE call == [NoHlCall EXCEPT !.pc = "write", !.verdict = st]
<1>1. call \in HlRecorder
  BY HlConstants DEF NoHlCall, HlRecorder, HlSaid
<1> HIDE DEF call
<1> QED BY <1>1, HlRecorderMoves DEF HlSettled, call

LEMMA HlCompareKeeps == ASSUME NEW k \in HlCalls, HlInv, HlCompare(k) PROVE HlInv'
<1> DEFINE call == [hlcall[k] EXCEPT !.pc = "write"]
<1>1. call \in HlRecorder
  BY DEF HlInv, HlShape, HlRecorder
<1>2. /\ hlcall' = [hlcall EXCEPT ![k] = NoHlCall] \/ hlcall' = [hlcall EXCEPT ![k] = call]
      /\ UNCHANGED <<hlbadge, hlfile, hlstreak, hlver, hldue, hlhalf, hllog, hllost>>
  BY DEF HlCompare
<1> HIDE DEF call
<1> QED BY <1>1, <1>2, HlConstants, HlRecorderMoves

LEMMA HlTestedKeeps ==
    ASSUME NEW k \in HlCalls, NEW st \in {"ok", "failed", "amber"}, HlInv, HlTested(k, st) PROVE HlInv'
<1> DEFINE call == [NoHlCall EXCEPT !.pc = "write", !.verdict = st]
<1>1. call \in HlRecorder
  BY HlConstants DEF NoHlCall, HlRecorder, HlSaid
<1>2. /\ hlcall' = [hlcall EXCEPT ![k] = call] /\ hlstreak' = 0 /\ Logged(Other)
      /\ UNCHANGED <<hlbadge, hlfile, hlver, hldue, hlhalf, hllost>>
  BY DEF HlTested
<1> HIDE DEF call
<1>3. HlRow' /\ hlstreak' \in 0 .. HlNeed /\ hllog' \in [1 .. HlNeed -> HlLogged]
  BY <1>2, HlEnded DEF HlInv
<1>4. HlShape'
  BY <1>1, <1>2, <1>3 DEF HlInv, HlShape
<1> QED BY <1>2, <1>3, <1>4 DEF HlInv

\* One more rejection counts, and those counted are of the target, or torn.
LEMMA HlCounts ==
    ASSUME NEW k \in HlCalls, HlInv, hlstreak' = Streak("rejected"), Logged(Rejected(k)), UNCHANGED <<hlver, hldue>>
    PROVE  /\ HlRow' /\ hlstreak' \in 0 .. HlNeed /\ hllog' \in [1 .. HlNeed -> HlLogged]
           /\ hlstreak' >= HlNeed => Worth(hllog', hlcall[k].ver) \in HlSaid
<1> DEFINE e == Rejected(k)
<1>1. e \in HlLogged /\ e.what = "rejected" /\ e.ver = hlcall[k].ver /\ (e.torn \/ (e.ver = hlver /\ hldue = 0))
  <2>1. hlcall[k].ver \in 0 .. HlMaxVer /\ hldue \in Nat
    BY DEF HlInv, HlShape, HlRecorder
  <2>2. e.torn = (hlcall[k].ver # hlver \/ hldue > 0) /\ e.what = "rejected" /\ e.ver = hlcall[k].ver
    BY DEF Rejected
  <2>3. e.torn \in BOOLEAN
    BY <2>2
  <2>4. e = [what |-> e.what, ver |-> e.ver, torn |-> e.torn]
    BY DEF Rejected
  <2>5. e.torn \/ (e.ver = hlver /\ hldue = 0)
    <3>1. hldue > 0 \/ hldue = 0
      BY <2>1
    <3> QED BY <2>2, <3>1
  <2> HIDE DEF e
  <2>6. e \in HlLogged
    BY <2>1, <2>2, <2>3, <2>4 DEF HlLogged
  <2> QED BY <2>2, <2>5, <2>6
<1> HIDE DEF e
<1>2. /\ hllog' \in [1 .. HlNeed -> HlLogged]
      /\ hllog'[HlNeed] = e
      /\ \A i \in 1 .. HlNeed : i # HlNeed => i + 1 \in 1 .. HlNeed /\ hllog'[i] = hllog[i + 1]
  BY <1>1, HlShift DEF HlInv, e
<1>3. hlstreak' \in 0 .. HlNeed /\ hlstreak' <= hlstreak + 1
  BY HlConstants DEF Streak, HlInv, HlShape
<1>4. ASSUME NEW i \in 1 .. HlNeed, i + hlstreak' > HlNeed, i # HlNeed
      PROVE  i + 1 \in HlCounted /\ hllog'[i] = hllog[i + 1]
  BY <1>2, <1>3, <1>4, HlConstants DEF HlCounted, HlInv, HlShape
<1>5. \A i \in HlCounted' : hllog'[i].what = "rejected"
  BY <1>1, <1>2, <1>4 DEF HlCounted, HlInv, HlRow
<1>6. hldue = 0 => \A i \in HlCounted' : hllog'[i].torn \/ hllog'[i].ver = hlver
  BY <1>1, <1>2, <1>4 DEF HlCounted, HlInv, HlRow
<1>7. HlRow'
  BY <1>5, <1>6 DEF HlRow
<1>8. ASSUME hlstreak' >= HlNeed PROVE Worth(hllog', hlcall[k].ver) \in HlSaid
  <2>1. HlCounted' = 1 .. HlNeed
    BY <1>3, <1>8, HlConstants DEF HlCounted
  <2>2. \A i \in 1 .. HlNeed : hllog'[i].what = "rejected"
    BY <1>5, <2>1
  <2>3. CASE \E i \in 1 .. HlNeed : hllog'[i].torn
    <3>1. ~\E i \in 1 .. HlNeed : hllog'[i].what # "rejected"
      BY <2>2
    <3>2. Worth(hllog', hlcall[k].ver) = "torn"
      BY <2>3, <3>1 DEF Worth
    <3> QED BY <3>2 DEF HlSaid
  <2>4. CASE \A i \in 1 .. HlNeed : ~hllog'[i].torn
    <3>1. HlNeed \in 1 .. HlNeed
      BY HlConstants
    <3>2. ~e.torn
      BY <1>2, <2>4, <3>1
    <3>3. hldue = 0 /\ hlcall[k].ver = hlver
      BY <1>1, <3>2
    <3>4. \A i \in 1 .. HlNeed : hllog'[i].ver = hlcall[k].ver
      BY <1>6, <2>1, <2>4, <3>3
    <3>5. Worth(hllog', hlcall[k].ver) = "own"
      BY <2>2, <2>4, <3>4 DEF Worth
    <3> QED BY <3>5 DEF HlSaid
  <2> QED BY <2>3, <2>4
<1> QED BY <1>2, <1>3, <1>7, <1>8

LEMMA HlAnsweredKeeps ==
    ASSUME NEW k \in HlCalls, NEW verdict \in {"ok", "failed", "rejected", "unready"}, HlInv, HlAnswered(k, verdict)
    PROVE  HlInv'
<1> DEFINE why == IF verdict = "rejected" THEN Worth(hllog', hlcall[k].ver) ELSE "settled"
           call == [NoHlCall EXCEPT !.pc = "graded", !.verdict = HlShown(verdict), !.why = why]
           more == IF verdict = "rejected" /\ hlstreak' < HlNeed THEN NoHlCall ELSE call
<1>1. /\ hlstreak' = Streak(verdict) /\ hlcall' = [hlcall EXCEPT ![k] = more]
      /\ UNCHANGED <<hlbadge, hlfile, hlver, hldue, hlhalf, hllost>>
  BY DEF HlAnswered, NoHlCall
<1>2. /\ verdict = "ok" => Logged(Other)
      /\ verdict = "rejected" => Logged(Rejected(k))
      /\ verdict \notin {"ok", "rejected"} => UNCHANGED hllog
  BY DEF HlAnswered
<1>3. /\ HlRow' /\ hlstreak' \in 0 .. HlNeed /\ hllog' \in [1 .. HlNeed -> HlLogged]
      /\ verdict = "rejected" /\ hlstreak' >= HlNeed => why \in HlSaid
  <2>1. CASE verdict = "ok"
    BY <1>1, <1>2, <2>1, HlEnded DEF Streak, HlInv
  <2>2. CASE verdict = "rejected"
    BY <1>1, <1>2, <2>2, HlCounts
  <2>3. CASE verdict \notin {"ok", "rejected"}
    <3>1. UNCHANGED <<hlstreak, hlver, hldue, hllog>>
      BY <1>1, <1>2, <2>3 DEF Streak
    <3> QED BY <2>3, <3>1, HlRowSame DEF HlInv, HlShape
  <2> QED BY <2>1, <2>2, <2>3
<1>4. verdict # "rejected" \/ hlstreak' >= HlNeed => why \in HlSaid
  BY <1>3 DEF HlSaid
<1> HIDE DEF why
<1>5. more \in HlRecorder
  <2>1. CASE verdict = "rejected" /\ hlstreak' < HlNeed
    BY <2>1, HlConstants
  <2>2. CASE ~(verdict = "rejected" /\ hlstreak' < HlNeed)
    <3>1. why \in HlSaid
      BY <1>3, <1>4, <2>2, HlConstants
    <3>2. call \in HlRecorder
      BY <3>1, HlConstants DEF NoHlCall, HlRecorder, HlShown
    <3> QED BY <2>2, <3>2
  <2> QED BY <2>1, <2>2
<1> HIDE DEF more
<1>6. HlShape'
  BY <1>1, <1>3, <1>5 DEF HlInv, HlShape
<1> QED BY <1>1, <1>3, <1>6 DEF HlInv

LEMMA HlRecordKeeps == ASSUME NEW k \in HlCalls, HlInv, HlRecord(k) PROVE HlInv'
<1>1. /\ HlWrite(Verdict(k)) /\ hlcall' = [hlcall EXCEPT ![k] = NoHlCall]
      /\ UNCHANGED <<hlstreak, hlver, hldue, hlhalf, hllog>>
  BY DEF HlRecord
<1>2. Verdict(k) \in HlBadges
  BY DEF Verdict, HlInv, HlShape, HlBadges, Badges, HlRecorder
<1>3. /\ hlbadge' \in HlBadges /\ hlfile' \in HlBadges /\ hllost' \in BOOLEAN
      /\ hllost' \/ hlfile' = hlbadge'
  BY <1>1, <1>2, HlWriteKeeps
<1>4. HlShape'
  BY <1>1, <1>3, HlConstants DEF HlInv, HlShape
<1>5. HlRow'
  BY <1>1, HlRowSame DEF HlInv
<1> QED BY <1>3, <1>4, <1>5 DEF HlInv

LEMMA HlRetargetKeeps == HlInv /\ HlRetarget => HlInv'
<1> SUFFICES ASSUME HlInv, HlRetarget PROVE HlInv'
  OBVIOUS
<1>1. /\ hlver' \in 0 .. HlMaxVer /\ hldue' = hldue + 1 /\ hldue' \in Nat /\ hldue' # 0
      /\ UNCHANGED <<hlcall, hlbadge, hlfile, hlstreak, hlhalf, hllog, hllost>>
  BY HlConstants DEF HlRetarget, HlInv, HlShape
<1>2. HlShape'
  BY <1>1 DEF HlInv, HlShape
<1>3. HlRow'
  BY <1>1 DEF HlInv, HlRow, HlCounted
<1> QED BY <1>1, <1>2, <1>3 DEF HlInv

LEMMA HlForgetKeeps == HlInv /\ (HlForgetStreak \/ HlForgetBadge) => HlInv'
<1> SUFFICES ASSUME HlInv PROVE HlForgetStreak \/ HlForgetBadge => HlInv'
  OBVIOUS
<1>1. ASSUME HlForgetStreak PROVE HlInv'
  <2>1. /\ hlstreak' = 0 /\ Logged(Other) /\ hldue' \in Nat /\ hlhalf' \in Nat
        /\ UNCHANGED <<hlcall, hlbadge, hlfile, hlver, hllost>>
    BY <1>1 DEF HlForgetStreak, HlInv, HlShape
  <2>2. HlRow' /\ hlstreak' \in 0 .. HlNeed /\ hllog' \in [1 .. HlNeed -> HlLogged]
    BY <2>1, HlEnded DEF HlInv
  <2>3. HlShape'
    BY <2>1, <2>2 DEF HlInv, HlShape
  <2> QED BY <2>1, <2>2, <2>3 DEF HlInv
<1>2. ASSUME HlForgetBadge PROVE HlInv'
  <2>1. hlhalf' \in Nat /\ UNCHANGED <<hlcall, hlstreak, hlver, hldue, hllog>>
    BY <1>2 DEF HlForgetBadge, HlInv, HlShape
  <2>2. /\ hlbadge' \in HlBadges /\ hlfile' \in HlBadges /\ hllost' \in BOOLEAN
        /\ hllost' \/ hlfile' = hlbadge'
    <3>1. CASE hlbadge = NoBadge
      BY <1>2, <3>1 DEF HlForgetBadge, HlInv, HlShape
    <3>2. CASE hlbadge # NoBadge
      BY <1>2, <3>2, HlConstants, HlWriteKeeps DEF HlForgetBadge
    <3> QED BY <3>1, <3>2
  <2>3. HlShape'
    BY <2>1, <2>2 DEF HlInv, HlShape
  <2>4. HlRow'
    BY <2>1, HlRowSame DEF HlInv
  <2> QED BY <2>2, <2>3, <2>4 DEF HlInv
<1> QED BY <1>1, <1>2

LEMMA HlRestKeeps == HlInv /\ (HlTamper \/ HlRestart \/ UNCHANGED hlVars) => HlInv'
<1> SUFFICES ASSUME HlInv PROVE HlTamper \/ HlRestart \/ UNCHANGED hlVars => HlInv'
  OBVIOUS
<1>1. ASSUME HlTamper PROVE HlInv'
  <2>1. /\ hlfile' = NoBadge /\ hllost' = TRUE
        /\ UNCHANGED <<hlcall, hlbadge, hlstreak, hlver, hldue, hlhalf, hllog>>
    BY <1>1 DEF HlTamper
  <2>2. HlShape'
    BY <2>1, HlConstants DEF HlInv, HlShape
  <2>3. HlRow'
    BY <2>1, HlRowSame DEF HlInv
  <2> QED BY <2>1, <2>2, <2>3 DEF HlInv
<1>2. ASSUME HlRestart PROVE HlInv'
  <2>1. /\ hlbadge' = hlfile /\ hllost' = FALSE /\ hlstreak' = 0 /\ Logged(Other) /\ hldue' = 0 /\ hlhalf' = 0
        /\ hlcall' = [k \in HlCalls |-> NoHlCall] /\ UNCHANGED <<hlfile, hlver>>
    BY <1>2 DEF HlRestart
  <2>2. HlRow' /\ hlstreak' \in 0 .. HlNeed /\ hllog' \in [1 .. HlNeed -> HlLogged]
    BY <2>1, HlEnded DEF HlInv
  <2>3. HlShape'
    BY <2>1, <2>2, HlConstants DEF HlInv, HlShape
  <2> QED BY <2>1, <2>2, <2>3 DEF HlInv
<1>3. ASSUME UNCHANGED hlVars PROVE HlInv'
  <2>1. HlShape'
    BY <1>3 DEF hlVars, HlInv, HlShape
  <2>2. HlRow'
    BY <1>3, HlRowSame DEF hlVars, HlInv
  <2> QED BY <1>3, <2>1, <2>2 DEF hlVars, HlInv
<1> QED BY <1>1, <1>2, <1>3

\* However recorders interleave with each other, with tests, changes of target, the two
\* locks of forget and restarts: the file says what the badge says unless a write was
\* lost, and rejections turn a badge amber only in a row and for one target, unless one
\* of them met a target that was changing (health.rs).
THEOREM HealthHolds == HlSpec => []HealthSound
<1>1. HlInv => HealthSound
  BY DEF HlInv, HlShape, HealthSound, HlFileFollows, HlCorroborated, HlBadges, HlSaid
<1>2. HlInv /\ [HlNext]_hlVars => HlInv'
  BY HlBeginKeeps, HlAnsweredKeeps, HlTestedKeeps, HlSettledKeeps, HlCompareKeeps, HlRecordKeeps,
     HlRetargetKeeps, HlForgetKeeps, HlRestKeeps DEF HlNext
<1> QED
  BY <1>1, <1>2, HlInitInv, PTL DEF HlSpec

-----------------------------------------------------------------------------
(* HttpCall: one approved call.                                            *)

HcBefore == {"new", "render", "send", "wait", "failed", "relay", "ran"}

\* The type of each variable.
HcShape ==
    /\ HcTypeOK
    /\ hccall \in [stream : BOOLEAN, mcp : BOOLEAN, oauth : BOOLEAN, method : {"POST", "GET", "PUT"}]
    /\ hcacted \in Nat /\ hcsent \in Nat /\ hctried \in BOOLEAN /\ hcbegan \in BOOLEAN
    /\ hcread \in [n : Nat, gone : BOOLEAN]

\* What the upstream may have acted on is not sent again, and each delivery has
\* its reason: the first, a redirect followed, or the one recovery.
HcDeliveries ==
    /\ hcacted <= 1
    /\ hcacted = 1 /\ hcpc \in {"new", "render", "send", "wait"} => ~hcreq.body
    /\ hctried => hccall.mcp /\ hccall.oauth
    /\ hcsent <= hchops + (IF hctried THEN 1 ELSE 0)
                        + (IF hcpc \in {"new", "render", "send"} THEN 0 ELSE 1)

\* Between the rendering of a token and the relay the scrub is that token's.
HcCovers ==
    /\ hcpc = "failed" => hcres = "error"
    /\ hcpc \in {"send", "wait", "relay", "stream"} => hctok \in hcscrub
    /\ hcpc = "ran" /\ hcres # "error" => hctok \in hcscrub

\* The row is written with the last step of the relay.
HcLogged ==
    /\ hcpc \in HcBefore \cup {"stream"} => hcrows = 0
    /\ hcpc \in {"finish", "done"} => hcrows = 1

\* Frames of a body under way.
HcUnderWay(frames) ==
    \A i \in 1 .. Len(frames) : frames[i] \in {"head", "chunk"} /\ (frames[i] = "head" <=> i = 1)

\* What the caller was sent at each point.
HcFrames ==
    /\ hcpc \in HcBefore => hcout = <<>> /\ ~hcbegan
    /\ hcpc = "ran" => ~hccall.stream
    /\ hcpc = "stream" => hcbegan
    /\ hcpc \in {"stream", "finish"} => HcUnderWay(hcout)
    /\ hcpc = "finish" /\ ~hcbegan => hcout = <<>>
    /\ hcbegan /\ ~hcread.gone => hcout # <<>>
    /\ HcFramesWellFormed

\* The inductive invariant of a call.
HcInv == HcShape /\ HcDeliveries /\ HcCovers /\ HcLogged /\ HcFrames

LEMMA HcInitInv == HcInit => HcInv
<1> SUFFICES ASSUME HcInit PROVE HcInv
  OBVIOUS
<1>1. Len(hcout) = 0 /\ hcout \in Seq({"head", "chunk"} \cup Terminals)
  BY DEF HcInit
<1>2. HcShape
  <2>1. hcreq \in [method : {"POST", "GET", "PUT"}, body : BOOLEAN]
    BY DEF HcInit
  <2>2. hcread \in [n : Nat, gone : BOOLEAN] /\ hcread.n = 0
    BY DEF HcInit
  <2>3. hccall \in [stream : BOOLEAN, mcp : BOOLEAN, oauth : BOOLEAN, method : {"POST", "GET", "PUT"}]
    BY DEF HcInit
  <2>4. hctried \in BOOLEAN /\ hcbegan \in BOOLEAN
    BY DEF HcInit
  <2>5. 0 \in 0 .. HcRedirects /\ 0 \in 0 .. HcMaxTok
    BY HcAssumption
  <2> QED BY <1>1, <2>1, <2>2, <2>3, <2>4, <2>5 DEF HcInit, HcShape, HcTypeOK
<1>3. HcDeliveries /\ HcCovers /\ HcLogged
  BY DEF HcInit, HcDeliveries, HcCovers, HcLogged, HcBefore
<1>4. HcFrames
  BY <1>1 DEF HcInit, HcFrames, HcUnderWay, HcBefore, HcFramesWellFormed
<1> QED BY <1>2, <1>3, <1>4 DEF HcInv

\* A redirect keeps the types: what of it touches the hop, and nothing else.
LEMMA HcRedirectShape ==
  ASSUME NEW code \in {301, 302, 303, 307, 308}, NEW pinned \in BOOLEAN, HcShape, HcRedirect(code, pinned)
  PROVE  HcShape'
<1>1. HcNextHop(code) \in [method : {"POST", "GET", "PUT"}, body : BOOLEAN]
  BY DEF HcNextHop, HcShape, HcTypeOK
<1>2. hchops' \in 0 .. HcRedirects
  BY HcAssumption DEF HcRedirect, HcFollows, HcShape, HcTypeOK
<1>3. hcreq' \in [method : {"POST", "GET", "PUT"}, body : BOOLEAN]
  BY <1>1 DEF HcRedirect, HcShape, HcTypeOK
<1>4. hcacted' \in Nat
  BY DEF HcRedirect, HcActed, HcShape
<1>5. /\ hcstored' = hcstored /\ hctok' = hctok /\ hcout' = hcout /\ hcread' = hcread
      /\ hccall' = hccall /\ hctried' = hctried /\ hcsent' = hcsent /\ hcbegan' = hcbegan
      /\ hcrows' = hcrows
  BY DEF HcRedirect, hcToken, hcWire
<1>6. HcTypeOK'
  BY <1>2, <1>3, <1>5 DEF HcShape, HcTypeOK
<1>7. /\ hccall' \in [stream : BOOLEAN, mcp : BOOLEAN, oauth : BOOLEAN, method : {"POST", "GET", "PUT"}]
      /\ hcread' \in [n : Nat, gone : BOOLEAN] /\ hcsent' \in Nat
  BY <1>5 DEF HcShape
<1>8. hctried' \in BOOLEAN
  BY <1>5, Zenon DEF HcShape
<1>9. hcbegan' \in BOOLEAN
  BY <1>5, Zenon DEF HcShape
<1> QED
  BY <1>4, <1>6, <1>7, <1>8, <1>9, Zenon DEF HcShape

LEMMA HcStepShape == HcInv /\ [HcNext]_hcVars => HcShape'
<1> SUFFICES ASSUME HcInv, [HcNext]_hcVars PROVE HcShape'
  OBVIOUS
<1>16. \A code \in {301, 302, 303, 307, 308}, pinned \in BOOLEAN : HcRedirect(code, pinned) => HcShape'
  <2> TAKE code \in {301, 302, 303, 307, 308}, pinned \in BOOLEAN
  <2> HAVE HcRedirect(code, pinned)
  <2>1. HcShape
    BY DEF HcInv
  <2> QED BY <2>1, HcRedirectShape
<1>a. hcread' = hcread /\ hcout' = hcout => hcout' \in Seq({"head", "chunk"} \cup Terminals) /\ hcread'.n <= Len(hcout')
  BY DEF HcInv, HcShape, HcTypeOK
<1>b. ASSUME NEW frame \in {"head", "chunk"} \cup Terminals, HcPut(frame), UNCHANGED hcread
      PROVE  hcout' \in Seq({"head", "chunk"} \cup Terminals) /\ hcread'.n <= Len(hcout')
  <2>1. hcread.gone => hcout' = hcout
    BY <1>b DEF HcPut
  <2>2. ~hcread.gone => hcout' = Append(hcout, frame)
    BY <1>b DEF HcPut
  <2>3. hcout \in Seq({"head", "chunk"} \cup Terminals) /\ hcread.n \in Nat /\ hcread.n <= Len(hcout)
    BY DEF HcInv, HcShape, HcTypeOK
  <2> QED BY <1>b, <2>1, <2>2, <2>3
<1> USE HcAssumption DEF HcInv, HcShape, HcTypeOK, HcLogged, HcBefore, hcHop, hcWire, hcToken
<1>1. CASE HcFresh
  BY <1>1, <1>a DEF HcFresh
<1>2. CASE HcRender
  BY <1>2, <1>a DEF HcRender
<1>3. CASE HcSend
  BY <1>3, <1>a DEF HcSend
<1>4. CASE HcSendFails \/ HcAnswered
  BY <1>4, <1>a DEF HcSendFails, HcAnswered, HcActed
<1>5. CASE HcRelay \/ HcDialFails \/ HcRan
  BY <1>5, <1>a DEF HcRelay, HcDialFails, HcRan, HcRow
<1>6. CASE HcHead
  BY <1>6, <1>b DEF HcHead, HcBegins
<1>7. CASE HcChunk
  BY <1>7, <1>b DEF HcChunk, HcRow
<1>8. CASE HcBodyEnds
  BY <1>8, <1>a DEF HcBodyEnds, HcRow
<1>9. CASE HcFinish
  BY <1>9, <1>b DEF HcFinish, Terminals
<1>10. CASE HcRenewed
  BY <1>10, <1>a DEF HcRenewed
<1>11. CASE HcRejected
  <2>1. /\ hctried' \in BOOLEAN
        /\ hcstored' = hcstored \/ (hcstored < HcMaxTok /\ hcstored' = hcstored + 1)
    BY <1>11 DEF HcRejected
  <2>2. hcstored' \in 0 .. HcMaxTok /\ hctok \in 0 .. hcstored'
    BY <2>1
  <2> QED BY <1>11, <1>a, <2>1, <2>2 DEF HcRejected
<1>12. CASE HcDeadline
  BY <1>12, <1>a DEF HcDeadline
<1>13. CASE HcTake
  BY <1>13 DEF HcTake
<1>14. CASE HcHangUp
  BY <1>14 DEF HcHangUp
<1>15. CASE UNCHANGED hcVars
  BY <1>15, <1>a DEF hcVars
<1> HIDE DEF HcInv, HcShape, HcTypeOK
<1> QED BY <1>1, <1>2, <1>3, <1>4, <1>5, <1>6, <1>7, <1>8, <1>9, <1>10, <1>11, <1>12, <1>13, <1>14, <1>15, <1>16
  DEF HcNext, HcWork

LEMMA HcStepDeliveries == HcInv /\ [HcNext]_hcVars => HcDeliveries'
<1> SUFFICES ASSUME HcInv, [HcNext]_hcVars PROVE HcDeliveries'
  OBVIOUS
<1> USE DEF HcInv, HcShape, HcTypeOK, HcDeliveries, hcHop, hcWire, hcToken
<1>1. CASE HcFresh \/ HcRender \/ HcSend
  BY <1>1 DEF HcFresh, HcRender, HcSend
<1>2. CASE HcSendFails \/ HcRelay \/ HcDialFails \/ HcRan
  BY <1>2 DEF HcSendFails, HcRelay, HcDialFails, HcRan, HcActed
<1>3. CASE HcHead \/ HcChunk \/ HcBodyEnds \/ HcFinish
  BY <1>3 DEF HcHead, HcChunk, HcBodyEnds, HcFinish
<1>4. CASE HcRenewed \/ HcRejected \/ HcAnswered \/ HcDeadline
  BY <1>4 DEF HcRenewed, HcRejected, HcAnswered, HcDeadline, HcActed, HcRecovers
<1>5. CASE HcTake \/ HcHangUp \/ UNCHANGED hcVars
  BY <1>5 DEF HcTake, HcHangUp, hcVars
<1>6. ASSUME NEW code \in {301, 302, 303, 307, 308}, NEW pinned \in BOOLEAN, HcRedirect(code, pinned)
      PROVE HcDeliveries'
  BY <1>6 DEF HcRedirect, HcFollows, HcNextHop, HcActed
<1> QED BY <1>1, <1>2, <1>3, <1>4, <1>5, <1>6 DEF HcNext, HcWork

LEMMA HcStepCovers == HcInv /\ [HcNext]_hcVars => HcCovers' /\ HcLogged'
<1> SUFFICES ASSUME HcInv, [HcNext]_hcVars PROVE HcCovers' /\ HcLogged'
  OBVIOUS
<1> USE DEF HcInv, HcCovers, HcLogged, HcBefore, hcHop, hcWire, hcToken
<1>1. CASE HcFresh \/ HcRender \/ HcSend
  BY <1>1 DEF HcFresh, HcRender, HcSend, HcScrubOf
<1>2. CASE HcSendFails \/ HcRelay
  BY <1>2 DEF HcSendFails, HcRelay
<1>7. CASE HcDialFails
  BY <1>7 DEF HcDialFails, HcRow
<1>8. CASE HcRan
  BY <1>8 DEF HcRan, HcRow
<1>3. CASE HcHead \/ HcChunk \/ HcBodyEnds \/ HcFinish
  BY <1>3 DEF HcHead, HcChunk, HcBodyEnds, HcFinish, HcRow
<1>4. CASE HcRenewed \/ HcRejected \/ HcAnswered \/ HcDeadline
  BY <1>4 DEF HcRenewed, HcRejected, HcAnswered, HcDeadline, HcRecovers
<1>5. CASE HcTake \/ HcHangUp \/ UNCHANGED hcVars
  BY <1>5 DEF HcTake, HcHangUp, hcVars
<1>6. ASSUME NEW code \in {301, 302, 303, 307, 308}, NEW pinned \in BOOLEAN, HcRedirect(code, pinned)
      PROVE HcCovers' /\ HcLogged'
  BY <1>6 DEF HcRedirect, HcFollows
<1> QED BY <1>1, <1>2, <1>3, <1>4, <1>5, <1>6, <1>7, <1>8 DEF HcNext, HcWork

\* A step that sends no frame.
LEMMA HcQuietFrames ==
    ASSUME HcInv, UNCHANGED <<hccall, hcout, hcread, hcbegan>>,
           \/ hcpc' = hcpc
           \/ hcpc \in HcBefore /\ hcpc' \in HcBefore /\ (hcpc' = "ran" => ~hccall.stream)
           \/ hcpc \in HcBefore /\ hcpc' = "finish"
           \/ hcpc = "stream" /\ hcpc' = "finish"
           \/ hcpc = "ran" /\ hcpc' = "done"
    PROVE  HcFrames'
  BY DEF HcInv, HcFrames, HcBefore, HcUnderWay, HcFramesWellFormed, Terminals

LEMMA HcStepFrames == HcInv /\ [HcNext]_hcVars => HcFrames'
<1> SUFFICES ASSUME HcInv, [HcNext]_hcVars PROVE HcFrames'
  OBVIOUS
<1>1. CASE HcFresh \/ HcRender \/ HcSend
  BY <1>1, HcQuietFrames DEF HcFresh, HcRender, HcSend, hcWire, HcBefore
<1>2. CASE HcSendFails \/ HcRelay \/ HcDialFails \/ HcRan
  BY <1>2, HcQuietFrames DEF HcSendFails, HcRelay, HcDialFails, HcRan, hcWire, HcBefore
<1>3. CASE HcRenewed \/ HcRejected \/ HcAnswered \/ HcDeadline
  BY <1>3, HcQuietFrames DEF HcRenewed, HcRejected, HcAnswered, HcDeadline, hcWire, HcBefore
<1>4. CASE HcBodyEnds \/ UNCHANGED hcVars
  BY <1>4, HcQuietFrames DEF HcBodyEnds, hcVars, hcWire, HcBefore
<1>5. ASSUME NEW code \in {301, 302, 303, 307, 308}, NEW pinned \in BOOLEAN, HcRedirect(code, pinned)
      PROVE HcFrames'
  BY <1>5, HcQuietFrames DEF HcRedirect, hcWire, HcBefore
<1>6. ASSUME HcHead PROVE HcFrames'
  <2>1. /\ hcpc = "relay" /\ hcpc' = "stream" /\ hcout = <<>> /\ hcbegan' = TRUE /\ hcread' = hcread
        /\ IF hcread.gone THEN hcout' = hcout ELSE hcout' = Append(hcout, "head")
    BY <1>6 DEF HcHead, HcBegins, HcPut, HcInv, HcFrames, HcBefore
  <2>2. CASE hcread.gone
    BY <2>1, <2>2 DEF HcFrames, HcBefore, HcUnderWay, HcFramesWellFormed
  <2>3. CASE ~hcread.gone
    <3>1. Len(hcout') = 1 /\ hcout'[1] = "head" /\ hcout' # <<>>
      BY <2>1, <2>3
    <3>2. QED BY <2>1, <3>1 DEF HcFrames, HcBefore, HcUnderWay, HcFramesWellFormed, Terminals
  <2>4. QED BY <2>2, <2>3
<1>7. ASSUME HcChunk PROVE HcFrames'
  <2>1. CASE hcread.gone
    BY <1>7, <2>1, HcQuietFrames DEF HcChunk, HcPut, hcWire
  <2>2. CASE ~hcread.gone
    <3>1. /\ hcpc = "stream" /\ hcpc' = "stream" /\ hcout' = Append(hcout, "chunk")
          /\ hcout \in Seq({"head", "chunk"} \cup Terminals) /\ hcout # <<>> /\ hcbegan
          /\ HcUnderWay(hcout) /\ UNCHANGED <<hcbegan, hcread>>
      BY <1>7, <2>2 DEF HcChunk, HcPut, HcInv, HcFrames, HcShape, HcTypeOK
    <3>2. /\ Len(hcout') = Len(hcout) + 1 /\ Len(hcout) \in Nat \ {0}
          /\ hcout'[Len(hcout) + 1] = "chunk"
          /\ \A i \in 1 .. Len(hcout) : hcout'[i] = hcout[i]
      BY <3>1
    <3>3. HcUnderWay(hcout') /\ hcout' # <<>>
      BY <3>1, <3>2 DEF HcUnderWay
    <3>4. QED BY <3>1, <3>2, <3>3 DEF HcFrames, HcBefore, HcUnderWay, HcFramesWellFormed, Terminals
  <2>3. QED BY <2>1, <2>2
<1>8. ASSUME HcFinish PROVE HcFrames'
  <2> DEFINE f == IF hcbegan THEN "end" ELSE "error"
  <2>1. CASE hcread.gone
    BY <1>8, <2>1 DEF HcFinish, HcPut, HcInv, HcFrames, HcBefore, HcUnderWay, HcFramesWellFormed, Terminals
  <2>2. CASE ~hcread.gone
    <3>1. /\ hcpc = "finish" /\ hcpc' = "done" /\ hcout' = Append(hcout, f)
          /\ hcout \in Seq({"head", "chunk"} \cup Terminals) /\ (hcbegan <=> hcout # <<>>)
          /\ HcUnderWay(hcout) /\ UNCHANGED <<hcbegan, hcread>>
      BY <1>8, <2>2 DEF HcFinish, HcPut, HcInv, HcFrames, HcShape, HcTypeOK
    <3>2. /\ Len(hcout') = Len(hcout) + 1 /\ Len(hcout) \in Nat
          /\ hcout'[Len(hcout) + 1] = f
          /\ \A i \in 1 .. Len(hcout) : hcout'[i] = hcout[i]
      BY <3>1
    <3>3. CASE hcbegan
      <4>1. Len(hcout) > 0
        BY <3>1, <3>3
      <4>2. QED BY <3>1, <3>2, <3>3, <4>1 DEF HcFrames, HcBefore, HcUnderWay, HcFramesWellFormed, Terminals
    <3>4. CASE ~hcbegan
      <4>1. Len(hcout) = 0
        BY <3>1, <3>4
      <4>2. QED BY <3>1, <3>2, <3>4, <4>1 DEF HcFrames, HcBefore, HcUnderWay, HcFramesWellFormed, Terminals
    <3>5. QED BY <3>3, <3>4 DEF HcInv, HcShape
  <2>3. QED BY <2>1, <2>2
<1>9. ASSUME HcTake \/ HcHangUp PROVE HcFrames'
  BY <1>9 DEF HcTake, HcHangUp, HcInv, HcShape, HcFrames, HcBefore, HcUnderWay, HcFramesWellFormed, hcToken, hcHop
<1> QED BY <1>1, <1>2, <1>3, <1>4, <1>5, <1>6, <1>7, <1>8, <1>9 DEF HcNext, HcWork

\* However the upstream redirects, rejects and breaks off, one call acts on its
\* body once, relays nothing that is not scrubbed, sends well-formed frames and
\* writes one row (run, run_streamed).
THEOREM HttpCallHolds == HcSpec => []HttpCallSound
<1>1. HcInv => HttpCallSound
  BY HcAssumption DEF HcInv, HttpCallSound, HcShape, HcTypeOK, HcDeliveries, HcCovers, HcLogged, HcFrames,
     HcActsOnce, HcScrubbed, HcAudited, HcBefore
<1> QED
  BY <1>1, HcInitInv, HcStepShape, HcStepDeliveries, HcStepCovers, HcStepFrames, PTL DEF HcSpec, HcInv

----------------------------------------------------------------------------
(* The helper processes                                                     *)

\* A caller and a process as they can be.
OpCallRecords == [pc : {"idle", "look", "init", "turn", "read", "served", "condemn"},
                  tok : 0 .. OpMaxTok, proc : 0 .. OpMaxProc, id : Nat, got : Nat]
OpProcRecords == [tok : 0 .. OpMaxTok, seq : Nat, out : Seq(Nat), io : OpCallers \cup {"free"},
                  halfIn : BOOLEAN, halfOut : BOOLEAN, dead : BOOLEAN,
                  late : BOOLEAN, cut : BOOLEAN]

\* The type of each variable.
OpShape ==
    /\ opTok \in 0 .. OpMaxTok /\ opEdit \in BOOLEAN /\ opTable \in 0 .. OpMaxProc
    /\ opProcs \in [1 .. OpMaxProc -> OpProcRecords]
    /\ opCalls \in [OpCallers -> OpCallRecords]
    /\ opFaults \in Nat

\* One line at most is on a pipe in step, and it is its caller's.
OpQuiet(p) == ~p.halfIn /\ ~p.halfOut /\ p.out = <<>>
OpInStep(p) == /\ ~p.halfIn /\ ~p.halfOut
               /\ p.out # <<>> => p.io # "free" /\ Tail(p.out) = <<>>

\* What a caller knows: it has a process from the moment it started or found one, the
\* pipe while it reads, and alone what it started until that is stored.
OpHolds(c) ==
    /\ opCalls[c].pc # "idle" => opCalls[c].tok # 0
    /\ opCalls[c].pc \in {"idle", "look"} <=> opCalls[c].proc = 0
    /\ opCalls[c].proc # 0 => Proc(c).tok # 0
    /\ At(c, "read") => Proc(c).io = c
    /\ At(c, "init") => /\ Proc(c).tok = opCalls[c].tok /\ OpQuiet(Proc(c)) /\ opTable # opCalls[c].proc
                        /\ \A o \in OpCallers \ {c} : opCalls[o].proc # opCalls[c].proc
    /\ At(c, "served") => opCalls[c].got = opCalls[c].id

\* What the table holds: a session that was started, and in step unless somebody who
\* was dropped left it, or somebody is about to take it out.
OpStored ==
    /\ opTable # 0 => opProcs[opTable].tok # 0
    /\ opTable # 0 /\ ~opProcs[opTable].cut /\ (\A c \in OpCallers : ~At(c, "condemn")) =>
       OpInStep(opProcs[opTable])

OpInv == OpShape /\ OpStored /\ OpNoStale /\ \A c \in OpCallers : OpHolds(c)

\* The invariant is what the property says of a state.
LEMMA OpMeans == ASSUME OpInv PROVE OnePasswordSound
<1>1. OpTypeOK
  BY DEF OpInv, OpShape, OpTypeOK, OpCallRecords
<1>2. OpAnswersOwn
  BY DEF OpInv, OpAnswersOwn, OpHolds
<1>3. OpCondemned
  BY DEF OpInv, OpCondemned, OpOutOfStep, OpStored, OpInStep, OpShape
<1>4. QED BY <1>1, <1>2, <1>3 DEF OnePasswordSound, OpInv

\* A helper as it starts, and one that is gone.
LEMMA OpFresh ==
    ASSUME OpAssumption
    PROVE  /\ OpGone \in OpProcRecords /\ OpGone.tok = 0
           /\ \A t \in 0 .. OpMaxTok :
                 OpSpawned(t) \in OpProcRecords /\ OpQuiet(OpSpawned(t)) /\ OpSpawned(t).tok = t
<1>1. <<>> \in Seq(Nat)
  OBVIOUS
<1>2. \A t \in 0 .. OpMaxTok :
         OpSpawned(t) \in OpProcRecords /\ OpQuiet(OpSpawned(t)) /\ OpSpawned(t).tok = t
  BY <1>1 DEF OpProcRecords, OpSpawned, OpQuiet
<1>3. 0 \in 0 .. OpMaxTok
  BY OpAssumption DEF OpAssumption
<1>4. OpSpawned(0) \in OpProcRecords /\ OpSpawned(0).tok = 0
  BY <1>2, <1>3
<1>5. \A r \in OpProcRecords : /\ [r EXCEPT !.dead = TRUE] \in OpProcRecords
                               /\ [r EXCEPT !.dead = TRUE].tok = r.tok
  BY DEF OpProcRecords
<1>6. QED BY <1>2, <1>4, <1>5 DEF OpGone

\* At the start nobody asked and no process runs.
LEMMA OpStarts == ASSUME OpAssumption, OpInit PROVE OpInv
<1>1. OpGone \in OpProcRecords
  BY OpFresh
<1>2. OpIdle \in OpCallRecords
  BY OpAssumption DEF OpCallRecords, OpIdle, OpAssumption
<1>3. OpShape
  <2>1. opCalls \in [OpCallers -> OpCallRecords] /\ opProcs \in [1 .. OpMaxProc -> OpProcRecords]
    BY <1>1, <1>2 DEF OpInit
  <2>2. opTok \in 0 .. OpMaxTok /\ opTable \in 0 .. OpMaxProc /\ opFaults \in Nat
    BY OpAssumption DEF OpInit, OpAssumption
  <2>3. opEdit \in BOOLEAN
    BY DEF OpInit
  <2>4. QED BY <2>1, <2>2, <2>3 DEF OpShape
<1>4. OpStored /\ OpNoStale
  BY DEF OpInit, OpStored, OpNoStale
<1>5. \A c \in OpCallers : OpHolds(c)
  BY DEF OpInit, OpHolds, OpIdle, At
<1>6. QED BY <1>3, <1>4, <1>5 DEF OpInv

\* A process that somebody has is not collected, so no new one takes its place.
LEMMA OpNotGone ==
    ASSUME OpInv
    PROVE  /\ opTable # 0 => opProcs[opTable] # OpGone
           /\ \A c \in OpCallers : opCalls[c].proc # 0 => opProcs[opCalls[c].proc] # OpGone
BY DEF OpInv, OpStored, OpHolds, Proc, OpGone, OpSpawned

\* What a step of a caller leaves: its own record, and of the processes what the table
\* or a caller has.
LEMMA OpSteps ==
    ASSUME OpShape, NEW c \in OpCallers, NEW table \in 0 .. OpMaxProc,
           NEW procs \in [1 .. OpMaxProc -> OpProcRecords], NEW call \in OpCallRecords,
           OpStep(c, table, procs, call), OpAssumption, opFaults' \in Nat
    PROVE  /\ OpShape' /\ opTable' = table /\ opTok' = opTok /\ opEdit' = opEdit
           /\ opCalls'[c] = call /\ \A o \in OpCallers \ {c} : opCalls'[o] = opCalls[o]
           /\ table # 0 => opProcs'[table] = procs[table]
           /\ \A o \in OpCallers : opCalls'[o].proc # 0 =>
                 opProcs'[opCalls'[o].proc] = procs[opCalls'[o].proc]
<1>1. OpGone \in OpProcRecords
  BY OpFresh
<1>2. /\ opCalls' = [opCalls EXCEPT ![c] = call] /\ opTable' = table
      /\ opTok' = opTok /\ opEdit' = opEdit
      /\ opProcs' = [p \in 1 .. OpMaxProc |->
              IF p = table \/ \E o \in OpCallers : opCalls'[o].proc = p THEN procs[p] ELSE OpGone]
  BY DEF OpStep
<1>3. /\ opCalls' \in [OpCallers -> OpCallRecords]
      /\ opCalls'[c] = call /\ \A o \in OpCallers \ {c} : opCalls'[o] = opCalls[o]
  BY <1>2 DEF OpShape
<1>4. opProcs' \in [1 .. OpMaxProc -> OpProcRecords]
  BY <1>1, <1>2
<1>5. OpShape'
  BY <1>2, <1>3, <1>4 DEF OpShape
<1>6. \A o \in OpCallers : opCalls'[o].proc \in 0 .. OpMaxProc
  BY <1>3 DEF OpCallRecords
<1>7. QED BY <1>2, <1>3, <1>5, <1>6, OpAssumption DEF OpAssumption

\* What it takes that a step of a caller keeps the invariant: of its own record, of the
\* processes of the others, and of the one in the table.
LEMMA OpKept ==
    ASSUME OpInv, OpAssumption, NEW c \in OpCallers, NEW table \in 0 .. OpMaxProc,
           NEW procs \in [1 .. OpMaxProc -> OpProcRecords], NEW call \in OpCallRecords,
           OpStep(c, table, procs, call), opFaults' \in Nat,
           /\ call.pc # "idle" => call.tok # 0
           /\ call.pc \in {"idle", "look"} <=> call.proc = 0
           /\ call.proc # 0 => procs[call.proc].tok # 0
           /\ call.pc = "read" => procs[call.proc].io = c
           /\ call.pc = "init" => /\ procs[call.proc].tok = call.tok
                                  /\ OpQuiet(procs[call.proc]) /\ table # call.proc
           /\ call.pc = "served" => call.got = call.id,
           \A o \in OpCallers \ {c} : opCalls[o].proc # 0 =>
             /\ procs[opCalls[o].proc].tok # 0
             /\ At(o, "read") => procs[opCalls[o].proc].io = o
             /\ At(o, "init") => /\ procs[opCalls[o].proc].tok = opCalls[o].tok
                                 /\ OpQuiet(procs[opCalls[o].proc]) /\ table # opCalls[o].proc
             /\ At(o, "init") \/ call.pc = "init" => opCalls[o].proc # call.proc,
           table # 0 =>
             /\ procs[table].tok # 0
             /\ ~opEdit => procs[table].tok = opTok \/ procs[table].late
             /\ ~procs[table].cut /\ call.pc # "condemn"
                /\ (\A o \in OpCallers \ {c} : ~At(o, "condemn")) => OpInStep(procs[table])
    PROVE  OpInv'
<1>1. /\ OpShape' /\ opTable' = table /\ opTok' = opTok /\ opEdit' = opEdit
      /\ opCalls'[c] = call /\ \A o \in OpCallers \ {c} : opCalls'[o] = opCalls[o]
      /\ table # 0 => opProcs'[table] = procs[table]
      /\ \A o \in OpCallers : opCalls'[o].proc # 0 =>
            opProcs'[opCalls'[o].proc] = procs[opCalls'[o].proc]
  BY OpSteps DEF OpInv
<1>2. OpHolds(c)'
  BY <1>1 DEF OpHolds, At, Proc, OpQuiet
<1>3. ASSUME NEW o \in OpCallers \ {c} PROVE OpHolds(o)'
  <2>1. opCalls'[o] = opCalls[o] /\ OpHolds(o)
    BY <1>1 DEF OpInv
  <2>2. CASE opCalls[o].proc = 0
    BY <2>1, <2>2 DEF OpHolds, At
  <2>3. CASE opCalls[o].proc # 0
    <3>1. opProcs'[opCalls[o].proc] = procs[opCalls[o].proc]
      BY <1>1, <2>1, <2>3
    <3>2. At(o, "init") => \A u \in OpCallers \ {o} : opCalls'[u].proc # opCalls[o].proc
      BY <1>1, <2>1, <2>3 DEF OpHolds
    <3>3. QED BY <1>1, <2>1, <2>3, <3>1, <3>2 DEF OpHolds, At, Proc, OpQuiet
  <2>4. QED BY <2>2, <2>3
<1>4. OpStored'
  BY <1>1 DEF OpStored, OpInStep, At
<1>5. OpNoStale'
  BY <1>1 DEF OpNoStale
<1>6. QED BY <1>1, <1>2, <1>3, <1>4, <1>5 DEF OpInv

\* A caller that has the pipe, or waits for it, changes what is on it and nobody else's
\* turn; what was in step stays so unless it is condemned or was dropped.
LEMMA OpPiped ==
    ASSUME OpInv, OpAssumption, NEW c \in OpCallers, opCalls[c].pc \in {"turn", "read", "served"},
           NEW r \in OpProcRecords, NEW call \in OpCallRecords,
           OpStep(c, opTable, OpWith(opCalls[c].proc, r), call), opFaults' \in Nat,
           r.tok = Proc(c).tok, r.late = Proc(c).late,
           r.io # Proc(c).io => Proc(c).io \in {"free", c},
           \/ call.pc = "idle" /\ call.proc = 0
           \/ call.pc \in {"read", "served", "condemn"} /\ call.proc = opCalls[c].proc
              /\ call.tok = opCalls[c].tok,
           call.pc = "read" => r.io = c,
           call.pc = "served" => call.got = call.id,
           ~r.cut /\ call.pc # "condemn" =>
             ~Proc(c).cut /\ (OpInStep(Proc(c)) => OpInStep(r))
    PROVE  OpInv'
<1> DEFINE procs == OpWith(opCalls[c].proc, r)
<1>1. opCalls[c].proc \in 1 .. OpMaxProc /\ OpHolds(c) /\ ~At(c, "condemn") /\ ~At(c, "init")
  BY DEF OpInv, OpHolds, OpShape, OpCallRecords, At
<1>2. /\ procs \in [1 .. OpMaxProc -> OpProcRecords] /\ procs[opCalls[c].proc] = r
      /\ \A p \in 1 .. OpMaxProc : p # opCalls[c].proc => procs[p] = opProcs[p]
  BY <1>1 DEF OpInv, OpShape, OpWith
<1>3. OpStep(c, opTable, procs, call)
  OBVIOUS
<1> HIDE DEF procs
<1>4. opTable \in 0 .. OpMaxProc /\ "free" \notin OpCallers
  BY OpAssumption DEF OpInv, OpShape, OpAssumption
<1>5. /\ call.pc # "idle" => call.tok # 0
      /\ call.pc \in {"idle", "look"} <=> call.proc = 0
      /\ call.proc # 0 => procs[call.proc].tok # 0
      /\ call.pc = "read" => procs[call.proc].io = c
      /\ call.pc = "init" => /\ procs[call.proc].tok = call.tok
                             /\ OpQuiet(procs[call.proc]) /\ opTable # call.proc
      /\ call.pc = "served" => call.got = call.id
  BY <1>1, <1>2 DEF OpHolds, At, Proc
<1>6. ASSUME NEW o \in OpCallers \ {c}, opCalls[o].proc # 0
      PROVE  /\ procs[opCalls[o].proc].tok # 0
             /\ At(o, "read") => procs[opCalls[o].proc].io = o
             /\ At(o, "init") => /\ procs[opCalls[o].proc].tok = opCalls[o].tok
                                 /\ OpQuiet(procs[opCalls[o].proc]) /\ opTable # opCalls[o].proc
             /\ At(o, "init") \/ call.pc = "init" => opCalls[o].proc # call.proc
  <2>1. opCalls[o].proc \in 1 .. OpMaxProc /\ OpHolds(o)
    BY <1>6 DEF OpInv, OpShape, OpCallRecords
  <2>2. CASE opCalls[o].proc = opCalls[c].proc
    BY <1>1, <1>2, <1>4, <2>1, <2>2 DEF OpHolds, At, Proc
  <2>3. CASE opCalls[o].proc # opCalls[c].proc
    BY <1>2, <1>6, <2>1, <2>3 DEF OpHolds, At, Proc
  <2>4. QED BY <2>2, <2>3
<1>7. opTable # 0 =>
        /\ procs[opTable].tok # 0
        /\ ~opEdit => procs[opTable].tok = opTok \/ procs[opTable].late
        /\ ~procs[opTable].cut /\ call.pc # "condemn"
           /\ (\A o \in OpCallers \ {c} : ~At(o, "condemn")) => OpInStep(procs[opTable])
  <2>1. CASE opTable = opCalls[c].proc
    BY <1>1, <1>2, <2>1 DEF OpInv, OpStored, OpNoStale, Proc
  <2>2. CASE opTable # opCalls[c].proc /\ opTable # 0
    <3>1. procs[opTable] = opProcs[opTable]
      BY <1>2, <1>4, <2>2
    <3>2. QED BY <1>1, <2>2, <3>1 DEF OpInv, OpStored, OpNoStale
  <2>3. QED BY <2>1, <2>2
<1>8. QED BY <1>2, <1>3, <1>4, <1>5, <1>6, <1>7, OpKept

\* What a caller with a process becomes.
LEMMA OpBecomes ==
    ASSUME OpShape, NEW c \in OpCallers
    PROVE  /\ \A pc \in {"init", "turn", "read", "served", "condemn"} :
                /\ OpTo(c, pc) \in OpCallRecords
                /\ OpTo(c, pc).pc = pc /\ OpTo(c, pc).proc = opCalls[c].proc
                /\ OpTo(c, pc).tok = opCalls[c].tok /\ OpTo(c, pc).id = opCalls[c].id
                /\ OpTo(c, pc).got = opCalls[c].got
           /\ opCalls[c] \in OpCallRecords
BY DEF OpShape, OpTo, OpCallRecords

\* The idle caller.
LEMMA OpIdles ==
    ASSUME OpAssumption PROVE OpIdle \in OpCallRecords /\ OpIdle.pc = "idle" /\ OpIdle.proc = 0
BY OpAssumption DEF OpIdle, OpCallRecords, OpAssumption

\* One line on an empty pipe is all there is on it.
LEMMA OpAppends ==
    ASSUME NEW s \in Seq(Nat), NEW n \in Nat
    PROVE  /\ Append(s, n) \in Seq(Nat) /\ Append(s, n) # <<>>
           /\ s = <<>> => Tail(Append(s, n)) = <<>>
<1>1. /\ Append(s, n) \in Seq(Nat) /\ Len(Append(s, n)) = Len(s) + 1 /\ Append(s, n) # <<>>
  BY AppendProperties
<1>2. Tail(Append(s, n)) \in Seq(Nat) /\ Len(Tail(Append(s, n))) = Len(s)
  <2>1. Tail(Append(s, n)) \in Seq(Nat) /\ Len(Tail(Append(s, n))) = Len(Append(s, n)) - 1
    BY <1>1, HeadTailProperties
  <2>2. Len(s) \in Nat
    OBVIOUS
  <2>3. QED BY <1>1, <2>1, <2>2
<1>3. s = <<>> => Len(s) = 0
  OBVIOUS
<1>4. QED BY <1>1, <1>2, <1>3, EmptySeq

\* A request is written.
LEMMA OpWriteKeeps ==
    ASSUME OpInv, OpAssumption, NEW c \in OpCallers, OpWrite(c), opFaults' \in Nat PROVE OpInv'
<1> DEFINE line == IF Proc(c).halfIn THEN 0 ELSE opCalls[c].id
           r == [Proc(c) EXCEPT !.io = c, !.halfIn = FALSE, !.out = Append(@, line)]
           call == OpTo(c, "read")
<1>1. Proc(c) \in OpProcRecords /\ line \in Nat
  BY DEF OpInv, OpShape, OpWrite, At, Proc, OpHolds, OpCallRecords
<1>2. Append(Proc(c).out, line) \in Seq(Nat) /\ Append(Proc(c).out, line) # <<>>
      /\ (Proc(c).out = <<>> => Tail(Append(Proc(c).out, line)) = <<>>)
  BY <1>1, OpAppends DEF OpProcRecords
<1>3. OpStep(c, opTable, OpWith(opCalls[c].proc, r), call) /\ Proc(c).io = "free" /\ At(c, "turn")
  BY DEF OpWrite
<1>4. /\ r \in OpProcRecords /\ r.io = c /\ r.out = Append(Proc(c).out, line) /\ ~r.halfIn
      /\ r.tok = Proc(c).tok /\ r.late = Proc(c).late /\ r.cut = Proc(c).cut
      /\ r.halfOut = Proc(c).halfOut
  BY <1>1, <1>2 DEF OpProcRecords
<1>5. /\ call \in OpCallRecords /\ call.pc = "read" /\ call.proc = opCalls[c].proc
      /\ call.tok = opCalls[c].tok
  BY OpBecomes DEF OpInv
<1> HIDE DEF r, call, line
<1>6. OpInStep(Proc(c)) => OpInStep(r)
  BY <1>2, <1>3, <1>4, OpAssumption DEF OpInStep, OpAssumption
<1>7. QED BY <1>3, <1>4, <1>5, <1>6, OpPiped DEF At

\* A line is read.
LEMMA OpReadKeeps ==
    ASSUME OpInv, OpAssumption, NEW c \in OpCallers, OpRead(c), opFaults' \in Nat PROVE OpInv'
<1> DEFINE r == [Proc(c) EXCEPT !.io = "free", !.halfOut = FALSE, !.out = Tail(@)]
           to == IF OpAccepts(c) THEN "served" ELSE "condemn"
           got == IF Proc(c).halfOut THEN 0 ELSE Head(Proc(c).out)
           call == [OpTo(c, to) EXCEPT !.got = got]
<1>1. /\ At(c, "read") /\ Proc(c).out # <<>> /\ OpHolds(c)
      /\ opCalls[c].proc \in 1 .. OpMaxProc /\ Proc(c) \in OpProcRecords
  BY DEF OpInv, OpShape, OpRead, OpHolds, At, Proc, OpCallRecords
<1>2. Tail(Proc(c).out) \in Seq(Nat) /\ Head(Proc(c).out) \in Nat
  BY <1>1 DEF OpProcRecords
<1>3. OpStep(c, opTable, OpWith(opCalls[c].proc, r), call)
  BY DEF OpRead
<1>4. /\ r \in OpProcRecords /\ r.io = "free" /\ r.out = Tail(Proc(c).out) /\ ~r.halfOut
      /\ r.tok = Proc(c).tok /\ r.late = Proc(c).late /\ r.cut = Proc(c).cut
      /\ r.halfIn = Proc(c).halfIn
  BY <1>1, <1>2 DEF OpProcRecords
<1>5. /\ call \in OpCallRecords /\ call.pc = to /\ call.proc = opCalls[c].proc
      /\ call.tok = opCalls[c].tok /\ call.id = opCalls[c].id /\ call.got = got
  <2>1. /\ OpTo(c, to) \in OpCallRecords /\ OpTo(c, to).pc = to
        /\ OpTo(c, to).proc = opCalls[c].proc /\ OpTo(c, to).tok = opCalls[c].tok
        /\ OpTo(c, to).id = opCalls[c].id
    BY OpBecomes DEF OpInv
  <2>2. got \in Nat
    BY <1>2
  <2>3. QED BY <2>1, <2>2 DEF OpCallRecords
<1>6. to \in {"served", "condemn"} /\ (to = "served" => got = opCalls[c].id)
  BY DEF OpAccepts
<1> HIDE DEF r, call, to, got
<1>7. OpInStep(Proc(c)) => OpInStep(r)
  BY <1>1, <1>4 DEF OpInStep
<1>8. QED BY <1>1, <1>3, <1>4, <1>5, <1>6, <1>7, OpPiped DEF OpHolds, At

\* The answer is used, or says that the session ended.
LEMMA OpServedKeeps ==
    ASSUME OpInv, OpAssumption, NEW c \in OpCallers, OpAnswered(c) \/ OpExpired(c), opFaults' \in Nat
    PROVE  OpInv'
<1>1. At(c, "served") /\ Proc(c) \in OpProcRecords /\ OpWith(opCalls[c].proc, Proc(c)) = opProcs
  BY DEF OpInv, OpShape, OpAnswered, OpExpired, OpHolds, At, Proc, OpWith, OpCallRecords
<1>2. OpStep(c, opTable, opProcs, OpIdle) \/ OpStep(c, opTable, opProcs, OpTo(c, "condemn"))
  BY DEF OpAnswered, OpExpired
<1>3. /\ OpTo(c, "condemn") \in OpCallRecords /\ OpTo(c, "condemn").pc = "condemn"
      /\ OpTo(c, "condemn").proc = opCalls[c].proc /\ OpTo(c, "condemn").tok = opCalls[c].tok
  BY OpBecomes DEF OpInv
<1>4. ASSUME OpStep(c, opTable, opProcs, OpIdle) PROVE OpInv'
  BY <1>1, <1>4, OpIdles, OpPiped DEF At
<1>5. ASSUME OpStep(c, opTable, opProcs, OpTo(c, "condemn")) PROVE OpInv'
  BY <1>1, <1>3, <1>5, OpPiped DEF At
<1>6. QED BY <1>2, <1>4, <1>5

\* The pipe of a dead helper fails its caller.
LEMMA OpBrokenKeeps ==
    ASSUME OpInv, OpAssumption, NEW c \in OpCallers, OpBroken(c), opFaults' \in Nat PROVE OpInv'
<1> DEFINE r == [Proc(c) EXCEPT !.io = "free"]
<1>1. /\ opCalls[c].pc \in {"turn", "read"} /\ Proc(c).io \in {"free", c}
      /\ OpStep(c, opTable, OpWith(opCalls[c].proc, r), OpTo(c, "condemn"))
  BY DEF OpBroken
<1>0. Proc(c) \in OpProcRecords
  <2>1. opCalls[c].proc \in 1 .. OpMaxProc
    BY <1>1 DEF OpInv, OpShape, OpHolds, OpCallRecords
  <2>2. QED BY <2>1 DEF OpInv, OpShape, Proc
<1>2. r \in OpProcRecords /\ r.tok = Proc(c).tok /\ r.late = Proc(c).late
  BY <1>0 DEF OpProcRecords
<1>3. /\ OpTo(c, "condemn") \in OpCallRecords /\ OpTo(c, "condemn").pc = "condemn"
      /\ OpTo(c, "condemn").proc = opCalls[c].proc /\ OpTo(c, "condemn").tok = opCalls[c].tok
  BY OpBecomes DEF OpInv
<1> HIDE DEF r
<1>4. QED BY <1>1, <1>2, <1>3, OpPiped

\* A caller lets go, in time or not: it condemns the process, or has marked it.
LEMMA OpLetKeeps ==
    ASSUME OpInv, OpAssumption, NEW c \in OpCallers, NEW call, NEW cut \in BOOLEAN,
           OpLet(c, call, cut), opFaults' \in Nat,
           \/ call = OpTo(c, "condemn")
           \/ call = OpIdle /\ cut
    PROVE  OpInv'
<1>1. PICK part \in {"none", "in", "out"} :
        OpStep(c, opTable,
          OpWith(opCalls[c].proc,
                 [Proc(c) EXCEPT !.io = IF @ = c THEN "free" ELSE @, !.cut = @ \/ cut,
                                 !.halfIn = @ \/ part = "in", !.halfOut = @ \/ part = "out"]), call)
  BY DEF OpLet
<1> DEFINE r == [Proc(c) EXCEPT !.io = IF @ = c THEN "free" ELSE @, !.cut = @ \/ cut,
                                !.halfIn = @ \/ part = "in", !.halfOut = @ \/ part = "out"]
<1>2. opCalls[c].pc \in {"turn", "read"} /\ Proc(c) \in OpProcRecords
  BY DEF OpInv, OpShape, OpLet, OpHolds, At, Proc, OpCallRecords
<1>3. /\ r \in OpProcRecords /\ r.tok = Proc(c).tok /\ r.late = Proc(c).late
      /\ (r.io # Proc(c).io => Proc(c).io = c) /\ (cut => r.cut)
  BY <1>2 DEF OpProcRecords
<1>4. /\ OpTo(c, "condemn") \in OpCallRecords /\ OpTo(c, "condemn").pc = "condemn"
      /\ OpTo(c, "condemn").proc = opCalls[c].proc /\ OpTo(c, "condemn").tok = opCalls[c].tok
  BY OpBecomes DEF OpInv
<1>5. OpStep(c, opTable, OpWith(opCalls[c].proc, r), call)
  BY <1>1
<1> HIDE DEF r
<1>6. CASE call = OpTo(c, "condemn")
  BY <1>2, <1>3, <1>4, <1>5, <1>6, OpPiped
<1>7. CASE call = OpIdle /\ cut
  BY <1>2, <1>3, <1>5, <1>7, OpIdles, OpPiped
<1>8. QED BY <1>6, <1>7

\* A resolution begins, ends without a session, or condemns the table's: the processes
\* stay, and the table keeps its own or loses it.
LEMMA OpEmptyHanded ==
    ASSUME OpInv, OpAssumption, NEW c \in OpCallers, opFaults' \in Nat,
           OpToken(c) \/ OpRefused(c) \/ OpCondemn(c)
    PROVE  OpInv'
<1>1. PICK table \in {0, opTable}, call \in OpCallRecords :
        /\ OpStep(c, table, opProcs, call) /\ call.proc = 0 /\ call.pc \in {"idle", "look"}
        /\ call.pc = "look" => call.tok # 0
        /\ At(c, "condemn") => table = 0
  <2>1. CASE OpToken(c)
    <3> DEFINE call == [OpIdle EXCEPT !.pc = "look", !.tok = opTok]
    <3>0. opTok \in 0 .. OpMaxTok
      BY DEF OpInv, OpShape
    <3>1. /\ call \in OpCallRecords /\ call.proc = 0 /\ call.pc = "look" /\ call.tok = opTok
      BY <3>0, OpIdles DEF OpCallRecords
    <3>2. OpStep(c, opTable, opProcs, call) /\ opTok # 0 /\ ~At(c, "condemn")
      BY <2>1 DEF OpToken, At
    <3> HIDE DEF call
    <3>3. QED BY <3>1, <3>2
  <2>2. CASE OpRefused(c)
    BY <2>2, OpIdles DEF OpRefused, At
  <2>3. CASE OpCondemn(c)
    BY <2>3, OpIdles DEF OpCondemn
  <2>4. QED BY <2>1, <2>2, <2>3
<1>2. opProcs \in [1 .. OpMaxProc -> OpProcRecords] /\ table \in 0 .. OpMaxProc
  BY OpAssumption DEF OpInv, OpShape, OpAssumption
<1>3. ASSUME NEW o \in OpCallers \ {c}, opCalls[o].proc # 0
      PROVE  /\ opProcs[opCalls[o].proc].tok # 0
             /\ At(o, "read") => opProcs[opCalls[o].proc].io = o
             /\ At(o, "init") => /\ opProcs[opCalls[o].proc].tok = opCalls[o].tok
                                 /\ OpQuiet(opProcs[opCalls[o].proc]) /\ table # opCalls[o].proc
             /\ At(o, "init") \/ call.pc = "init" => opCalls[o].proc # call.proc
  BY <1>1, <1>3 DEF OpInv, OpHolds, Proc
<1>4. table # 0 =>
        /\ opProcs[table].tok # 0
        /\ ~opEdit => opProcs[table].tok = opTok \/ opProcs[table].late
        /\ ~opProcs[table].cut /\ call.pc # "condemn"
           /\ (\A o \in OpCallers \ {c} : ~At(o, "condemn")) => OpInStep(opProcs[table])
  BY <1>1 DEF OpInv, OpStored, OpNoStale
<1>5. QED BY <1>1, <1>2, <1>3, <1>4, OpKept

\* The session of the table is joined, the one that was there or the one just stored:
\* its number moves on, and its caller waits for the pipe.
LEMMA OpJoins ==
    ASSUME OpInv, OpAssumption, NEW c \in OpCallers, opFaults' \in Nat,
           At(c, "look") \/ At(c, "init"), NEW p \in 1 .. OpMaxProc, NEW r \in OpProcRecords,
           OpJoin(c, p, OpWith(p, r)),
           r.tok = opProcs[p].tok, r.io = opProcs[p].io,
           /\ r.cut = opProcs[p].cut /\ r.out = opProcs[p].out
           /\ r.halfIn = opProcs[p].halfIn /\ r.halfOut = opProcs[p].halfOut,
           \/ p = opTable /\ r.late = opProcs[p].late
           \/ /\ opTable = 0 /\ At(c, "init") /\ p = opCalls[c].proc
              /\ r.late = (opCalls[c].tok # opTok) /\ r.tok = opCalls[c].tok
    PROVE  OpInv'
<1> DEFINE s == [r EXCEPT !.seq = @ + 1]
           procs == OpWith(p, s)
           call == [OpTo(c, "turn") EXCEPT !.proc = p, !.id = r.seq + 1]
<1>1. OpWith(p, r)[p] = r /\ [OpWith(p, r) EXCEPT ![p].seq = @ + 1] = procs
  BY DEF OpInv, OpShape, OpWith
<1>2. OpStep(c, p, procs, call)
  BY <1>1 DEF OpJoin
<1>3. /\ s \in OpProcRecords /\ s.tok = r.tok /\ s.io = r.io /\ s.cut = r.cut /\ s.out = r.out
      /\ s.halfIn = r.halfIn /\ s.halfOut = r.halfOut /\ s.late = r.late
  BY DEF OpProcRecords
<1>4. /\ call \in OpCallRecords /\ call.pc = "turn" /\ call.proc = p /\ call.tok = opCalls[c].tok
  <2>1. OpTo(c, "turn") \in OpCallRecords /\ OpTo(c, "turn").pc = "turn"
        /\ OpTo(c, "turn").tok = opCalls[c].tok
    BY OpBecomes DEF OpInv
  <2>2. r.seq + 1 \in Nat /\ p \in 0 .. OpMaxProc
    BY OpAssumption DEF OpProcRecords, OpAssumption
  <2>3. QED BY <2>1, <2>2 DEF OpCallRecords
<1> HIDE DEF s, call
<1>5. /\ procs \in [1 .. OpMaxProc -> OpProcRecords] /\ procs[p] = s
      /\ \A q \in 1 .. OpMaxProc : q # p => procs[q] = opProcs[q]
  BY <1>3 DEF OpInv, OpShape, OpWith
<1> HIDE DEF procs
<1>6. OpHolds(c) /\ OpShape /\ p # 0 /\ p \in 0 .. OpMaxProc
  BY OpAssumption DEF OpInv, OpAssumption
<1>7. opProcs[p].tok # 0 /\ opCalls[c].tok # 0
  BY <1>6 DEF OpInv, OpStored, OpHolds, At, Proc
<1>8. ASSUME NEW o \in OpCallers \ {c}, opCalls[o].proc # 0
      PROVE  /\ procs[opCalls[o].proc].tok # 0
             /\ At(o, "read") => procs[opCalls[o].proc].io = o
             /\ At(o, "init") => /\ procs[opCalls[o].proc].tok = opCalls[o].tok
                                 /\ OpQuiet(procs[opCalls[o].proc]) /\ p # opCalls[o].proc
             /\ At(o, "init") \/ call.pc = "init" => opCalls[o].proc # call.proc
  <2>1. opCalls[o].proc \in 1 .. OpMaxProc /\ OpHolds(o)
    BY <1>8 DEF OpInv, OpShape, OpCallRecords
  <2>2. CASE opCalls[o].proc = p
    <3>1. ~At(o, "init")
      BY <1>6, <2>1, <2>2 DEF OpHolds, At
    <3>2. QED BY <1>3, <1>4, <1>5, <1>7, <2>1, <2>2, <3>1 DEF OpHolds, At, Proc
  <2>3. CASE opCalls[o].proc # p
    BY <1>4, <1>5, <1>8, <2>1, <2>3 DEF OpHolds, At, Proc
  <2>4. QED BY <2>2, <2>3
<1>9. /\ procs[p].tok # 0
      /\ ~opEdit => procs[p].tok = opTok \/ procs[p].late
      /\ ~procs[p].cut /\ call.pc # "condemn"
         /\ (\A o \in OpCallers \ {c} : ~At(o, "condemn")) => OpInStep(procs[p])
  <2>1. CASE p = opTable /\ r.late = opProcs[p].late
    <3>1. (\A o \in OpCallers \ {c} : ~At(o, "condemn")) => \A o \in OpCallers : ~At(o, "condemn")
      BY DEF At
    <3>2. QED BY <1>3, <1>5, <1>6, <1>7, <2>1, <3>1 DEF OpInv, OpStored, OpNoStale, OpInStep
  <2>2. CASE /\ At(c, "init") /\ p = opCalls[c].proc
             /\ r.late = (opCalls[c].tok # opTok) /\ r.tok = opCalls[c].tok
    BY <1>3, <1>5, <1>6, <1>7, <2>2 DEF OpHolds, OpQuiet, OpInStep, Proc
  <2>3. QED BY <2>1, <2>2
<1>10. call.pc = "turn" /\ procs[call.proc].tok # 0 /\ call.proc # 0 /\ call.tok # 0
  BY <1>4, <1>6, <1>7, <1>9
<1>11. QED BY <1>2, <1>4, <1>5, <1>6, <1>8, <1>9, <1>10, OpKept

\* The table's process is taken, or the one that answered "initialize" is stored.
LEMMA OpFindKeeps ==
    ASSUME OpInv, OpAssumption, NEW c \in OpCallers, opFaults' \in Nat, OpLookup(c) \/ OpStore(c)
    PROVE  OpInv'
<1>1. opProcs \in [1 .. OpMaxProc -> OpProcRecords] /\ opTable \in 0 .. OpMaxProc
      /\ opCalls[c].proc \in 0 .. OpMaxProc /\ OpHolds(c)
  BY DEF OpInv, OpShape, OpCallRecords
<1>2. CASE opTable # 0
  <2>1. opTable \in 1 .. OpMaxProc /\ opProcs[opTable] \in OpProcRecords
    BY <1>1, <1>2, OpAssumption DEF OpAssumption
  <2>2. OpWith(opTable, opProcs[opTable]) = opProcs
    BY <1>1, <2>1 DEF OpWith
  <2>3. OpJoin(c, opTable, opProcs) /\ (At(c, "look") \/ At(c, "init"))
    BY <1>2 DEF OpLookup, OpStore
  <2>4. QED BY <2>1, <2>2, <2>3, OpJoins
<1>3. CASE opTable = 0
  <2> DEFINE r == [Proc(c) EXCEPT !.late = opCalls[c].tok # opTok]
  <2>1. At(c, "init") /\ OpJoin(c, opCalls[c].proc, OpWith(opCalls[c].proc, r))
    BY <1>3 DEF OpLookup, OpStore
  <2>2. opCalls[c].proc \in 1 .. OpMaxProc /\ Proc(c) \in OpProcRecords
    BY <1>1, <2>1, OpAssumption DEF OpHolds, At, Proc, OpAssumption
  <2>3. /\ r \in OpProcRecords /\ r.tok = Proc(c).tok /\ r.io = Proc(c).io
        /\ r.cut = Proc(c).cut /\ r.out = Proc(c).out
        /\ r.halfIn = Proc(c).halfIn /\ r.halfOut = Proc(c).halfOut
        /\ r.late = (opCalls[c].tok # opTok)
    BY <2>2 DEF OpProcRecords
  <2> HIDE DEF r
  <2>4. Proc(c).tok = opCalls[c].tok
    BY <1>1, <2>1 DEF OpHolds
  <2>5. QED BY <1>3, <2>1, <2>2, <2>3, <2>4, OpJoins DEF Proc
<1>4. QED BY <1>2, <1>3

\* A helper is started where none was, for its caller alone.
LEMMA OpSpawnKeeps ==
    ASSUME OpInv, OpAssumption, NEW c \in OpCallers, opFaults' \in Nat, OpSpawn(c)
    PROVE  OpInv'
<1>1. PICK p \in 1 .. OpMaxProc :
        /\ opProcs[p] = OpGone
        /\ OpStep(c, 0, OpWith(p, OpSpawned(opCalls[c].tok)), [OpTo(c, "init") EXCEPT !.proc = p])
  BY DEF OpSpawn
<1> DEFINE fresh == OpSpawned(opCalls[c].tok)
           procs == OpWith(p, fresh)
           call == [OpTo(c, "init") EXCEPT !.proc = p]
<1>2. /\ opCalls[c].tok \in 0 .. OpMaxTok /\ opCalls[c].tok # 0 /\ p \in 0 .. OpMaxProc /\ p # 0
  BY OpAssumption DEF OpSpawn, At, OpInv, OpShape, OpCallRecords, OpHolds, OpAssumption
<1>3. /\ fresh \in OpProcRecords /\ OpQuiet(fresh) /\ fresh.tok = opCalls[c].tok
  BY <1>2, OpFresh
<1>4. /\ call \in OpCallRecords /\ call.pc = "init" /\ call.proc = p /\ call.tok = opCalls[c].tok
  <2>1. OpTo(c, "init") \in OpCallRecords /\ OpTo(c, "init").pc = "init"
        /\ OpTo(c, "init").tok = opCalls[c].tok
    BY OpBecomes DEF OpInv
  <2>2. QED BY <1>2, <2>1 DEF OpCallRecords
<1>5. OpStep(c, 0, procs, call)
  BY <1>1
<1> HIDE DEF fresh, call
<1>6. /\ procs \in [1 .. OpMaxProc -> OpProcRecords] /\ procs[p] = fresh
      /\ \A q \in 1 .. OpMaxProc : q # p => procs[q] = opProcs[q]
  BY <1>3 DEF OpInv, OpShape, OpWith
<1> HIDE DEF procs
<1>7. ASSUME NEW o \in OpCallers \ {c}, opCalls[o].proc # 0
      PROVE  /\ procs[opCalls[o].proc].tok # 0
             /\ At(o, "read") => procs[opCalls[o].proc].io = o
             /\ At(o, "init") => /\ procs[opCalls[o].proc].tok = opCalls[o].tok
                                 /\ OpQuiet(procs[opCalls[o].proc]) /\ 0 # opCalls[o].proc
             /\ opCalls[o].proc # call.proc
  <2>1. opCalls[o].proc \in 1 .. OpMaxProc /\ OpHolds(o)
    BY <1>7 DEF OpInv, OpShape, OpCallRecords
  <2>2. opCalls[o].proc # p
    BY <1>1, <1>7, OpNotGone
  <2>3. QED BY <1>4, <1>6, <1>7, <2>1, <2>2 DEF OpHolds, At, Proc
<1>8. 0 \in 0 .. OpMaxProc
  BY OpAssumption DEF OpAssumption
<1>9. /\ call.pc = "init" /\ procs[call.proc].tok # 0 /\ call.proc # 0 /\ call.tok # 0
      /\ OpQuiet(procs[call.proc]) /\ procs[call.proc].tok = call.tok /\ 0 # call.proc
  <2>1. procs[call.proc] = fresh
    BY <1>4, <1>6
  <2>2. QED BY <1>2, <1>3, <1>4, <2>1
<1>10. QED BY <1>4, <1>5, <1>6, <1>7, <1>8, <1>9, OpKept

\* A helper dies, with what it had answered or without.
LEMMA OpDiesKeeps ==
    ASSUME OpInv, OpAssumption, NEW p \in 1 .. OpMaxProc, OpDies(p), opFaults' \in Nat PROVE OpInv'
<1>1. PICK out \in {opProcs[p].out, <<>>} :
        opProcs' = OpWith(p, [opProcs[p] EXCEPT !.dead = TRUE, !.out = out])
  BY DEF OpDies
<1> DEFINE r == [opProcs[p] EXCEPT !.dead = TRUE, !.out = out]
<1>2. opProcs[p] \in OpProcRecords /\ out \in Seq(Nat)
  <2>1. opProcs[p] \in OpProcRecords
    BY DEF OpInv, OpShape
  <2>2. opProcs[p].out \in Seq(Nat) /\ <<>> \in Seq(Nat)
    BY <2>1 DEF OpProcRecords
  <2>3. QED BY <2>1, <2>2
<1>3. /\ r \in OpProcRecords /\ r.tok = opProcs[p].tok /\ r.io = opProcs[p].io
      /\ r.cut = opProcs[p].cut /\ r.out \in {opProcs[p].out, <<>>}
      /\ r.halfIn = opProcs[p].halfIn /\ r.halfOut = opProcs[p].halfOut /\ r.late = opProcs[p].late
  BY <1>2 DEF OpProcRecords
<1>4. opProcs' = OpWith(p, r) /\ UNCHANGED <<opTok, opEdit, opTable, opCalls>>
  BY <1>1 DEF OpDies
<1> HIDE DEF r
<1>5. /\ opProcs' \in [1 .. OpMaxProc -> OpProcRecords]
      /\ \A q \in 1 .. OpMaxProc :
            /\ opProcs'[q].tok = opProcs[q].tok /\ opProcs'[q].io = opProcs[q].io
            /\ opProcs'[q].cut = opProcs[q].cut /\ opProcs'[q].out \in {opProcs[q].out, <<>>}
            /\ opProcs'[q].halfIn = opProcs[q].halfIn /\ opProcs'[q].halfOut = opProcs[q].halfOut
            /\ opProcs'[q].late = opProcs[q].late
  BY <1>3, <1>4 DEF OpWith, OpInv, OpShape
<1>6. OpShape'
  BY <1>4, <1>5 DEF OpInv, OpShape
<1>7. opTable # 0 => opTable \in 1 .. OpMaxProc
  BY OpAssumption DEF OpInv, OpShape, OpAssumption
<1>8. OpStored' /\ OpNoStale'
  BY <1>4, <1>5, <1>7 DEF OpInv, OpStored, OpNoStale, OpInStep, At
<1>9. ASSUME NEW o \in OpCallers PROVE OpHolds(o)'
  <2>1. opCalls[o].proc # 0 => opCalls[o].proc \in 1 .. OpMaxProc
    BY OpAssumption DEF OpInv, OpShape, OpCallRecords, OpAssumption
  <2>2. OpHolds(o)
    BY DEF OpInv
  <2>3. QED BY <1>4, <1>5, <2>1, <2>2 DEF OpHolds, At, Proc, OpQuiet
<1>10. QED BY <1>6, <1>8, <1>9 DEF OpInv

\* The token is replaced or deleted; the session goes after it.
LEMMA OpTokenKeeps ==
    ASSUME OpInv, OpAssumption, OpReplace \/ OpDelete \/ OpInvalidate PROVE OpInv'
<1>1. CASE OpReplace \/ OpDelete
  <2>1. opEdit' = TRUE /\ opTok' \in 0 .. OpMaxTok /\ UNCHANGED <<opTable, opProcs, opCalls, opFaults>>
    BY <1>1, OpAssumption DEF OpReplace, OpDelete, OpAssumption
  <2>2. OpShape' /\ OpStored' /\ OpNoStale'
    BY <2>1 DEF OpInv, OpShape, OpStored, OpNoStale, At
  <2>3. \A c \in OpCallers : OpHolds(c)'
    BY <2>1 DEF OpInv, OpHolds, At, Proc
  <2>4. QED BY <2>2, <2>3 DEF OpInv
<1>2. CASE OpInvalidate
  <2>1. /\ opEdit' = FALSE /\ opTable' = 0 /\ UNCHANGED <<opTok, opCalls, opFaults>>
        /\ opProcs' = [p \in 1 .. OpMaxProc |-> IF OpUnused(p) THEN OpGone ELSE opProcs[p]]
    BY <1>2 DEF OpInvalidate
  <2>2. opProcs' \in [1 .. OpMaxProc -> OpProcRecords]
    BY <2>1, OpFresh DEF OpInv, OpShape
  <2>3. OpStored' /\ OpNoStale'
    BY <2>1 DEF OpStored, OpNoStale
  <2>6. OpShape'
    <3>1. opTable' \in 0 .. OpMaxProc
      BY <2>1, OpAssumption DEF OpAssumption
    <3>2. opEdit' \in BOOLEAN
      BY <2>1
    <3>3. QED BY <2>1, <2>2, <3>1, <3>2 DEF OpInv, OpShape
  <2>4. ASSUME NEW c \in OpCallers PROVE OpHolds(c)'
    <3>1. opCalls[c].proc # 0 => opProcs'[opCalls[c].proc] = opProcs[opCalls[c].proc]
      BY <2>1, OpAssumption DEF OpUnused, OpInv, OpShape, OpCallRecords, OpAssumption
    <3>2. QED BY <2>1, <3>1 DEF OpInv, OpHolds, At, Proc
  <2>5. QED BY <2>3, <2>4, <2>6 DEF OpInv
<1>3. QED BY <1>1, <1>2

\* Every step keeps the invariant.
LEMMA OpKeeps == ASSUME OpInv, OpAssumption, [OpNext]_opVars PROVE OpInv'
<1>1. ASSUME NEW kind, OpFault(kind) PROVE opFaults' \in Nat
  BY <1>1 DEF OpFault, OpInv, OpShape
<1>2. OpNoFault => opFaults' \in Nat
  BY DEF OpNoFault, OpInv, OpShape
<1>3. ASSUME NEW c \in OpCallers,
             OpNoFault /\ \/ OpToken(c) \/ OpLookup(c) \/ OpSpawn(c) \/ OpStore(c)
                          \/ OpRefused(c) \/ OpWrite(c) \/ OpRead(c) \/ OpAnswered(c)
                          \/ OpBroken(c) \/ OpCondemn(c)
      PROVE  OpInv'
  BY <1>2, <1>3, OpEmptyHanded, OpFindKeeps, OpSpawnKeeps, OpWriteKeeps, OpReadKeeps,
     OpServedKeeps, OpBrokenKeeps
<1>4. ASSUME NEW c \in OpCallers, OpExpired(c) PROVE OpInv'
  BY <1>1, <1>4, OpServedKeeps DEF OpExpired
<1>5. ASSUME NEW c \in OpCallers, OpTimeout(c) PROVE OpInv'
  BY <1>1, <1>5, OpLetKeeps DEF OpTimeout
<1>6. ASSUME NEW c \in OpCallers, OpDropped(c) PROVE OpInv'
  BY <1>1, <1>6, OpLetKeeps DEF OpDropped
<1>7. ASSUME NEW p \in 1 .. OpMaxProc, OpDies(p) PROVE OpInv'
  BY <1>1, <1>7, OpDiesKeeps DEF OpDies
<1>8. CASE UNCHANGED opVars
  <2>1. OpShape' /\ OpStored' /\ OpNoStale'
    BY <1>8 DEF opVars, OpInv, OpShape, OpStored, OpNoStale, At
  <2>2. \A c \in OpCallers : OpHolds(c)'
    BY <1>8 DEF opVars, OpInv, OpHolds, At, Proc
  <2>3. QED BY <2>1, <2>2 DEF OpInv
<1>9. QED BY <1>3, <1>4, <1>5, <1>6, <1>7, <1>8, OpTokenKeeps DEF OpNext

\* For any callers, helpers and bounds, whatever callers leave on a pipe when they let go
\* of it and whenever the token is replaced: a call is served with the answer to its own
\* request, the table holds no session of a token that is no longer the vault's unless a
\* slow caller stored it, and a pipe out of step is on its way out (onepassword.rs
\* session, request, invalidate).
THEOREM OnePasswordHolds == OpSpec => []OnePasswordSound
<1>1. OpInit => OpInv
  BY OpStarts, OpAssumption
<1>2. OpInv /\ [OpNext]_opVars => OpInv'
  BY OpKeeps, OpAssumption
<1>3. OpInv => OnePasswordSound
  BY OpMeans
<1>4. QED
  BY <1>1, <1>2, <1>3, PTL DEF OpSpec
----------------------------------------------------------------------------
(* The sliding windows                                                     *)

\* What a window is, from the instants it ever admitted (log), the hits it holds (hits),
\* its last refusal (told) and the time.  The hits are the end of the log, in order; what
\* left them is older than the window ...
LmKept(log, hits, now) ==
    /\ log \in Seq(Nat) /\ hits \in Seq(Nat) /\ now \in Nat
    /\ Len(hits) <= Len(log)
    /\ \A i \in 1 .. Len(hits) : hits[i] = log[Len(log) - Len(hits) + i]
    /\ \A i \in 1 .. Len(log) : log[i] <= now
    /\ \A i \in 1 .. Len(log) : \A j \in 1 .. Len(log) : i <= j => log[i] <= log[j]
    /\ \A i \in 1 .. Len(log) - Len(hits) : now - log[i] > LmWindow

\* ... two admissions that are the limit apart are a window apart ...
LmSpaced(log) ==
    \A i \in 1 .. Len(log) : i + LmMax <= Len(log) => log[i + LmMax] - log[i] > LmWindow

\* ... and a refusal named a whole window, or when one of the hits leaves.
LmToldRight(log, told) ==
    /\ told \in [at : Nat, wait : Nat]
    /\ told.wait <= LmWindow
    /\ told.wait \notin {0, LmWindow} =>
          \E p \in 1 .. Len(log) :
             log[p] + LmWindow = told.at + told.wait /\ log[p] <= told.at

LmWell(log, hits, told, now) ==
    LmKept(log, hits, now) /\ LmSpaced(log) /\ LmToldRight(log, told)

\* The windows of the table that hold something.
LmHeld == {k \in LmKeys : lmhits[k] # <<>>}

\* The type of each variable.
LmShape ==
    /\ lmuse \in {"table", "listener"}
    /\ lmnow \in 0 .. LmMaxTime /\ lmnoted \in BOOLEAN
    /\ lmhits \in [Windows -> Seq(Nat)]
    /\ lmlog \in [Windows -> Seq(Nat)]
    /\ lmtold \in [Windows -> [at : Nat, wait : Nat]]
    /\ lmpc \in [LmCallers -> {"idle", "failed", "admitted"}]
    /\ lmwrote \in [failures : Nat, floods : Nat]

\* The table is within its limit.
LmTable == IsFiniteSet(LmHeld) /\ Cardinality(LmHeld) <= LmMaxKeys

\* A flood that was noted stands for a failure yet to come.
LmFloods == lmwrote.floods <= lmwrote.failures + (IF lmnoted THEN 1 ELSE 0)

\* The inductive invariant of the windows.
LmInv ==
    /\ LmShape
    /\ \A k \in Windows : LmWell(lmlog[k], lmhits[k], lmtold[k], lmnow) /\ Len(lmhits[k]) <= LmMax
    /\ LmTable
    /\ LmFloods

\* The limits are numbers.
LEMMA LmLimits == LmMax \in Nat \ {0} /\ LmWindow \in Nat \ {0}
                  /\ LmMaxKeys \in Nat \ {0} /\ LmMaxTime \in Nat \ {0} /\ Own \notin LmKeys
<1>1. {LmMax, LmWindow, LmMaxKeys, LmMaxTime} \subseteq Nat \ {0} /\ Own \notin LmKeys
  BY LmAssumption DEF Own
<1>2. QED BY <1>1

\* A set of numbers has a least one.
LEMMA LmLeast ==
    ASSUME NEW T \in SUBSET Nat, T # {}
    PROVE  \E m \in T : \A k \in T : m <= k
<1>1. \E m \in T : \A y \in T : ~ (<<y, m>> \in OpToRel(<, Nat))
  BY NatLessThanWellFounded, WFMin
<1>2. PICK m \in T : \A y \in T : ~ (<<y, m>> \in OpToRel(<, Nat))
  BY <1>1
<1>3. \A y \in T : ~(y < m)
  BY <1>2 DEF OpToRel
<1>4. QED BY <1>3

\* The loop that pops comes to an end, and pops what is older than the window.
LEMMA LmExpired ==
    ASSUME NEW hits \in Seq(Nat), lmnow \in Nat
    PROVE  /\ Expired(hits) \in 0 .. Len(hits)
           /\ \A i \in 1 .. Expired(hits) : lmnow - hits[i] > LmWindow
           /\ Expired(hits) < Len(hits) => lmnow - hits[Expired(hits) + 1] <= LmWindow
<1> DEFINE Young == {i \in 1 .. Len(hits) : lmnow - hits[i] <= LmWindow}
<1> DEFINE Stops(n) == /\ \A i \in 1 .. n : lmnow - hits[i] > LmWindow
                       /\ n < Len(hits) => lmnow - hits[n + 1] <= LmWindow
<1>1. \E n \in 0 .. Len(hits) : Stops(n)
  <2>1. CASE Young = {}
    <3>1. \A i \in 1 .. Len(hits) : lmnow - hits[i] > LmWindow
      BY <2>1, LmLimits
    <3>2. Stops(Len(hits)) /\ Len(hits) \in 0 .. Len(hits)
      BY <3>1
    <3>3. QED BY <3>2
  <2>2. CASE Young # {}
    <3>1. Young \in SUBSET Nat
      OBVIOUS
    <3>2. PICK m \in Young : \A k \in Young : m <= k
      BY <2>2, <3>1, LmLeast
    <3>3. m \in 1 .. Len(hits) /\ lmnow - hits[m] <= LmWindow
      BY <3>2
    <3>4. \A i \in 1 .. m - 1 : lmnow - hits[i] > LmWindow
      BY <3>2, <3>3, LmLimits
    <3>5. Stops(m - 1) /\ m - 1 \in 0 .. Len(hits)
      BY <3>3, <3>4
    <3>6. QED BY <3>5
  <2>3. QED BY <2>1, <2>2
<1>2. Expired(hits) = CHOOSE n \in 0 .. Len(hits) : Stops(n)
  BY DEF Expired
<1>3. Expired(hits) \in 0 .. Len(hits) /\ Stops(Expired(hits))
  <2> HIDE DEF Stops
  <2>1. QED BY <1>1, <1>2
<1>4. QED BY <1>3

\* Pruned takes expired hits off the front, and the first that stays is not expired.
LEMMA LmPruned ==
    ASSUME NEW hits \in Seq(Nat), lmnow \in Nat
    PROVE  /\ Pruned(hits) \in Seq(Nat)
           /\ Len(Pruned(hits)) <= Len(hits)
           /\ \A i \in 1 .. Len(Pruned(hits)) :
                 Pruned(hits)[i] = hits[Len(hits) - Len(Pruned(hits)) + i]
           /\ \A i \in 1 .. Len(hits) - Len(Pruned(hits)) : lmnow - hits[i] > LmWindow
           /\ Len(Pruned(hits)) > 0 => lmnow - Pruned(hits)[1] <= LmWindow
<1> DEFINE e == Expired(hits)
           P == Pruned(hits)
<1>1. /\ e \in 0 .. Len(hits)
      /\ \A i \in 1 .. e : lmnow - hits[i] > LmWindow
      /\ e < Len(hits) => lmnow - hits[e + 1] <= LmWindow
  BY LmExpired
<1>2. P = SubSeq(hits, e + 1, Len(hits))
  BY DEF Pruned
<1> HIDE DEF e, P
<1>3. \A i \in e + 1 .. Len(hits) : hits[i] \in Nat
  BY <1>1
<1>4. e + 1 \in Int /\ Len(hits) \in Int
  BY <1>1
<1>5. /\ P \in Seq(Nat)
      /\ Len(P) = IF e + 1 <= Len(hits) THEN Len(hits) - (e + 1) + 1 ELSE 0
      /\ \A i \in 1 .. Len(hits) - (e + 1) + 1 : P[i] = hits[e + 1 + i - 1]
  BY <1>2, <1>3, <1>4, SubSeqProperties
<1>6. Len(P) = Len(hits) - e
  BY <1>1, <1>5
<1>7. \A i \in 1 .. Len(P) : P[i] = hits[Len(hits) - Len(P) + i]
  <2> TAKE i \in 1 .. Len(P)
  <2>1. i \in 1 .. Len(hits) - (e + 1) + 1
    BY <1>1, <1>6
  <2>2. P[i] = hits[e + 1 + i - 1]
    BY <1>5, <2>1
  <2>3. e + 1 + i - 1 = Len(hits) - Len(P) + i
    BY <1>1, <1>6
  <2>4. QED BY <2>2, <2>3
<1>8. \A i \in 1 .. Len(hits) - Len(P) : lmnow - hits[i] > LmWindow
  BY <1>1, <1>6
<1>9. Len(P) > 0 => lmnow - P[1] <= LmWindow
  <2> SUFFICES ASSUME Len(P) > 0 PROVE lmnow - P[1] <= LmWindow
    OBVIOUS
  <2>0. 1 \in 1 .. Len(P)
    BY <1>1, <1>6
  <2>1. P[1] = hits[Len(hits) - Len(P) + 1]
    BY <2>0, <1>7
  <2>2. Len(hits) - Len(P) + 1 = e + 1 /\ e < Len(hits)
    BY <1>1, <1>6
  <2>3. P[1] = hits[e + 1] /\ lmnow - hits[e + 1] <= LmWindow
    BY <1>1, <2>1, <2>2
  <2>4. QED BY <2>3
<1>10. Len(P) <= Len(hits)
  BY <1>1, <1>6
<1>11. QED BY <1>5, <1>7, <1>8, <1>9, <1>10 DEF P

\* A window that was pruned is still the end of its log.
LEMMA LmKeptPruned ==
    ASSUME NEW log, NEW hits, LmKept(log, hits, lmnow)
    PROVE  LmKept(log, Pruned(hits), lmnow)
<1> DEFINE P == Pruned(hits)
<1>0. /\ log \in Seq(Nat) /\ hits \in Seq(Nat) /\ lmnow \in Nat
      /\ Len(log) \in Nat /\ Len(hits) \in Nat /\ Len(hits) <= Len(log)
      /\ \A i \in 1 .. Len(hits) : hits[i] = log[Len(log) - Len(hits) + i]
      /\ \A i \in 1 .. Len(log) : log[i] <= lmnow
      /\ \A i \in 1 .. Len(log) : \A j \in 1 .. Len(log) : i <= j => log[i] <= log[j]
      /\ \A i \in 1 .. Len(log) - Len(hits) : lmnow - log[i] > LmWindow
  BY DEF LmKept
<1>1. /\ P \in Seq(Nat)
      /\ Len(P) <= Len(hits)
      /\ \A i \in 1 .. Len(P) : P[i] = hits[Len(hits) - Len(P) + i]
      /\ \A i \in 1 .. Len(hits) - Len(P) : lmnow - hits[i] > LmWindow
  BY <1>0, LmPruned
<1> HIDE DEF P
<1>2. Len(P) \in Nat
  BY <1>1
<1>3. \A i \in 1 .. Len(P) : P[i] = log[Len(log) - Len(P) + i]
  <2> TAKE i \in 1 .. Len(P)
  <2>1. Len(hits) - Len(P) + i \in 1 .. Len(hits)
    BY <1>0, <1>1, <1>2
  <2>2. P[i] = hits[Len(hits) - Len(P) + i]
    BY <1>1
  <2>3. hits[Len(hits) - Len(P) + i] = log[Len(log) - Len(hits) + (Len(hits) - Len(P) + i)]
    BY <2>1, <1>0
  <2>4. Len(log) - Len(hits) + (Len(hits) - Len(P) + i) = Len(log) - Len(P) + i
    BY <1>0, <1>2
  <2>5. QED BY <2>2, <2>3, <2>4
<1>4. \A i \in 1 .. Len(log) - Len(P) : lmnow - log[i] > LmWindow
  <2> TAKE i \in 1 .. Len(log) - Len(P)
  <2>1. CASE i <= Len(log) - Len(hits)
    BY <2>1, <1>0
  <2>2. CASE i > Len(log) - Len(hits)
    <3> DEFINE j == i - (Len(log) - Len(hits))
    <3>1. j \in 1 .. Len(hits) - Len(P) /\ j \in 1 .. Len(hits)
      BY <2>2, <1>0, <1>1, <1>2
    <3>2. lmnow - hits[j] > LmWindow /\ hits[j] = log[Len(log) - Len(hits) + j]
      BY <3>1, <1>0, <1>1
    <3>3. Len(log) - Len(hits) + j = i
      BY <1>0
    <3>4. QED BY <3>2, <3>3
  <2>3. QED BY <2>1, <2>2, <1>0
<1>5. Len(P) <= Len(log)
  BY <1>0, <1>1, <1>2
<1>6. QED BY <1>0, <1>1, <1>3, <1>4, <1>5 DEF LmKept, P

\* A hit is admitted: the log and the window both end with it.
LEMMA LmKeptAdmit ==
    ASSUME NEW log, NEW hits, LmKept(log, hits, lmnow)
    PROVE  LmKept(Append(log, lmnow), Append(hits, lmnow), lmnow)
<1> DEFINE L == Append(log, lmnow)
           H == Append(hits, lmnow)
<1>0. /\ log \in Seq(Nat) /\ hits \in Seq(Nat) /\ lmnow \in Nat
      /\ Len(log) \in Nat /\ Len(hits) \in Nat /\ Len(hits) <= Len(log)
      /\ \A i \in 1 .. Len(hits) : hits[i] = log[Len(log) - Len(hits) + i]
      /\ \A i \in 1 .. Len(log) : log[i] <= lmnow
      /\ \A i \in 1 .. Len(log) : \A j \in 1 .. Len(log) : i <= j => log[i] <= log[j]
      /\ \A i \in 1 .. Len(log) - Len(hits) : lmnow - log[i] > LmWindow
  BY DEF LmKept
<1>1. /\ L \in Seq(Nat) /\ Len(L) = Len(log) + 1
      /\ \A i \in 1 .. Len(log) : L[i] = log[i]
      /\ L[Len(log) + 1] = lmnow
  BY <1>0, AppendProperties
<1>2. /\ H \in Seq(Nat) /\ Len(H) = Len(hits) + 1
      /\ \A i \in 1 .. Len(hits) : H[i] = hits[i]
      /\ H[Len(hits) + 1] = lmnow
  BY <1>0, AppendProperties
<1> HIDE DEF L, H
<1>3. \A i \in 1 .. Len(H) : H[i] = L[Len(L) - Len(H) + i]
  <2> TAKE i \in 1 .. Len(H)
  <2>0. Len(L) - Len(H) + i = Len(log) - Len(hits) + i
    BY <1>0, <1>1, <1>2
  <2>1. CASE i = Len(hits) + 1
    <3>1. Len(log) - Len(hits) + i = Len(log) + 1
      BY <2>1, <1>0
    <3>2. QED BY <2>0, <2>1, <3>1, <1>1, <1>2
  <2>2. CASE i # Len(hits) + 1
    <3>1. i \in 1 .. Len(hits) /\ Len(log) - Len(hits) + i \in 1 .. Len(log)
      BY <2>2, <1>0, <1>2
    <3>2. H[i] = hits[i] /\ hits[i] = log[Len(log) - Len(hits) + i]
      BY <3>1, <1>0, <1>2
    <3>3. L[Len(log) - Len(hits) + i] = log[Len(log) - Len(hits) + i]
      BY <3>1, <1>1
    <3>4. QED BY <2>0, <3>2, <3>3
  <2>3. QED BY <2>1, <2>2
<1>4. \A i \in 1 .. Len(L) : L[i] <= lmnow /\ (i <= Len(log) => L[i] = log[i])
  BY <1>0, <1>1
<1>5. \A i \in 1 .. Len(L) : \A j \in 1 .. Len(L) : i <= j => L[i] <= L[j]
  <2> TAKE i \in 1 .. Len(L)
  <2> TAKE j \in 1 .. Len(L)
  <2> HAVE i <= j
  <2>1. CASE j = Len(log) + 1
    BY <2>1, <1>1, <1>4
  <2>2. CASE j # Len(log) + 1
    <3>1. i \in 1 .. Len(log) /\ j \in 1 .. Len(log)
      BY <2>2, <1>0, <1>1
    <3>2. QED BY <3>1, <1>0, <1>1
  <2>3. QED BY <2>1, <2>2
<1>6. \A i \in 1 .. Len(L) - Len(H) : lmnow - L[i] > LmWindow
  <2> TAKE i \in 1 .. Len(L) - Len(H)
  <2>1. i \in 1 .. Len(log) - Len(hits) /\ i \in 1 .. Len(log)
    BY <1>0, <1>1, <1>2
  <2>2. QED BY <2>1, <1>0, <1>1
<1>7. Len(H) <= Len(L)
  BY <1>0, <1>1, <1>2
<1>8. QED BY <1>0, <1>1, <1>2, <1>3, <1>4, <1>5, <1>6, <1>7 DEF LmKept, L, H

\* A window with room has lost the hit that is the limit before the new one.
LEMMA LmSpacedAdmit ==
    ASSUME NEW log, NEW hits, LmKept(log, hits, lmnow), LmSpaced(log), Len(hits) < LmMax
    PROVE  LmSpaced(Append(log, lmnow))
<1> DEFINE L == Append(log, lmnow)
<1>0. /\ log \in Seq(Nat) /\ hits \in Seq(Nat) /\ lmnow \in Nat
      /\ Len(log) \in Nat /\ Len(hits) \in Nat /\ Len(hits) <= Len(log)
      /\ \A i \in 1 .. Len(log) - Len(hits) : lmnow - log[i] > LmWindow
      /\ \A i \in 1 .. Len(log) : i + LmMax <= Len(log) => log[i + LmMax] - log[i] > LmWindow
  BY DEF LmKept, LmSpaced
<1>1. /\ L \in Seq(Nat) /\ Len(L) = Len(log) + 1
      /\ \A i \in 1 .. Len(log) : L[i] = log[i]
      /\ L[Len(log) + 1] = lmnow
  BY <1>0, AppendProperties
<1> HIDE DEF L
<1>2. \A i \in 1 .. Len(L) : i + LmMax <= Len(L) => L[i + LmMax] - L[i] > LmWindow
  <2> TAKE i \in 1 .. Len(L)
  <2> HAVE i + LmMax <= Len(L)
  <2>0. i \in 1 .. Len(log) /\ i + LmMax \in 1 .. Len(log) + 1
    BY <1>0, <1>1, LmLimits
  <2>1. L[i] = log[i]
    BY <2>0, <1>1
  <2>2. CASE i + LmMax = Len(log) + 1
    <3>1. i \in 1 .. Len(log) - Len(hits)
      BY <2>0, <2>2, <1>0, LmLimits
    <3>2. QED BY <2>1, <2>2, <3>1, <1>0, <1>1
  <2>3. CASE i + LmMax # Len(log) + 1
    <3>1. i + LmMax \in 1 .. Len(log) /\ i + LmMax <= Len(log)
      <4>1. Len(log) \in Nat
        BY <1>0
      <4>2. i + LmMax <= Len(log)
        BY <4>1, <2>0, <2>3, LmLimits
      <4>3. QED BY <4>1, <4>2, <2>0, LmLimits
    <3>2. L[i + LmMax] = log[i + LmMax] /\ log[i + LmMax] - log[i] > LmWindow
      BY <2>0, <3>1, <1>0, <1>1
    <3>3. QED BY <2>1, <3>2
  <2>4. QED BY <2>2, <2>3
<1>3. QED BY <1>2 DEF LmSpaced, L

\* What was said stays right while the log grows.
LEMMA LmToldAdmit ==
    ASSUME NEW log \in Seq(Nat), NEW told, LmToldRight(log, told), lmnow \in Nat
    PROVE  LmToldRight(Append(log, lmnow), told)
<1> DEFINE L == Append(log, lmnow)
<1>1. /\ Len(L) = Len(log) + 1 /\ Len(log) \in Nat
      /\ \A i \in 1 .. Len(log) : L[i] = log[i]
  BY AppendProperties
<1> HIDE DEF L
<1>2. told.wait \notin {0, LmWindow} =>
          \E p \in 1 .. Len(L) : L[p] + LmWindow = told.at + told.wait /\ L[p] <= told.at
  <2> HAVE told.wait \notin {0, LmWindow}
  <2>1. PICK p \in 1 .. Len(log) : log[p] + LmWindow = told.at + told.wait /\ log[p] <= told.at
    BY DEF LmToldRight
  <2>2. p \in 1 .. Len(L) /\ L[p] = log[p]
    BY <1>1, <2>1
  <2>3. QED BY <2>1, <2>2
<1>3. QED BY <1>2 DEF LmToldRight, L

\* A refusal says a whole window, or when the oldest hit that is left will leave.
LEMMA LmToldRefuse ==
    ASSUME NEW log, NEW hits, LmKept(log, hits, lmnow),
           Len(hits) > 0 => lmnow - hits[1] <= LmWindow,
           NEW wait \in {LmWindow, RetryAfter(hits)}
    PROVE  LmToldRight(log, [at |-> lmnow, wait |-> wait])
<1> DEFINE told == [at |-> lmnow, wait |-> wait]
<1>0. /\ log \in Seq(Nat) /\ hits \in Seq(Nat) /\ lmnow \in Nat
      /\ Len(log) \in Nat /\ Len(hits) \in Nat /\ Len(hits) <= Len(log)
      /\ \A i \in 1 .. Len(hits) : hits[i] = log[Len(log) - Len(hits) + i]
      /\ \A i \in 1 .. Len(log) : log[i] <= lmnow
  BY DEF LmKept
<1>a. told.at = lmnow /\ told.wait = wait
  OBVIOUS
<1>1. CASE wait = LmWindow
  <2>1. told \in [at : Nat, wait : Nat]
    BY <1>1, <1>0, LmLimits
  <2>2. QED BY <2>1, <1>1, <1>a, LmLimits DEF LmToldRight
<1>2. CASE wait # LmWindow
  <2>1. hits # <<>> /\ wait = LmWindow - (lmnow - Head(hits))
    BY <1>2 DEF RetryAfter
  <2>2. Len(hits) > 0 /\ Head(hits) = hits[1] /\ 1 \in 1 .. Len(hits)
    BY <2>1, <1>0, EmptySeq
  <2> DEFINE p == Len(log) - Len(hits) + 1
  <2>3. p \in 1 .. Len(log) /\ hits[1] = log[p] /\ log[p] \in Nat /\ log[p] <= lmnow
    BY <2>2, <1>0
  <2>4. lmnow - hits[1] <= LmWindow
    BY <2>2
  <2> HIDE DEF p
  <2>5. wait \in Nat /\ wait <= LmWindow /\ log[p] + LmWindow = lmnow + wait
    <3>1. lmnow \in Nat /\ log[p] \in Nat /\ log[p] <= lmnow /\ lmnow - log[p] <= LmWindow
      BY <2>3, <2>4, <1>0
    <3>2. wait = LmWindow - (lmnow - log[p])
      BY <2>1, <2>2, <2>3
    <3>3. QED BY <3>1, <3>2, LmLimits
  <2>6. told \in [at : Nat, wait : Nat]
    BY <2>5, <1>0
  <2>7. \E q \in 1 .. Len(log) : log[q] + LmWindow = told.at + told.wait /\ log[q] <= told.at
    BY <2>3, <2>5, <1>a
  <2> HIDE DEF told
  <2>8. QED BY <2>5, <2>6, <2>7, <1>a DEF LmToldRight, told
<1>3. QED BY <1>1, <1>2

\* Time passes.
LEMMA LmLater ==
    ASSUME NEW log, NEW hits, LmKept(log, hits, lmnow)
    PROVE  LmKept(log, hits, lmnow + 1)
<1>1. /\ log \in Seq(Nat) /\ hits \in Seq(Nat) /\ lmnow \in Nat /\ Len(log) \in Nat /\ Len(hits) \in Nat
      /\ Len(hits) <= Len(log)
      /\ \A i \in 1 .. Len(hits) : hits[i] = log[Len(log) - Len(hits) + i]
      /\ \A i \in 1 .. Len(log) : \A j \in 1 .. Len(log) : i <= j => log[i] <= log[j]
      /\ \A i \in 1 .. Len(log) : log[i] <= lmnow
      /\ \A i \in 1 .. Len(log) - Len(hits) : lmnow - log[i] > LmWindow
  BY DEF LmKept
<1>2. \A i \in 1 .. Len(log) : log[i] <= lmnow + 1
  BY <1>1
<1>3. \A i \in 1 .. Len(log) - Len(hits) : (lmnow + 1) - log[i] > LmWindow
  <2> TAKE i \in 1 .. Len(log) - Len(hits)
  <2>1. i \in 1 .. Len(log)
    BY <1>1
  <2>2. log[i] \in Nat /\ lmnow - log[i] > LmWindow
    BY <2>1, <1>1
  <2>3. QED BY <2>2, <1>1, LmLimits
<1>4. lmnow + 1 \in Nat
  BY <1>1
<1> DEFINE now == lmnow + 1
<1>5a. now \in Nat /\ \A i \in 1 .. Len(log) : log[i] <= now
  BY <1>2, <1>4
<1>5. \A i \in 1 .. Len(log) - Len(hits) : now - log[i] > LmWindow
  <2> TAKE i \in 1 .. Len(log) - Len(hits)
  <2>1. QED BY <1>3
<1> HIDE DEF now
<1>6. LmKept(log, hits, now)
  BY <1>1, <1>5a, <1>5 DEF LmKept
<1>7. QED BY <1>6 DEF now

\* No window of the right length holds more than the limit.
LEMMA LmSlides ==
    ASSUME NEW log, NEW hits, LmKept(log, hits, lmnow), LmSpaced(log), NEW t \in Nat
    PROVE  Cardinality({i \in DOMAIN log : log[i] \in t .. t + LmWindow}) <= LmMax
<1> DEFINE T == {i \in DOMAIN log : log[i] \in t .. t + LmWindow}
<1>0. /\ log \in Seq(Nat) /\ Len(log) \in Nat /\ DOMAIN log = 1 .. Len(log)
      /\ \A i \in 1 .. Len(log) : \A j \in 1 .. Len(log) : i <= j => log[i] <= log[j]
      /\ \A i \in 1 .. Len(log) : i + LmMax <= Len(log) => log[i + LmMax] - log[i] > LmWindow
  BY DEF LmKept, LmSpaced
<1>1. CASE T = {}
  <2>1. Cardinality(T) = 0
    BY <1>1, FS_EmptySet
  <2> HIDE DEF T
  <2>2. Cardinality(T) <= LmMax
    BY <2>1, LmLimits
  <2>3. QED BY <2>2 DEF T
<1>2. CASE T # {}
  <2>1. T \in SUBSET Nat
    BY <1>0
  <2>2. PICK m \in T : \A k \in T : m <= k
    BY <1>2, <2>1, LmLeast
  <2>3. m \in 1 .. Len(log) /\ log[m] \in Nat /\ t <= log[m]
    BY <1>0, <2>2
  <2>4. \A i \in T : i \in m .. m + LmMax - 1
    <3> TAKE i \in T
    <3>1. i \in 1 .. Len(log) /\ m <= i /\ log[i] \in Nat /\ log[i] <= t + LmWindow
      BY <1>0, <2>2, LmLimits
    <3>2. CASE m + LmMax <= i
      <4>1. m + LmMax \in 1 .. Len(log) /\ m + LmMax <= Len(log)
        BY <2>3, <3>1, <3>2, <1>0, LmLimits
      <4>2. log[m + LmMax] - log[m] > LmWindow /\ log[m + LmMax] <= log[i] /\ log[m + LmMax] \in Nat
        BY <4>1, <2>3, <3>1, <3>2, <1>0
      <4>3. QED BY <4>2, <3>1, <2>3, LmLimits
    <3>3. QED BY <3>1, <3>2, <2>3, LmLimits
  <2> DEFINE b == m + LmMax - 1
  <2>5. T \in SUBSET (m .. b)
    <3> HIDE DEF T
    <3>1. QED BY <2>4
  <2>6. m \in Int /\ b \in Int /\ b - m + 1 = LmMax /\ ~(m > b)
    BY <2>3, LmLimits
  <2> HIDE DEF b
  <2>7. IsFiniteSet(m .. b) /\ Cardinality(m .. b) = IF m > b THEN 0 ELSE b - m + 1
    BY <2>6, FS_Interval
  <2>8. Cardinality(m .. b) = LmMax
    BY <2>6, <2>7
  <2>9. Cardinality(T) <= Cardinality(m .. b)
    <3> HIDE DEF T
    <3>1. QED BY <2>5, <2>7, FS_Subset
  <2>10. Cardinality(T) <= LmMax
    <3> HIDE DEF T
    <3>1. QED BY <2>8, <2>9
  <2>11. QED BY <2>10
<1>3. QED BY <1>1, <1>2

\* Once the wait that was named is over, a window that admitted nothing since has room.
LEMMA LmWaits ==
    ASSUME NEW log, NEW hits, NEW told, LmWell(log, hits, told, lmnow),
           told.wait # 0, lmnow > told.at + told.wait,
           \A i \in DOMAIN log : log[i] <= told.at
    PROVE  Len(Pruned(hits)) < LmMax
<1> DEFINE P == Pruned(hits)
<1>a. LmKept(log, hits, lmnow) /\ LmSpaced(log) /\ LmToldRight(log, told)
  BY DEF LmWell
<1>b. LmKept(log, P, lmnow)
  BY <1>a, LmKeptPruned
<1>c. hits \in Seq(Nat) /\ lmnow \in Nat
  BY <1>a DEF LmKept
<1>d. Len(P) > 0 => lmnow - P[1] <= LmWindow
  BY <1>c, LmPruned
<1> HIDE DEF P
<1>0. /\ log \in Seq(Nat) /\ P \in Seq(Nat) /\ lmnow \in Nat
      /\ Len(log) \in Nat /\ Len(P) \in Nat /\ Len(P) <= Len(log) /\ DOMAIN log = 1 .. Len(log)
      /\ \A i \in 1 .. Len(P) : P[i] = log[Len(log) - Len(P) + i]
      /\ \A i \in 1 .. Len(log) : \A j \in 1 .. Len(log) : i <= j => log[i] <= log[j]
      /\ \A i \in 1 .. Len(log) : i + LmMax <= Len(log) => log[i + LmMax] - log[i] > LmWindow
  BY <1>a, <1>b DEF LmKept, LmSpaced
<1>1. told.at \in Nat /\ told.wait \in Nat
  BY <1>a DEF LmToldRight
<1> SUFFICES ASSUME Len(P) >= LmMax PROVE FALSE
  BY <1>0, LmLimits DEF P
<1> DEFINE f == Len(log) - Len(P) + 1
<1>2. f \in 1 .. Len(log) /\ P[1] = log[f] /\ lmnow - log[f] <= LmWindow /\ log[f] \in Nat
  <2>1. Len(P) > 0 /\ 1 \in 1 .. Len(P)
    BY <1>0, LmLimits
  <2>2. P[1] = log[Len(log) - Len(P) + 1]
    BY <2>1, <1>0
  <2>3. QED BY <2>1, <2>2, <1>0, <1>d
<1>3. f + LmMax <= Len(log) + 1
  BY <1>0, LmLimits
<1> HIDE DEF f
<1>4. log[f] <= told.at
  BY <1>2, <1>0
<1>5. CASE told.wait = LmWindow
  <2>1. lmnow \in Nat /\ lmnow > told.at + LmWindow
    BY <1>5, <1>0
  <2>2. QED BY <2>1, <1>1, <1>2, <1>4, LmLimits
<1>6. CASE told.wait # LmWindow
  <2>1. PICK p \in 1 .. Len(log) : log[p] + LmWindow = told.at + told.wait /\ log[p] <= told.at
    BY <1>6, <1>a DEF LmToldRight
  <2>2. log[p] \in Nat /\ lmnow > log[p] + LmWindow
    BY <2>1, <1>0
  <2>3. p < f
    <3>1. CASE f <= p
      <4>1. log[f] <= log[p]
        BY <3>1, <2>1, <1>2, <1>0
      <4>2. QED BY <4>1, <2>2, <1>2, <1>0, LmLimits
    <3>2. QED BY <3>1, <1>2, <2>1
  <2>4. p + LmMax \in 1 .. Len(log) /\ p + LmMax <= Len(log)
    BY <2>1, <2>3, <1>2, <1>3, <1>0, LmLimits
  <2>5. log[p + LmMax] - log[p] > LmWindow /\ log[p + LmMax] <= told.at /\ log[p + LmMax] \in Nat
    BY <2>1, <2>4, <1>0
  <2>6. told.wait <= LmWindow /\ log[p] + LmWindow = told.at + told.wait
    BY <2>1, <1>a DEF LmToldRight
  <2>7. QED BY <2>5, <2>6, <2>2, <1>1, LmLimits
<1>7. QED BY <1>5, <1>6

\* What every window of the invariant gives, in parts.
LEMMA LmParts ==
    ASSUME LmInv, NEW k \in Windows
    PROVE  /\ LmKept(lmlog[k], lmhits[k], lmnow) /\ LmSpaced(lmlog[k])
           /\ LmToldRight(lmlog[k], lmtold[k])
           /\ lmlog[k] \in Seq(Nat) /\ lmhits[k] \in Seq(Nat) /\ Len(lmhits[k]) <= LmMax
           /\ Pruned(lmhits[k]) \in Seq(Nat) /\ Len(Pruned(lmhits[k])) <= LmMax
           /\ LmKept(lmlog[k], Pruned(lmhits[k]), lmnow)
           /\ Len(Pruned(lmhits[k])) > 0 => lmnow - Pruned(lmhits[k])[1] <= LmWindow
           /\ lmnow \in Nat
           /\ lmhits[k] = <<>> => Pruned(lmhits[k]) = <<>>
<1>1. LmKept(lmlog[k], lmhits[k], lmnow) /\ LmSpaced(lmlog[k])
      /\ LmToldRight(lmlog[k], lmtold[k]) /\ Len(lmhits[k]) <= LmMax
  BY DEF LmInv, LmWell
<1>2. lmlog[k] \in Seq(Nat) /\ lmhits[k] \in Seq(Nat) /\ lmnow \in Nat
  BY <1>1 DEF LmKept
<1> DEFINE hits == lmhits[k]
           P == Pruned(hits)
<1>3. P \in Seq(Nat) /\ Len(P) <= Len(hits) /\ (Len(P) > 0 => lmnow - P[1] <= LmWindow)
  BY <1>2, LmPruned
<1>4. LmKept(lmlog[k], P, lmnow)
  BY <1>1, LmKeptPruned
<1> HIDE DEF P
<1>5. Len(P) <= LmMax /\ (hits = <<>> => P = <<>>)
  BY <1>1, <1>2, <1>3, LmLimits, EmptySeq
<1>6. QED BY <1>1, <1>2, <1>3, <1>4, <1>5 DEF P

\* A check prunes windows, and leaves them what they were.
LEMMA LmPrunedWith ==
    ASSUME LmInv, NEW k \in Windows, NEW j \in Windows
    PROVE  /\ PrunedWith(k)[j] \in {lmhits[j], Pruned(lmhits[j])}
           /\ LmWell(lmlog[j], PrunedWith(k)[j], lmtold[j], lmnow)
           /\ PrunedWith(k)[j] \in Seq(Nat) /\ Len(PrunedWith(k)[j]) <= LmMax
<1>1. PrunedWith(k)[j] \in {lmhits[j], Pruned(lmhits[j])}
  BY DEF PrunedWith
<1>2. QED BY <1>1, LmParts DEF LmWell

\* The windows of the table that hold something after it was pruned are few, and stay
\* few with one more when there was room for it.
LEMMA LmActive ==
    ASSUME LmInv
    PROVE  /\ IsFiniteSet({j \in LmKeys : Active(j)})
           /\ Cardinality({j \in LmKeys : Active(j)}) <= LmMaxKeys
           /\ {j \in LmKeys : Active(j)} \subseteq LmHeld
<1> DEFINE A == {j \in LmKeys : Active(j)}
<1>1. A \subseteq LmHeld
  <2> SUFFICES ASSUME NEW j \in LmKeys, Active(j) PROVE lmhits[j] # <<>>
    BY DEF LmHeld
  <2>1. j \in Windows
    BY DEF Windows
  <2>2. lmhits[j] = <<>> => Pruned(lmhits[j]) = <<>>
    BY <2>1, LmParts
  <2>3. QED BY <2>2 DEF Active
<1>2. IsFiniteSet(LmHeld) /\ Cardinality(LmHeld) <= LmMaxKeys
  BY DEF LmInv, LmTable
<1> HIDE DEF A
<1>3. IsFiniteSet(A) /\ Cardinality(A) <= Cardinality(LmHeld)
  BY <1>1, <1>2, FS_Subset
<1>4. Cardinality(A) \in Nat /\ Cardinality(LmHeld) \in Nat
  BY <1>2, <1>3, FS_CardinalityType
<1>5. Cardinality(A) <= LmMaxKeys
  BY <1>2, <1>3, <1>4, LmLimits
<1>6. QED BY <1>1, <1>3, <1>5 DEF A

\* Fewer windows that hold something are few as well.
LEMMA LmFewer ==
    ASSUME LmInv, NEW S, S \subseteq LmHeld
    PROVE  IsFiniteSet(S) /\ Cardinality(S) <= LmMaxKeys
<1>1. IsFiniteSet(LmHeld) /\ Cardinality(LmHeld) <= LmMaxKeys
  BY DEF LmInv, LmTable
<1>2. IsFiniteSet(S) /\ Cardinality(S) <= Cardinality(LmHeld)
  BY <1>1, FS_Subset
<1>3. Cardinality(S) \in Nat /\ Cardinality(LmHeld) \in Nat
  BY <1>1, <1>2, FS_CardinalityType
<1>4. QED BY <1>1, <1>2, <1>3, LmLimits

\* A window admits a hit only with room for it, and a new key only into a table with room.
LEMMA LmAdmitStep ==
    ASSUME LmInv, NEW k \in Windows, ~NoRoom(k), ~Full(k), LmAdmit(k)
    PROVE  /\ lmhits' \in [Windows -> Seq(Nat)] /\ lmlog' \in [Windows -> Seq(Nat)]
           /\ lmtold' = lmtold
           /\ \A j \in Windows : /\ LmWell(lmlog'[j], lmhits'[j], lmtold[j], lmnow)
                                 /\ Len(lmhits'[j]) <= LmMax
           /\ LmTable'
<1> DEFINE H == PrunedWith(k)
<1>0. /\ lmhits' = [H EXCEPT ![k] = Append(@, lmnow)]
      /\ lmlog' = [lmlog EXCEPT ![k] = Append(@, lmnow)] /\ lmtold' = lmtold
  BY DEF LmAdmit
<1>1. \A j \in Windows : /\ H[j] \in {lmhits[j], Pruned(lmhits[j])}
                         /\ LmWell(lmlog[j], H[j], lmtold[j], lmnow)
                         /\ H[j] \in Seq(Nat) /\ Len(H[j]) <= LmMax
  BY LmPrunedWith
<1>2. DOMAIN H = Windows /\ H = [j \in Windows |-> H[j]] /\ H[k] = Pruned(lmhits[k])
  BY DEF PrunedWith
<1>2a. \A j \in LmKeys : k = Own => H[j] = lmhits[j]
  BY LmLimits DEF PrunedWith, Windows
<1>2b. \A j \in LmKeys : k \in LmKeys => H[j] = Pruned(lmhits[j])
  BY LmLimits DEF PrunedWith, Windows
<1>2c. H \in [Windows -> Seq(Nat)]
  BY <1>1, <1>2
<1> HIDE DEF H
<1>3. lmlog \in [Windows -> Seq(Nat)] /\ lmtold \in [Windows -> [at : Nat, wait : Nat]] /\ lmnow \in Nat
  BY LmParts DEF LmInv, LmShape
<1>4. Append(H[k], lmnow) \in Seq(Nat) /\ Append(lmlog[k], lmnow) \in Seq(Nat)
      /\ Len(Append(H[k], lmnow)) = Len(H[k]) + 1 /\ Append(H[k], lmnow) # <<>>
  <2>1. H[k] \in Seq(Nat) /\ lmlog[k] \in Seq(Nat) /\ lmnow \in Nat
    BY <1>1, <1>3
  <2>2. Append(lmlog[k], lmnow) \in Seq(Nat)
    BY <2>1, AppendProperties
  <2>3. Append(H[k], lmnow) \in Seq(Nat) /\ Len(Append(H[k], lmnow)) = Len(H[k]) + 1
    BY <2>1, AppendProperties
  <2>4. Append(H[k], lmnow) # <<>>
    <3>1. Len(Append(H[k], lmnow)) # 0
      BY <2>1, <2>3
    <3>2. Len(<<>>) = 0
      OBVIOUS
    <3>3. QED BY <3>1, <3>2
  <2>5. QED BY <2>2, <2>3, <2>4
<1>5. lmhits' \in [Windows -> Seq(Nat)] /\ lmlog' \in [Windows -> Seq(Nat)]
  BY <1>0, <1>2c, <1>3, <1>4
<1>6. /\ lmhits'[k] = Append(H[k], lmnow) /\ lmlog'[k] = Append(lmlog[k], lmnow)
      /\ \A j \in Windows : j # k => lmhits'[j] = H[j] /\ lmlog'[j] = lmlog[j]
  BY <1>0, <1>2c, <1>3
<1>7. Len(H[k]) \in Nat /\ Len(H[k]) < LmMax
  BY <1>1, <1>2, LmLimits DEF Full
<1>8. LmWell(lmlog'[k], lmhits'[k], lmtold[k], lmnow) /\ Len(lmhits'[k]) <= LmMax
  <2>1. LmKept(lmlog[k], H[k], lmnow) /\ LmSpaced(lmlog[k]) /\ LmToldRight(lmlog[k], lmtold[k])
    BY <1>1 DEF LmWell
  <2>2. LmKept(Append(lmlog[k], lmnow), Append(H[k], lmnow), lmnow)
    BY <2>1, LmKeptAdmit
  <2>3. LmSpaced(Append(lmlog[k], lmnow))
    BY <2>1, <1>7, LmSpacedAdmit
  <2>4. LmToldRight(Append(lmlog[k], lmnow), lmtold[k])
    BY <2>1, <1>3, LmToldAdmit
  <2>5. Len(Append(H[k], lmnow)) <= LmMax
    BY <1>4, <1>7, LmLimits
  <2>6. QED BY <2>2, <2>3, <2>4, <2>5, <1>6 DEF LmWell
<1>9. \A j \in Windows : LmWell(lmlog'[j], lmhits'[j], lmtold[j], lmnow) /\ Len(lmhits'[j]) <= LmMax
  BY <1>1, <1>6, <1>8
<1> DEFINE A == {j \in LmKeys : Active(j)}
<1>10. LmTable'
  <2>1. LmHeld' = {j \in LmKeys : lmhits'[j] # <<>>}
    BY DEF LmHeld
  <2>2. CASE k = Own
    <3>1. \A j \in LmKeys : j \in Windows /\ j # k
      BY <2>2, LmLimits DEF Windows
    <3>2. \A j \in LmKeys : lmhits'[j] = lmhits[j]
      BY <3>1, <1>6, <1>2a, <2>2
    <3>3. LmHeld' = LmHeld
      BY <2>1, <3>2 DEF LmHeld
    <3>4. QED BY <3>3 DEF LmTable, LmInv
  <2>3. CASE k \in LmKeys
    <3>1. \A j \in LmKeys : j \in Windows
      BY DEF Windows
    <3>2. \A j \in LmKeys : lmhits'[j] # <<>> <=> Active(j) \/ j = k
      BY <3>1, <1>6, <1>2b, <1>4, <2>3 DEF Active
    <3>3. LmHeld' = A \cup {k}
      BY <2>1, <3>2, <2>3
    <3>4. IsFiniteSet(A) /\ Cardinality(A) <= LmMaxKeys
      BY LmActive
    <3>5. k \in A \/ Cardinality(A) < LmMaxKeys
      <4>1. CASE Active(k)
        BY <4>1, <2>3
      <4>2. CASE ~Active(k)
        <5>1. ~(Cardinality(A) >= LmMaxKeys)
          BY <4>2, <2>3 DEF NoRoom
        <5>2. Cardinality(A) \in Nat
          BY <3>4, FS_CardinalityType
        <5>3. QED BY <5>1, <5>2, LmLimits
      <4>3. QED BY <4>1, <4>2
    <3> HIDE DEF A
    <3>6. IsFiniteSet(A \cup {k})
          /\ Cardinality(A \cup {k}) = IF k \in A THEN Cardinality(A) ELSE Cardinality(A) + 1
      BY <3>4, FS_AddElement
    <3>7. Cardinality(A) \in Nat
      BY <3>4, FS_CardinalityType
    <3>8. Cardinality(A \cup {k}) <= LmMaxKeys
      BY <3>4, <3>5, <3>6, <3>7, LmLimits
    <3>9. QED BY <3>3, <3>6, <3>8 DEF LmTable
  <2>4. QED BY <2>2, <2>3 DEF Windows
<1>11. QED BY <1>0, <1>5, <1>9, <1>10

\* A refusal names a wait that is right.
LEMMA LmRefuseStep ==
    ASSUME LmInv, NEW k \in Windows, LmRefuse(k)
    PROVE  /\ lmhits' \in [Windows -> Seq(Nat)] /\ lmlog' = lmlog
           /\ lmtold' \in [Windows -> [at : Nat, wait : Nat]]
           /\ \A j \in Windows : /\ LmWell(lmlog[j], lmhits'[j], lmtold'[j], lmnow)
                                 /\ Len(lmhits'[j]) <= LmMax
           /\ LmTable'
<1> DEFINE H == PrunedWith(k)
           w == IF NoRoom(k) THEN LmWindow ELSE RetryAfter(Pruned(lmhits[k]))
           said == [at |-> lmnow, wait |-> w]
<1>0. lmhits' = H /\ lmtold' = [lmtold EXCEPT ![k] = said] /\ lmlog' = lmlog
  BY DEF LmRefuse
<1>1. \A j \in Windows : /\ H[j] \in {lmhits[j], Pruned(lmhits[j])}
                         /\ LmWell(lmlog[j], H[j], lmtold[j], lmnow)
                         /\ H[j] \in Seq(Nat) /\ Len(H[j]) <= LmMax
  BY LmPrunedWith
<1>2. DOMAIN H = Windows /\ H = [j \in Windows |-> H[j]] /\ H[k] = Pruned(lmhits[k])
  BY DEF PrunedWith
<1>3. H \in [Windows -> Seq(Nat)]
  BY <1>1, <1>2
<1>4. w \in {LmWindow, RetryAfter(H[k])}
  BY <1>2
<1> HIDE DEF H, w
<1>5. LmKept(lmlog[k], H[k], lmnow) /\ LmSpaced(lmlog[k])
  BY <1>1 DEF LmWell
<1>6. Len(H[k]) > 0 => lmnow - H[k][1] <= LmWindow
  BY <1>2, LmParts
<1>7. LmToldRight(lmlog[k], said)
  BY <1>4, <1>5, <1>6, LmToldRefuse
<1>8. said \in [at : Nat, wait : Nat]
  BY <1>7 DEF LmToldRight
<1>9. lmtold \in [Windows -> [at : Nat, wait : Nat]]
  BY DEF LmInv, LmShape
<1> HIDE DEF said
<1>10. /\ lmtold' \in [Windows -> [at : Nat, wait : Nat]] /\ lmtold'[k] = said
       /\ \A j \in Windows : j # k => lmtold'[j] = lmtold[j]
  BY <1>0, <1>8, <1>9
<1>11. LmWell(lmlog[k], H[k], lmtold'[k], lmnow)
  BY <1>5, <1>7, <1>10 DEF LmWell
<1>12. \A j \in Windows : LmWell(lmlog[j], lmhits'[j], lmtold'[j], lmnow) /\ Len(lmhits'[j]) <= LmMax
  BY <1>0, <1>1, <1>10, <1>11
<1>13. LmTable'
  <2>1. LmHeld' \subseteq LmHeld
    <3> SUFFICES ASSUME NEW j \in LmKeys, H[j] # <<>> PROVE lmhits[j] # <<>>
      BY <1>0 DEF LmHeld
    <3>1. j \in Windows
      BY DEF Windows
    <3>2. QED BY <3>1, <1>1, LmParts
  <2>2. QED BY <2>1, LmFewer DEF LmTable
<1>14. QED BY <1>0, <1>3, <1>10, <1>12, <1>13

\* The initial state satisfies the invariant.
LEMMA LmInvInit == LmInit => LmInv
<1> SUFFICES ASSUME LmInit PROVE LmInv
  OBVIOUS
<1>0. <<>> \in Seq(Nat) /\ Len(<<>>) = 0
  OBVIOUS
<1>1. LmShape
  <2>1. NotTold \in [at : Nat, wait : Nat] /\ lmwrote \in [failures : Nat, floods : Nat]
    BY DEF NotTold, LmInit
  <2>2. /\ lmhits \in [Windows -> Seq(Nat)] /\ lmlog \in [Windows -> Seq(Nat)]
        /\ lmtold \in [Windows -> [at : Nat, wait : Nat]]
    BY <1>0, <2>1 DEF LmInit
  <2>3. lmpc \in [LmCallers -> {"idle", "failed", "admitted"}]
    BY DEF LmInit
  <2>4. lmnow \in 0 .. LmMaxTime
    BY LmLimits DEF LmInit
  <2>5. lmuse \in {"table", "listener"} /\ lmnoted \in BOOLEAN
    BY DEF LmInit
  <2>6. QED BY <2>1, <2>2, <2>3, <2>4, <2>5 DEF LmShape
<1>2. LmKept(<<>>, <<>>, 0) /\ LmSpaced(<<>>)
  BY <1>0 DEF LmKept, LmSpaced
<1>3. LmToldRight(<<>>, NotTold)
  BY LmLimits DEF LmToldRight, NotTold
<1>4. \A k \in Windows : LmWell(lmlog[k], lmhits[k], lmtold[k], lmnow) /\ Len(lmhits[k]) <= LmMax
  BY <1>0, <1>2, <1>3, LmLimits DEF LmInit, LmWell
<1>5. LmHeld = {}
  BY DEF LmHeld, LmInit, Windows
<1>6. LmTable
  <2>1. IsFiniteSet({}) /\ Cardinality({}) = 0
    BY FS_EmptySet
  <2>2. QED BY <1>5, <2>1, LmLimits DEF LmTable
<1>7. LmFloods
  BY DEF LmFloods, LmInit
<1>8. QED BY <1>1, <1>4, <1>6, <1>7 DEF LmInv

\* A flood is noted once.
LEMMA LmFloodStep ==
    ASSUME LmInv, Flood
    PROVE  lmnoted' \in BOOLEAN /\ lmwrote' \in [failures : Nat, floods : Nat] /\ LmFloods'
<1>0. lmwrote \in [failures : Nat, floods : Nat] /\ lmnoted \in BOOLEAN
      /\ lmwrote.floods <= lmwrote.failures + (IF lmnoted THEN 1 ELSE 0)
  BY DEF LmInv, LmShape, LmFloods
<1>1. CASE lmnoted
  BY <1>0, <1>1 DEF Flood, LmFloods
<1>2. CASE ~lmnoted
  <2>1. lmwrote' = [lmwrote EXCEPT !.floods = @ + 1] /\ lmnoted'
    BY <1>2 DEF Flood
  <2>2. lmwrote' \in [failures : Nat, floods : Nat]
        /\ lmwrote'.floods = lmwrote.floods + 1 /\ lmwrote'.failures = lmwrote.failures
    BY <1>0, <2>1
  <2>3. QED BY <1>0, <1>2, <2>1, <2>2 DEF Flood, LmFloods
<1>3. QED BY <1>1, <1>2

\* Every step keeps the invariant.
LEMMA LmInvStep == LmInv /\ [LmNext]_lmVars => LmInv'
<1> SUFFICES ASSUME LmInv, [LmNext]_lmVars PROVE LmInv'
  OBVIOUS
<1>0. LmShape /\ LmTable /\ LmFloods
      /\ \A k \in Windows : LmWell(lmlog[k], lmhits[k], lmtold[k], lmnow) /\ Len(lmhits[k]) <= LmMax
  BY DEF LmInv
<1>s. ASSUME UNCHANGED lmhits PROVE LmTable'
  <2>1. LmHeld' = LmHeld
    BY <1>s DEF LmHeld
  <2>2. QED BY <1>0, <2>1 DEF LmTable
<1>1. CASE LmTick
  <2>1. lmnow \in Nat /\ lmnow' = lmnow + 1 /\ lmnow' \in 0 .. LmMaxTime
    BY <1>0, <1>1, LmLimits DEF LmTick, LmShape
  <2>2. \A k \in Windows : LmWell(lmlog[k], lmhits[k], lmtold[k], lmnow')
    BY <1>0, <2>1, LmLater DEF LmWell
  <2>3. LmShape' /\ LmFloods'
    BY <1>0, <1>1, <2>1 DEF LmTick, LmShape, LmFloods
  <2>4. LmTable'
    BY <1>1, <1>s DEF LmTick
  <2>5. QED BY <1>0, <1>1, <2>2, <2>3, <2>4 DEF LmTick, LmInv
<1>2. ASSUME NEW k \in LmKeys, LmCheck(k) PROVE LmInv'
  <2>0. k \in Windows
    BY DEF Windows
  <2>1. UNCHANGED <<lmuse, lmnow, lmpc, lmnoted, lmwrote>>
    BY <1>2 DEF LmCheck
  <2>2. LmFloods'
    BY <1>0, <2>1 DEF LmFloods
  <2>3. CASE NoRoom(k) \/ Full(k)
    <3>1. LmRefuse(k)
      BY <1>2, <2>3 DEF LmCheck
    <3>2. QED BY <1>0, <2>0, <2>1, <2>2, <3>1, LmRefuseStep DEF LmInv, LmShape
  <2>4. CASE ~(NoRoom(k) \/ Full(k))
    <3>1. LmAdmit(k)
      BY <1>2, <2>4 DEF LmCheck
    <3>2. QED BY <1>0, <2>0, <2>1, <2>2, <2>4, <3>1, LmAdmitStep DEF LmInv, LmShape
  <2>5. QED BY <2>3, <2>4
<1>3. ASSUME NEW k \in LmKeys, LmLook(k) PROVE LmInv'
  <2>0. k \in Windows
    BY DEF Windows
  <2>1. UNCHANGED <<lmuse, lmnow, lmlog, lmtold, lmpc, lmnoted, lmwrote>>
        /\ lmhits' = [lmhits EXCEPT ![k] = Pruned(@)]
    BY <1>3 DEF LmLook
  <2>2. lmhits \in [Windows -> Seq(Nat)] /\ Pruned(lmhits[k]) \in Seq(Nat)
    BY <1>0, <2>0, LmParts DEF LmShape
  <2>3. /\ lmhits' \in [Windows -> Seq(Nat)] /\ lmhits'[k] = Pruned(lmhits[k])
        /\ \A j \in Windows : j # k => lmhits'[j] = lmhits[j]
    BY <2>0, <2>1, <2>2
  <2>4. LmShape' /\ LmFloods'
    BY <1>0, <2>1, <2>3 DEF LmShape, LmFloods
  <2>5. LmWell(lmlog[k], Pruned(lmhits[k]), lmtold[k], lmnow) /\ Len(Pruned(lmhits[k])) <= LmMax
    BY <2>0, LmParts DEF LmWell
  <2>6. \A j \in Windows : LmWell(lmlog[j], lmhits'[j], lmtold[j], lmnow) /\ Len(lmhits'[j]) <= LmMax
    BY <1>0, <2>3, <2>5
  <2>7. LmTable'
    <3>1. \A j \in LmKeys : j \in Windows
      BY DEF Windows
    <3>2. \A j \in LmKeys : lmhits'[j] # <<>> => lmhits[j] # <<>>
      BY <2>3, <3>1, LmParts
    <3>3. LmHeld' \subseteq LmHeld
      BY <3>2 DEF LmHeld
    <3>4. QED BY <3>3, LmFewer DEF LmTable
  <2>8. QED BY <2>1, <2>4, <2>6, <2>7 DEF LmInv
<1>4. ASSUME NEW c \in LmCallers, NEW m \in BOOLEAN, LmPresent(c, m) PROVE LmInv'
  <2>1. UNCHANGED <<lmuse, lmnow, lmhits, lmlog, lmtold>>
    BY <1>4 DEF LmPresent
  <2>2. LmTable'
    BY <1>s, <2>1
  <2>3. CASE Full(Own) /\ ~m
    <3>1. Flood /\ UNCHANGED lmpc
      BY <1>4, <2>3 DEF LmPresent
    <3>2. QED BY <1>0, <2>1, <2>2, <3>1, LmFloodStep DEF LmInv, LmShape
  <2>4. CASE ~(Full(Own) /\ ~m)
    <3>1. lmpc' = [lmpc EXCEPT ![c] = "failed"] /\ UNCHANGED <<lmnoted, lmwrote>>
      BY <1>4, <2>4 DEF LmPresent
    <3>2. LmShape' /\ LmFloods'
      BY <1>0, <2>1, <3>1 DEF LmShape, LmFloods
    <3>3. QED BY <1>0, <2>1, <2>2, <3>2 DEF LmInv
  <2>5. QED BY <2>3, <2>4
<1>5. ASSUME NEW c \in LmCallers, LmFailed(c) PROVE LmInv'
  <2>0. Own \in Windows
    BY DEF Windows
  <2>1. UNCHANGED <<lmuse, lmnow>>
    BY <1>5 DEF LmFailed
  <2>2. CASE Full(Own)
    <3>1. Flood /\ LmRefuse(Own) /\ lmpc' = [lmpc EXCEPT ![c] = "idle"]
      BY <1>5, <2>2 DEF LmFailed
    <3>2. lmnoted' \in BOOLEAN /\ lmwrote' \in [failures : Nat, floods : Nat] /\ LmFloods'
      BY <3>1, LmFloodStep
    <3>3. QED BY <1>0, <2>0, <2>1, <3>1, <3>2, LmRefuseStep DEF LmInv, LmShape
  <2>3. CASE ~Full(Own)
    <3>1. LmAdmit(Own) /\ lmpc' = [lmpc EXCEPT ![c] = "admitted"] /\ UNCHANGED <<lmnoted, lmwrote>>
      BY <1>5, <2>3 DEF LmFailed
    <3>2. ~NoRoom(Own)
      BY LmLimits DEF NoRoom
    <3>3. LmFloods'
      BY <1>0, <3>1 DEF LmFloods
    <3>4. QED BY <1>0, <2>0, <2>1, <2>3, <3>1, <3>2, <3>3, LmAdmitStep DEF LmInv, LmShape
  <2>4. QED BY <2>2, <2>3
<1>6. ASSUME NEW c \in LmCallers, LmNoted(c) PROVE LmInv'
  <2>1. /\ UNCHANGED <<lmuse, lmnow, lmhits, lmlog, lmtold>> /\ lmnoted' = FALSE
        /\ lmpc' = [lmpc EXCEPT ![c] = "idle"]
        /\ lmwrote' = [lmwrote EXCEPT !.failures = @ + 1]
    BY <1>6 DEF LmNoted
  <2>2. LmTable'
    BY <1>s, <2>1
  <2>3. lmwrote \in [failures : Nat, floods : Nat] /\ lmnoted \in BOOLEAN
        /\ lmwrote.floods <= lmwrote.failures + (IF lmnoted THEN 1 ELSE 0)
    BY <1>0 DEF LmShape, LmFloods
  <2>4. /\ lmwrote' \in [failures : Nat, floods : Nat]
        /\ lmwrote'.failures = lmwrote.failures + 1 /\ lmwrote'.floods = lmwrote.floods
    BY <2>1, <2>3
  <2>5. lmwrote.floods <= lmwrote.failures + 1
    <3>1. CASE lmnoted
      BY <2>3, <3>1
    <3>2. CASE ~lmnoted
      BY <2>3, <3>2
    <3>3. QED BY <3>1, <3>2
  <2>6. LmFloods'
    BY <2>1, <2>3, <2>4, <2>5 DEF LmFloods
  <2>7. LmShape'
    BY <1>0, <2>1, <2>4 DEF LmShape
  <2>8. QED BY <1>0, <2>1, <2>2, <2>6, <2>7 DEF LmInv
<1>7. CASE UNCHANGED lmVars
  <2>1. LmTable'
    BY <1>7, <1>s DEF lmVars
  <2>2. LmShape' /\ LmFloods'
    BY <1>0, <1>7 DEF lmVars, LmShape, LmFloods
  <2>3. QED BY <1>0, <1>7, <2>1, <2>2 DEF lmVars, LmInv
<1>8. QED BY <1>1, <1>2, <1>3, <1>4, <1>5, <1>6, <1>7 DEF LmNext

\* The invariant says what the properties ask.
LEMMA LmInvMeans == LmInv => LimitsSound
<1> SUFFICES ASSUME LmInv PROVE LimitsSound
  OBVIOUS
<1>1. LmTypeOK
  <2>1. Cardinality({k \in LmKeys : lmhits[k] # <<>>}) <= LmMaxKeys
    BY DEF LmInv, LmTable, LmHeld
  <2>2. QED BY <2>1 DEF LmInv, LmShape, LmTypeOK
<1>2. LmSliding
  <2> SUFFICES ASSUME NEW k \in Windows, NEW t \in 0 .. LmMaxTime
               PROVE Cardinality({i \in DOMAIN lmlog[k] : lmlog[k][i] \in t .. t + LmWindow}) <= LmMax
    BY DEF LmSliding
  <2>1. t \in Nat
    BY LmLimits
  <2>2. QED BY <2>1, LmParts, LmSlides
<1>3. LmWaitEnds
  <2> SUFFICES ASSUME NEW k \in Windows
               PROVE /\ lmtold[k].wait <= LmWindow
                     /\ lmtold[k].wait # 0 /\ lmnow > lmtold[k].at + lmtold[k].wait
                          /\ (\A i \in DOMAIN lmlog[k] : lmlog[k][i] <= lmtold[k].at) => ~Full(k)
    BY DEF LmWaitEnds
  <2>1. lmtold[k].wait <= LmWindow
    BY LmParts DEF LmToldRight
  <2>2. LmWell(lmlog[k], lmhits[k], lmtold[k], lmnow)
    BY DEF LmInv
  <2>3. ASSUME lmtold[k].wait # 0, lmnow > lmtold[k].at + lmtold[k].wait,
               \A i \in DOMAIN lmlog[k] : lmlog[k][i] <= lmtold[k].at
        PROVE  ~Full(k)
    <3>1. Len(Pruned(lmhits[k])) < LmMax
      BY <2>2, <2>3, LmWaits
    <3>2. Len(Pruned(lmhits[k])) \in Nat
      BY LmParts
    <3>3. QED BY <3>1, <3>2, LmLimits DEF Full
  <2>4. QED BY <2>1, <2>3
<1>4. LmFloodBounded
  <2>1. lmwrote \in [failures : Nat, floods : Nat] /\ lmnoted \in BOOLEAN
        /\ lmwrote.floods <= lmwrote.failures + (IF lmnoted THEN 1 ELSE 0)
    BY DEF LmInv, LmShape, LmFloods
  <2>2. CASE lmnoted
    BY <2>1, <2>2 DEF LmFloodBounded
  <2>3. CASE ~lmnoted
    BY <2>1, <2>3 DEF LmFloodBounded
  <2>4. QED BY <2>2, <2>3
<1>5. QED BY <1>1, <1>2, <1>3, <1>4 DEF LimitsSound

\* For any keys, limits and interleaving of the calls: no stretch of a window's length
\* holds more admissions than the limit, a table of windows stays within its size, the
\* wait that a refusal names is enough, and a flood of failures is noted once for each
\* failure that was admitted (KeyedLimiter, WindowLimiter, endpoint_auth_failure).
THEOREM LimitsHold == LmSpec => []LimitsSound
<1>1. LmInit => LmInv
  BY LmInvInit
<1>2. LmInv /\ [LmNext]_lmVars => LmInv'
  BY LmInvStep
<1>3. LmInv => LimitsSound
  BY LmInvMeans
<1>4. QED BY <1>1, <1>2, <1>3, PTL DEF LmSpec

----------------------------------------------------------------------------
(* The stream that is scrubbed as it is relayed                            *)

\* What is relayed is made of, and what a needle is.
Sym == RdBytes \cup {Mark}
Needle == {n \in Seq(RdBytes) : Len(n) >= 1}

Suf(c, i) == SubSeq(c, i, Len(c))

\* n stands in w from position i on.
Occurs(w, i, n) ==
    /\ i + (Len(n) - 1) <= Len(w)
    /\ \A d \in 1 .. Len(n) : w[i + (d - 1)] = n[d]

\* Numbers have a least one among them.
LEMMA RdLeast ==
    ASSUME NEW T \in SUBSET Nat, T # {}
    PROVE  \E m \in T : \A k \in T : m <= k
<1>1. \E m \in T : \A y \in T : ~ (<<y, m>> \in OpToRel(<, Nat))
  BY NatLessThanWellFounded, WFMin
<1>2. PICK m \in T : \A y \in T : ~ (<<y, m>> \in OpToRel(<, Nat))
  BY <1>1
<1>3. \A y \in T : ~(y < m)
  BY <1>2 DEF OpToRel
<1>4. QED BY <1>3

\* A suffix, element by element.
LEMMA RdSuf ==
    ASSUME NEW S, NEW c \in Seq(S), NEW i \in 1 .. Len(c) + 1
    PROVE  /\ Suf(c, i) \in Seq(S) /\ Len(Suf(c, i)) = (Len(c) - i) + 1
           /\ \A d \in 1 .. (Len(c) - i) + 1 : Suf(c, i)[d] = c[i + (d - 1)]
<1>1. Len(c) \in Nat /\ i \in Int /\ Len(c) \in Int /\ \A j \in 1 .. Len(c) : c[j] \in S
  BY LenProperties, ElementOfSeq
<1>2. \A j \in i .. Len(c) : c[j] \in S
  BY <1>1
<1>3. /\ Suf(c, i) \in Seq(S)
      /\ Len(Suf(c, i)) = IF i <= Len(c) THEN Len(c) - i + 1 ELSE 0
      /\ \A d \in 1 .. Len(c) - i + 1 : Suf(c, i)[d] = c[i + d - 1]
  BY <1>1, <1>2, SubSeqProperties DEF Suf
<1>4. Len(Suf(c, i)) = (Len(c) - i) + 1
  BY <1>1, <1>3
<1>5. ASSUME NEW d \in 1 .. (Len(c) - i) + 1 PROVE Suf(c, i)[d] = c[i + (d - 1)]
  <2>1. i + d - 1 = i + (d - 1) /\ d \in 1 .. Len(c) - i + 1
    BY <1>1
  <2>2. QED BY <1>3, <2>1
<1>6. QED BY <1>3, <1>4, <1>5

\* StartsAt says so.
LEMMA RdStarts ==
    ASSUME NEW S, NEW w \in Seq(S), NEW n \in Seq(S), NEW i \in Nat \ {0}
    PROVE  StartsAt(w, i, n) <=> Occurs(w, i, n)
<1>1. Len(w) \in Nat /\ Len(n) \in Nat /\ \A j \in 1 .. Len(w) : w[j] \in S
  BY LenProperties, ElementOfSeq
<1> DEFINE e == i + Len(n) - 1
<1>2. e \in Int /\ e = i + (Len(n) - 1)
  BY <1>1
<1>3. CASE e > Len(w)
  BY <1>1, <1>2, <1>3 DEF StartsAt, Occurs
<1>4. CASE e <= Len(w)
  <2> DEFINE s == SubSeq(w, i, e)
  <2>1. \A j \in i .. e : w[j] \in S
    BY <1>1, <1>2, <1>4
  <2>2. /\ s \in Seq(S)
        /\ Len(s) = IF i <= e THEN e - i + 1 ELSE 0
        /\ \A d \in 1 .. e - i + 1 : s[d] = w[i + d - 1]
    BY <1>2, <2>1, SubSeqProperties
  <2> HIDE DEF s
  <2>3. Len(s) = Len(n)
    BY <1>1, <1>2, <2>2
  <2>4. ASSUME NEW d \in 1 .. Len(n) PROVE s[d] = w[i + (d - 1)]
    <3>1. i + d - 1 = i + (d - 1) /\ d \in 1 .. e - i + 1
      BY <1>1, <1>2
    <3>2. QED BY <2>2, <3>1
  <2>5. s = n <=> \A d \in 1 .. Len(n) : w[i + (d - 1)] = n[d]
    <3>1. s = n => \A d \in 1 .. Len(n) : w[i + (d - 1)] = n[d]
      BY <2>4
    <3>2. ASSUME \A d \in 1 .. Len(n) : w[i + (d - 1)] = n[d] PROVE s = n
      <4>1. \A d \in 1 .. Len(s) : s[d] = n[d]
        BY <2>3, <2>4, <3>2
      <4>2. QED BY <2>2, <2>3, <4>1, SeqEqual
    <3>3. QED BY <3>1, <3>2
  <2>6. StartsAt(w, i, n) <=> e <= Len(w) /\ s = n
    BY DEF StartsAt, s
  <2>7. QED BY <1>2, <1>4, <2>5, <2>6 DEF Occurs
<1>5. QED BY <1>1, <1>2, <1>3, <1>4

\* Three pieces, element by element.
LEMMA RdCat ==
    ASSUME NEW S, NEW x \in Seq(S), NEW y \in Seq(S), NEW z \in Seq(S)
    PROVE  /\ (x \o y) \o z \in Seq(S) /\ (x \o y) \o z = x \o (y \o z)
           /\ Len((x \o y) \o z) = Len(x) + (Len(y) + Len(z))
           /\ \A j \in 1 .. Len(x) : ((x \o y) \o z)[j] = x[j]
           /\ \A j \in 1 .. Len(y) : ((x \o y) \o z)[Len(x) + j] = y[j]
           /\ \A j \in 1 .. Len(z) : ((x \o y) \o z)[Len(x) + (Len(y) + j)] = z[j]
<1> DEFINE xy == x \o y
           w == xy \o z
<1>0. Len(x) \in Nat /\ Len(y) \in Nat /\ Len(z) \in Nat
  BY LenProperties
<1>a. ASSUME NEW u \in Seq(S), NEW t \in Seq(S)
      PROVE  /\ u \o t \in Seq(S) /\ Len(u \o t) = Len(u) + Len(t)
             /\ \A i \in 1 .. Len(u) + Len(t) :
                   (u \o t)[i] = IF i <= Len(u) THEN u[i] ELSE t[i - Len(u)]
  BY ConcatProperties
<1>1. /\ xy \in Seq(S) /\ Len(xy) = Len(x) + Len(y)
      /\ \A i \in 1 .. Len(x) + Len(y) : xy[i] = IF i <= Len(x) THEN x[i] ELSE y[i - Len(x)]
  BY ConcatProperties
<1>2. w = x \o (y \o z)
  BY ConcatAssociative
<1> HIDE DEF xy
<1>3. /\ w \in Seq(S) /\ Len(w) = Len(xy) + Len(z)
      /\ \A i \in 1 .. Len(xy) + Len(z) : w[i] = IF i <= Len(xy) THEN xy[i] ELSE z[i - Len(xy)]
  BY <1>1, <1>a
<1> HIDE DEF w
<1>4. Len(w) = Len(x) + (Len(y) + Len(z))
  BY <1>0, <1>1, <1>3
<1>5. ASSUME NEW j \in 1 .. Len(x) PROVE w[j] = x[j]
  <2>1. j \in 1 .. Len(x) + Len(y) /\ j \in 1 .. Len(xy) + Len(z) /\ j <= Len(xy) /\ j <= Len(x)
    BY <1>0, <1>1
  <2>2. QED BY <1>1, <1>3, <2>1
<1>6. ASSUME NEW j \in 1 .. Len(y) PROVE w[Len(x) + j] = y[j]
  <2> DEFINE i == Len(x) + j
  <2>1. /\ i \in 1 .. Len(x) + Len(y) /\ i \in 1 .. Len(xy) + Len(z) /\ i <= Len(xy)
        /\ ~(i <= Len(x)) /\ i - Len(x) = j
    BY <1>0, <1>1
  <2> HIDE DEF i
  <2>2. w[i] = y[j]
    BY <1>1, <1>3, <2>1
  <2>3. QED BY <2>2 DEF i
<1>7. ASSUME NEW j \in 1 .. Len(z) PROVE w[Len(x) + (Len(y) + j)] = z[j]
  <2> DEFINE i == Len(x) + (Len(y) + j)
  <2>1. i \in 1 .. Len(xy) + Len(z) /\ ~(i <= Len(xy)) /\ i - Len(xy) = j
    BY <1>0, <1>1
  <2> HIDE DEF i
  <2>2. w[i] = z[j]
    BY <1>3, <2>1
  <2>3. QED BY <2>2 DEF i
<1>8. QED BY <1>2, <1>3, <1>4, <1>5, <1>6, <1>7 DEF w, xy

\* No m stands in w from one of the first b positions on; from none.
Free(w, m, b) == \A j \in 1 .. b : ~Occurs(w, j, m)
Never(w, m) == Free(w, m, Len(w))

\* What stands in a text after y became the mark stood there before, apart from the mark.
LEMMA RdSubst ==
    ASSUME NEW x \in Seq(Sym), NEW y \in Seq(Sym), NEW z \in Seq(Sym), NEW m \in Needle,
           NEW i \in Nat \ {0}, Occurs((x \o <<Mark>>) \o z, i, m)
    PROVE  \/ i + (Len(m) - 1) <= Len(x) /\ Occurs((x \o y) \o z, i, m)
           \/ i > Len(x) + 1 /\ Occurs((x \o y) \o z, (i - 1) + (Len(y) - 1) + 1, m)
<1> DEFINE w == (x \o <<Mark>>) \o z
           v == (x \o y) \o z
<1>0. /\ Len(x) \in Nat /\ Len(y) \in Nat /\ Len(z) \in Nat /\ Len(m) \in Nat /\ Len(m) >= 1
      /\ <<Mark>> \in Seq(Sym) /\ Len(<<Mark>>) = 1 /\ <<Mark>>[1] = Mark
  BY LenProperties DEF Needle, Sym
<1>1. /\ Len(w) = Len(x) + (1 + Len(z))
      /\ \A j \in 1 .. Len(x) : w[j] = x[j]
      /\ \A j \in 1 .. 1 : w[Len(x) + j] = <<Mark>>[j]
      /\ \A j \in 1 .. Len(z) : w[Len(x) + (1 + j)] = z[j]
  <2> HIDE DEF w
  <2>1. /\ Len((x \o <<Mark>>) \o z) = Len(x) + (Len(<<Mark>>) + Len(z))
        /\ \A j \in 1 .. Len(x) : ((x \o <<Mark>>) \o z)[j] = x[j]
        /\ \A j \in 1 .. Len(<<Mark>>) : ((x \o <<Mark>>) \o z)[Len(x) + j] = <<Mark>>[j]
        /\ \A j \in 1 .. Len(z) : ((x \o <<Mark>>) \o z)[Len(x) + (Len(<<Mark>>) + j)] = z[j]
    BY <1>0, RdCat
  <2>2. QED BY <1>0, <2>1 DEF w
<1>2. /\ Len(v) = Len(x) + (Len(y) + Len(z))
      /\ \A j \in 1 .. Len(x) : v[j] = x[j]
      /\ \A j \in 1 .. Len(z) : v[Len(x) + (Len(y) + j)] = z[j]
  BY RdCat
<1>3. /\ i + (Len(m) - 1) <= Len(w)
      /\ \A d \in 1 .. Len(m) : w[i + (d - 1)] = m[d]
  BY DEF Occurs
<1>4. w[Len(x) + 1] = Mark
  BY <1>0, <1>1
<1>5. \A d \in 1 .. Len(m) : m[d] # Mark
  BY ElementOfSeq, RdAssumption DEF Needle
<1> HIDE DEF w, v
<1>6. CASE i + (Len(m) - 1) <= Len(x)
  <2>1. ASSUME NEW d \in 1 .. Len(m) PROVE v[i + (d - 1)] = m[d]
    <3>1. i + (d - 1) \in 1 .. Len(x)
      BY <1>0, <1>6
    <3>2. QED BY <1>1, <1>2, <1>3, <3>1
  <2>2. i + (Len(m) - 1) <= Len(v)
    BY <1>0, <1>2, <1>6
  <2>3. Occurs(v, i, m)
    BY <2>1, <2>2 DEF Occurs
  <2>4. QED BY <1>6, <2>3 DEF v
<1>7. CASE i > Len(x) + 1
  <2> DEFINE o == (i - 1) + (Len(y) - 1) + 1
  <2>0. o \in Int /\ o = (i - 1) + Len(y)
    BY <1>0
  <2>1. ASSUME NEW d \in 1 .. Len(m) PROVE v[o + (d - 1)] = m[d]
    <3> DEFINE j == (i + (d - 1)) - (Len(x) + 1)
    <3>1. /\ j \in 1 .. Len(z) /\ i + (d - 1) = Len(x) + (1 + j)
          /\ o + (d - 1) = Len(x) + (Len(y) + j)
      BY <1>0, <1>1, <1>3, <1>7, <2>0
    <3> HIDE DEF j, o
    <3>2. w[Len(x) + (1 + j)] = z[j] /\ v[Len(x) + (Len(y) + j)] = z[j]
      BY <1>1, <1>2, <3>1
    <3>3. w[i + (d - 1)] = m[d]
      BY <1>3
    <3>4. QED BY <3>1, <3>2, <3>3
  <2>2. o + (Len(m) - 1) <= Len(v)
    BY <1>0, <1>1, <1>2, <1>3, <2>0
  <2> HIDE DEF o
  <2>3. Occurs(v, o, m)
    BY <2>1, <2>2 DEF Occurs
  <2>4. QED BY <1>7, <2>3 DEF v, o
<1>8. CASE ~(i + (Len(m) - 1) <= Len(x)) /\ ~(i > Len(x) + 1)
  <2> DEFINE d == (Len(x) + 1) - (i - 1)
  <2>1. d \in 1 .. Len(m) /\ i + (d - 1) = Len(x) + 1
    BY <1>0, <1>8
  <2> HIDE DEF d
  <2>2. m[d] = Mark
    BY <1>3, <1>4, <2>1
  <2>3. QED BY <1>5, <2>1, <2>2
<1>9. QED BY <1>6, <1>7, <1>8

----------------------------------------------------------------------------
(* One needle replaced                                                     *)

\* The scan's value at i, given its values further on.
ScanAt(f, c, n, i) ==
    IF i > Len(c) THEN <<>>
    ELSE IF StartsAt(c, i, n) THEN <<Mark>> \o f[i + Len(n)]
    ELSE <<c[i]>> \o f[i + 1]
IsScan(f, c, n) == f = [i \in 1 .. Len(c) + Len(n) + 1 |-> ScanAt(f, c, n, i)]

\* One of the scans is what Replaced uses.
LEMMA RdScanChosen ==
    ASSUME NEW c, NEW n
    PROVE  Replaced(c, n) = (CHOOSE f : IsScan(f, c, n))[1]
BY DEF Replaced, IsScan, ScanAt

\* There is such a scan.
LEMMA RdScanExists ==
    ASSUME NEW c \in Seq(Sym), NEW n \in Needle
    PROVE  \E f : IsScan(f, c, n)
<1> DEFINE M == Len(c) + Len(n) + 1
           From(f, j) == f = [i \in j .. M |-> ScanAt(f, c, n, i)]
           Bad == {d \in Nat : d <= M - 1 /\ ~ \E f : From(f, M - d)}
<1>0. Len(c) \in Nat /\ Len(n) \in Nat /\ Len(n) >= 1 /\ M \in Nat /\ M >= 1 /\ M > Len(c)
  BY LenProperties DEF Needle
<1>1. Bad = {}
  <2>1. SUFFICES ASSUME Bad # {} PROVE FALSE
    OBVIOUS
  <2>2. Bad \in SUBSET Nat
    OBVIOUS
  <2> HIDE DEF Bad
  <2>3. PICK d \in Bad : \A k \in Bad : d <= k
    BY <2>1, <2>2, RdLeast
  <2>4. d \in Nat /\ d <= M - 1 /\ ~ \E f : From(f, M - d)
    BY <2>3 DEF Bad
  <2> DEFINE j == M - d
  <2>5. j \in 1 .. M /\ j = M - d
    BY <1>0, <2>4
  <2>6. CASE d = 0
    <3> DEFINE h == [i \in M .. M |-> <<>>]
    <3>1. \A i \in M .. M : ScanAt(h, c, n, i) = <<>>
      BY <1>0 DEF ScanAt
    <3>2. h = [i \in M .. M |-> ScanAt(h, c, n, i)]
      <4> HIDE DEF h
      <4>1. h = [i \in M .. M |-> <<>>]
        BY DEF h
      <4>2. QED BY <3>1, <4>1
    <3>3. M - d = M
      BY <1>0, <2>6
    <3>4. From(h, M - d)
      BY <3>2, <3>3
    <3>5. QED BY <2>4, <3>4
  <2>7. CASE d # 0
    <3>1. d - 1 \in Nat /\ d - 1 < d /\ d - 1 <= M - 1 /\ M - (d - 1) = j + 1
      BY <1>0, <2>4, <2>7
    <3>2. d - 1 \notin Bad
      BY <2>3, <2>4, <3>1
    <3>3. \E f : From(f, j + 1)
      BY <3>1, <3>2 DEF Bad
    <3> HIDE DEF j, M
    <3>4. PICK g : g = [i \in j + 1 .. M |-> ScanAt(g, c, n, i)]
      BY <3>3
    <3> DEFINE h == [i \in j .. M |-> IF i = j THEN ScanAt(g, c, n, j) ELSE g[i]]
    <3>5. \A i \in j + 1 .. M : h[i] = g[i]
      BY <2>5
    <3>6. ASSUME NEW i \in j .. M PROVE ScanAt(h, c, n, i) = ScanAt(g, c, n, i)
      <4>1. i <= Len(c) => i + Len(n) \in j + 1 .. M /\ i + 1 \in j + 1 .. M
        BY <1>0, <2>5 DEF M
      <4> HIDE DEF h
      <4>2. CASE i > Len(c)
        BY <4>2 DEF ScanAt
      <4>3. CASE ~(i > Len(c))
        <5>1. h[i + Len(n)] = g[i + Len(n)] /\ h[i + 1] = g[i + 1]
          BY <1>0, <2>5, <3>5, <4>1, <4>3
        <5>2. QED BY <4>3, <5>1 DEF ScanAt
      <4>4. QED BY <4>2, <4>3
    <3>7. ASSUME NEW i \in j .. M PROVE h[i] = ScanAt(h, c, n, i)
      <4>1. CASE i = j
        BY <3>6, <4>1
      <4>2. CASE i # j
        <5>1. i \in j + 1 .. M
          BY <2>5, <4>2
        <5>2. g[i] = ScanAt(g, c, n, i)
          BY <3>4, <5>1
        <5>3. QED BY <3>5, <3>6, <5>1, <5>2
      <4>3. QED BY <4>1, <4>2
    <3>8. h = [i \in j .. M |-> h[i]]
      OBVIOUS
    <3> HIDE DEF h
    <3>9. h = [i \in j .. M |-> ScanAt(h, c, n, i)]
      BY <3>7, <3>8
    <3>10. From(h, M - d)
      BY <2>5, <3>9
    <3>11. QED BY <2>4, <3>10
  <2>8. QED BY <2>6, <2>7
<1>2. M - 1 \in Nat /\ M - 1 <= M - 1 /\ M - (M - 1) = 1
  <2> HIDE DEF M
  <2>1. QED BY <1>0
<1>3. \E f : From(f, 1)
  BY <1>1, <1>2
<1>4. QED BY <1>3 DEF IsScan

\* The scan of a suffix is the rest of the scan.
LEMMA RdScanShift ==
    ASSUME NEW c \in Seq(Sym), NEW n \in Needle, NEW i \in 1 .. Len(c) + 1,
           NEW f, IsScan(f, c, n), NEW g, IsScan(g, Suf(c, i), n)
    PROVE  \A d \in 1 .. Len(Suf(c, i)) + 1 : g[d] = f[i + (d - 1)]
<1> DEFINE s == Suf(c, i)
           L == Len(s)
           Bad == {e \in Nat : e <= L /\ g[(L + 1) - e] # f[i + (((L + 1) - e) - 1)]}
<1>0. /\ Len(c) \in Nat /\ Len(n) \in Nat /\ Len(n) >= 1 /\ i \in Nat \ {0} /\ n \in Seq(Sym)
  BY LenProperties, SeqMonotonic DEF Needle, Sym
<1>1. /\ s \in Seq(Sym) /\ L = (Len(c) - i) + 1 /\ L \in Nat
      /\ \A d \in 1 .. L : s[d] = c[i + (d - 1)]
  <2>1. /\ s \in Seq(Sym) /\ L = (Len(c) - i) + 1
        /\ \A d \in 1 .. (Len(c) - i) + 1 : s[d] = c[i + (d - 1)]
    BY RdSuf
  <2>2. QED BY <1>0, <2>1
<1> HIDE DEF s, L
<1>2. /\ \A k \in 1 .. Len(c) + Len(n) + 1 : f[k] = ScanAt(f, c, n, k)
      /\ \A d \in 1 .. L + Len(n) + 1 : g[d] = ScanAt(g, s, n, d)
  BY DEF IsScan, s, L
<1>3. ASSUME NEW d \in 1 .. L
      PROVE  StartsAt(s, d, n) <=> StartsAt(c, i + (d - 1), n)
  <2>1. i + (d - 1) \in Nat \ {0} /\ d \in Nat \ {0}
    BY <1>0
  <2>2. /\ StartsAt(s, d, n) <=> Occurs(s, d, n)
        /\ StartsAt(c, i + (d - 1), n) <=> Occurs(c, i + (d - 1), n)
    BY <1>0, <1>1, <2>1, RdStarts
  <2>3. d + (Len(n) - 1) <= Len(s) <=> (i + (d - 1)) + (Len(n) - 1) <= Len(c)
    BY <1>0, <1>1 DEF L
  <2>4. ASSUME d + (Len(n) - 1) <= Len(s), NEW k \in 1 .. Len(n)
        PROVE  s[d + (k - 1)] = c[(i + (d - 1)) + (k - 1)]
    <3>1. d + (k - 1) \in 1 .. L /\ i + ((d + (k - 1)) - 1) = (i + (d - 1)) + (k - 1)
      BY <1>0, <1>1, <2>4 DEF L
    <3>2. QED BY <1>1, <3>1
  <2>5. Occurs(s, d, n) <=> Occurs(c, i + (d - 1), n)
    BY <2>3, <2>4 DEF Occurs
  <2>6. QED BY <2>2, <2>5
<1>4. Bad = {}
  <2>1. SUFFICES ASSUME Bad # {} PROVE FALSE
    OBVIOUS
  <2>2. Bad \in SUBSET Nat
    OBVIOUS
  <2> HIDE DEF Bad
  <2>3. PICK e \in Bad : \A k \in Bad : e <= k
    BY <2>1, <2>2, RdLeast
  <2> DEFINE d == (L + 1) - e
             k == i + (d - 1)
  <2>4. e \in Nat /\ e <= L /\ g[d] # f[k]
    BY <2>3 DEF Bad
  <2>5. d \in 1 .. L + 1 /\ k \in 1 .. Len(c) + 1 /\ (d > L <=> k > Len(c))
    BY <1>0, <1>1, <2>4
  <2>6. ASSUME NEW q \in 1 .. L + 1, q > d PROVE g[q] = f[i + (q - 1)]
    <3>1. (L + 1) - q \in Nat /\ (L + 1) - q < e /\ (L + 1) - q <= L /\ (L + 1) - ((L + 1) - q) = q
      BY <1>1, <2>4, <2>5, <2>6
    <3>2. (L + 1) - q \notin Bad
      BY <2>3, <2>4, <3>1
    <3>3. QED BY <3>1, <3>2 DEF Bad
  <2>7. k = i + (d - 1)
    OBVIOUS
  <2>8. g[d] = ScanAt(g, s, n, d) /\ f[k] = ScanAt(f, c, n, k)
    <3>1. d \in 1 .. L + Len(n) + 1 /\ k \in 1 .. Len(c) + Len(n) + 1
      BY <1>0, <1>1, <2>5
    <3>2. QED BY <1>2, <3>1
  <2> HIDE DEF d, k
  <2>9. CASE d > L
    BY <2>4, <2>5, <2>8, <2>9 DEF ScanAt, L
  <2>10. CASE ~(d > L)
    <3>1. d \in 1 .. L /\ s[d] = c[k] /\ (StartsAt(s, d, n) <=> StartsAt(c, k, n))
      BY <1>1, <1>3, <2>5, <2>7, <2>10
    <3>2. CASE StartsAt(s, d, n)
      <4>1. d + (Len(n) - 1) <= L
        BY <1>0, <1>1, <3>1, <3>2, RdStarts DEF Occurs, L
      <4>2. d + Len(n) \in 1 .. L + 1 /\ d + Len(n) > d /\ i + ((d + Len(n)) - 1) = k + Len(n)
        BY <1>0, <1>1, <2>7, <3>1, <4>1
      <4>3. g[d + Len(n)] = f[k + Len(n)]
        BY <2>6, <4>2
      <4>4. g[d] = <<Mark>> \o g[d + Len(n)] /\ f[k] = <<Mark>> \o f[k + Len(n)]
        BY <2>5, <2>8, <2>10, <3>1, <3>2 DEF ScanAt, L
      <4>5. QED BY <2>4, <4>3, <4>4
    <3>3. CASE ~StartsAt(s, d, n)
      <4>1. d + 1 \in 1 .. L + 1 /\ d + 1 > d /\ i + ((d + 1) - 1) = k + 1
        BY <1>0, <1>1, <2>7, <3>1
      <4>2. g[d + 1] = f[k + 1]
        BY <2>6, <4>1
      <4>3. g[d] = <<s[d]>> \o g[d + 1] /\ f[k] = <<c[k]>> \o f[k + 1]
        BY <2>5, <2>8, <2>10, <3>1, <3>3 DEF ScanAt, L
      <4>4. QED BY <2>4, <3>1, <4>2, <4>3
    <3>4. QED BY <3>2, <3>3
  <2>11. QED BY <2>9, <2>10
<1>5. ASSUME NEW d \in 1 .. L + 1 PROVE g[d] = f[i + (d - 1)]
  <2>1. (L + 1) - d \in Nat /\ (L + 1) - d <= L /\ (L + 1) - ((L + 1) - d) = d
    BY <1>1
  <2>2. (L + 1) - d \notin Bad
    BY <1>4
  <2>3. QED BY <2>1, <2>2
<1>6. QED BY <1>5 DEF L, s

\* What replacing one needle does, from the front.
LEMMA RdReplaced ==
    ASSUME NEW c \in Seq(Sym), NEW n \in Needle
    PROVE  /\ Len(c) = 0 => Replaced(c, n) = <<>>
           /\ Len(c) > 0 /\ Occurs(c, 1, n) =>
                 Replaced(c, n) = <<Mark>> \o Replaced(Suf(c, 1 + Len(n)), n)
           /\ Len(c) > 0 /\ ~Occurs(c, 1, n) =>
                 Replaced(c, n) = <<c[1]>> \o Replaced(Suf(c, 2), n)
<1> DEFINE f == CHOOSE h : IsScan(h, c, n)
<1>0. /\ Len(c) \in Nat /\ Len(n) \in Nat /\ Len(n) >= 1 /\ n \in Seq(Sym)
  BY LenProperties, SeqMonotonic DEF Needle, Sym
<1>1. IsScan(f, c, n) /\ Replaced(c, n) = f[1]
  BY RdScanExists, RdScanChosen
<1> HIDE DEF f
<1>2. ASSUME NEW i \in 1 .. Len(c) + 1 PROVE f[i] = Replaced(Suf(c, i), n)
  <2> DEFINE s == Suf(c, i)
             g == CHOOSE h : IsScan(h, s, n)
  <2>1. s \in Seq(Sym) /\ Len(s) \in Nat
    BY RdSuf, LenProperties
  <2>2. IsScan(g, s, n) /\ Replaced(s, n) = g[1]
    <3> HIDE DEF s
    <3>1. QED BY <2>1, RdScanExists, RdScanChosen
  <2> HIDE DEF g
  <2>3. \A d \in 1 .. Len(Suf(c, i)) + 1 : g[d] = f[i + (d - 1)]
    BY <1>1, <2>2, RdScanShift
  <2>4. 1 \in 1 .. Len(s) + 1 /\ i + (1 - 1) = i
    BY <1>0, <2>1
  <2>5. QED BY <2>2, <2>3, <2>4
<1>3. 1 \in 1 .. Len(c) + Len(n) + 1
  BY <1>0
<1>4. f[1] = ScanAt(f, c, n, 1)
  BY <1>1, <1>3 DEF IsScan
<1>5. StartsAt(c, 1, n) <=> Occurs(c, 1, n)
  BY <1>0, RdStarts
<1>6. CASE Len(c) = 0
  BY <1>0, <1>1, <1>4, <1>6 DEF ScanAt
<1>7. CASE Len(c) > 0 /\ Occurs(c, 1, n)
  <2>1. 1 + Len(n) \in 1 .. Len(c) + 1
    BY <1>0, <1>7 DEF Occurs
  <2>2. f[1] = <<Mark>> \o f[1 + Len(n)]
    BY <1>0, <1>4, <1>5, <1>7 DEF ScanAt
  <2>3. f[1 + Len(n)] = Replaced(Suf(c, 1 + Len(n)), n)
    BY <1>2, <2>1
  <2>4. QED BY <1>1, <1>7, <2>2, <2>3
<1>8. CASE Len(c) > 0 /\ ~Occurs(c, 1, n)
  <2>1. 1 + 1 \in 1 .. Len(c) + 1 /\ 1 + 1 = 2
    BY <1>0, <1>8
  <2>2. f[1] = <<c[1]>> \o f[1 + 1]
    BY <1>0, <1>4, <1>5, <1>8 DEF ScanAt
  <2>3. f[2] = Replaced(Suf(c, 2), n)
    BY <1>2, <2>1
  <2>4. QED BY <1>1, <1>8, <2>1, <2>2, <2>3
<1>9. QED BY <1>0, <1>6, <1>7, <1>8

\* A text that begins with n is n and the rest.
LEMMA RdFront ==
    ASSUME NEW S, NEW c \in Seq(S), NEW n \in Seq(S), Occurs(c, 1, n)
    PROVE  /\ Suf(c, 1 + Len(n)) \in Seq(S) /\ Len(Suf(c, 1 + Len(n))) = Len(c) - Len(n)
           /\ Len(n) <= Len(c) /\ c = n \o Suf(c, 1 + Len(n))
<1> DEFINE s == Suf(c, 1 + Len(n))
           t == n \o s
<1>0. Len(c) \in Nat /\ Len(n) \in Nat
  BY LenProperties
<1>1. Len(n) <= Len(c) /\ 1 + Len(n) \in 1 .. Len(c) + 1
  BY <1>0 DEF Occurs
<1>2. /\ s \in Seq(S) /\ Len(s) = (Len(c) - (1 + Len(n))) + 1
      /\ \A d \in 1 .. (Len(c) - (1 + Len(n))) + 1 : s[d] = c[(1 + Len(n)) + (d - 1)]
  BY <1>1, RdSuf
<1>3. Len(s) = Len(c) - Len(n)
  BY <1>0, <1>2
<1> HIDE DEF s
<1>4. /\ t \in Seq(S) /\ Len(t) = Len(n) + Len(s)
      /\ \A i \in 1 .. Len(n) + Len(s) : t[i] = IF i <= Len(n) THEN n[i] ELSE s[i - Len(n)]
  BY <1>2, ConcatProperties
<1> HIDE DEF t
<1>5. Len(t) = Len(c)
  BY <1>0, <1>3, <1>4
<1>6. ASSUME NEW i \in 1 .. Len(t) PROVE t[i] = c[i]
  <2>1. CASE i <= Len(n)
    <3>1. t[i] = n[i] /\ i \in 1 .. Len(n) /\ 1 + (i - 1) = i
      BY <1>0, <1>4, <2>1
    <3>2. QED BY <3>1 DEF Occurs
  <2>2. CASE ~(i <= Len(n))
    <3>1. /\ i - Len(n) \in 1 .. (Len(c) - (1 + Len(n))) + 1
          /\ (1 + Len(n)) + ((i - Len(n)) - 1) = i
      BY <1>0, <1>5, <2>2
    <3>2. t[i] = s[i - Len(n)]
      BY <1>4, <2>2
    <3>3. QED BY <1>2, <3>1, <3>2
  <2>3. QED BY <2>1, <2>2
<1>7. t = c
  BY <1>4, <1>5, <1>6, SeqEqual
<1>8. QED BY <1>1, <1>2, <1>3, <1>7 DEF s, t

\* So is one that is not empty its first byte and the rest.
LEMMA RdFirst ==
    ASSUME NEW S, NEW c \in Seq(S), Len(c) > 0
    PROVE  /\ Suf(c, 2) \in Seq(S) /\ Len(Suf(c, 2)) = Len(c) - 1
           /\ c[1] \in S /\ <<c[1]>> \in Seq(S) /\ c = <<c[1]>> \o Suf(c, 2)
<1>0. Len(c) \in Nat /\ 1 \in 1 .. Len(c)
  BY LenProperties
<1>1. c[1] \in S /\ <<c[1]>> \in Seq(S) /\ Len(<<c[1]>>) = 1 /\ <<c[1]>>[1] = c[1]
  BY <1>0, ElementOfSeq
<1>2. Occurs(c, 1, <<c[1]>>)
  BY <1>0, <1>1 DEF Occurs
<1>3. 1 + Len(<<c[1]>>) = 2
  BY <1>1
<1>4. /\ Suf(c, 1 + Len(<<c[1]>>)) \in Seq(S)
      /\ Len(Suf(c, 1 + Len(<<c[1]>>))) = Len(c) - Len(<<c[1]>>)
      /\ c = <<c[1]>> \o Suf(c, 1 + Len(<<c[1]>>))
  BY <1>1, <1>2, RdFront
<1>5. QED BY <1>1, <1>3, <1>4

\* And what comes after a front is the rest.
LEMMA RdRest ==
    ASSUME NEW S, NEW x \in Seq(S), NEW y \in Seq(S)
    PROVE  /\ Suf(x \o y, 1 + Len(x)) = y
           /\ Occurs(x \o y, 1, x)
<1> DEFINE c == x \o y
           s == Suf(c, 1 + Len(x))
<1>0. Len(x) \in Nat /\ Len(y) \in Nat
  BY LenProperties
<1>1. /\ c \in Seq(S) /\ Len(c) = Len(x) + Len(y)
      /\ \A i \in 1 .. Len(x) + Len(y) : c[i] = IF i <= Len(x) THEN x[i] ELSE y[i - Len(x)]
  BY ConcatProperties
<1> HIDE DEF c
<1>2. 1 + Len(x) \in 1 .. Len(c) + 1
  BY <1>0, <1>1
<1>3. /\ s \in Seq(S) /\ Len(s) = (Len(c) - (1 + Len(x))) + 1
      /\ \A d \in 1 .. (Len(c) - (1 + Len(x))) + 1 : s[d] = c[(1 + Len(x)) + (d - 1)]
  BY <1>1, <1>2, RdSuf
<1>4. Len(s) = Len(y)
  BY <1>0, <1>1, <1>3
<1>5. ASSUME NEW d \in 1 .. Len(s) PROVE s[d] = y[d]
  <2> DEFINE i == (1 + Len(x)) + (d - 1)
  <2>1. /\ i \in 1 .. Len(x) + Len(y) /\ ~(i <= Len(x)) /\ i - Len(x) = d
        /\ d \in 1 .. (Len(c) - (1 + Len(x))) + 1
    BY <1>0, <1>1, <1>4
  <2>2. s[d] = c[i]
    BY <1>3, <2>1
  <2> HIDE DEF i
  <2>3. QED BY <1>1, <2>1, <2>2
<1> HIDE DEF s
<1>6. s = y
  BY <1>3, <1>4, <1>5, SeqEqual
<1>7. Occurs(c, 1, x)
  <2>1. 1 + (Len(x) - 1) <= Len(c)
    BY <1>0, <1>1
  <2>2. ASSUME NEW d \in 1 .. Len(x) PROVE c[1 + (d - 1)] = x[d]
    <3>1. d \in 1 .. Len(x) + Len(y) /\ d <= Len(x) /\ 1 + (d - 1) = d
      BY <1>0
    <3>2. QED BY <1>1, <3>1
  <2>3. QED BY <2>1, <2>2 DEF Occurs
<1>8. QED BY <1>6, <1>7 DEF s, c

\* Needles are texts, and the mark is one.
LEMMA RdTexts ==
    /\ \A n \in Needle : n \in Seq(Sym) /\ Len(n) \in Nat /\ Len(n) >= 1 /\ \A d \in 1 .. Len(n) : n[d] # Mark
    /\ <<Mark>> \in Seq(Sym) /\ Len(<<Mark>>) = 1 /\ <<Mark>>[1] = Mark
<1>1. ASSUME NEW n \in Needle
      PROVE  n \in Seq(Sym) /\ Len(n) \in Nat /\ Len(n) >= 1 /\ \A d \in 1 .. Len(n) : n[d] # Mark
  <2>1. n \in Seq(RdBytes) /\ Len(n) >= 1 /\ RdBytes \subseteq Sym
    BY DEF Needle, Sym
  <2>2. n \in Seq(Sym) /\ Len(n) \in Nat
    BY <2>1, SeqMonotonic, LenProperties
  <2>3. \A d \in 1 .. Len(n) : n[d] \in RdBytes
    BY <2>1, ElementOfSeq
  <2>4. QED BY <2>1, <2>2, <2>3, RdAssumption
<1>2. QED BY <1>1 DEF Sym

\* The result is a text.
LEMMA RdReplacedText ==
    ASSUME NEW n \in Needle
    PROVE  \A c \in Seq(Sym) : Replaced(c, n) \in Seq(Sym)
<1> DEFINE Bad == {l \in Nat : \E c \in Seq(Sym) : Len(c) = l /\ Replaced(c, n) \notin Seq(Sym)}
<1>1. SUFFICES ASSUME Bad # {} PROVE FALSE
  <2>1. ASSUME Bad = {}, NEW c \in Seq(Sym) PROVE Replaced(c, n) \in Seq(Sym)
    BY <2>1, LenProperties
  <2>2. QED BY <2>1
<1>2. Bad \in SUBSET Nat
  OBVIOUS
<1> HIDE DEF Bad
<1>3. PICK l \in Bad : \A k \in Bad : l <= k
  BY <1>1, <1>2, RdLeast
<1>4. PICK c \in Seq(Sym) : Len(c) = l /\ Replaced(c, n) \notin Seq(Sym)
  BY <1>3 DEF Bad
<1>5. ASSUME NEW s \in Seq(Sym), Len(s) < Len(c) PROVE Replaced(s, n) \in Seq(Sym)
  <2>1. Len(s) \in Nat /\ Len(s) \notin Bad
    BY <1>2, <1>3, <1>4, <1>5, LenProperties
  <2>2. QED BY <2>1 DEF Bad
<1>6. Len(c) \in Nat /\ n \in Seq(Sym) /\ Len(n) \in Nat /\ Len(n) >= 1
  BY LenProperties, RdTexts
<1>7. CASE Len(c) = 0
  BY <1>4, <1>7, RdReplaced, EmptySeq
<1>8. CASE Len(c) > 0 /\ Occurs(c, 1, n)
  <2>1. Suf(c, 1 + Len(n)) \in Seq(Sym) /\ Len(Suf(c, 1 + Len(n))) < Len(c)
    BY <1>6, <1>8, RdFront
  <2>2. Replaced(Suf(c, 1 + Len(n)), n) \in Seq(Sym)
    BY <1>5, <2>1
  <2>3. <<Mark>> \o Replaced(Suf(c, 1 + Len(n)), n) \in Seq(Sym)
    BY <2>2, RdTexts, ConcatProperties
  <2>4. QED BY <1>4, <1>8, <2>3, RdReplaced
<1>9. CASE Len(c) > 0 /\ ~Occurs(c, 1, n)
  <2>1. Suf(c, 2) \in Seq(Sym) /\ Len(Suf(c, 2)) < Len(c) /\ <<c[1]>> \in Seq(Sym)
    <3>1. Suf(c, 2) \in Seq(Sym) /\ Len(Suf(c, 2)) = Len(c) - 1 /\ <<c[1]>> \in Seq(Sym)
      BY <1>9, RdFirst
    <3>2. QED BY <1>6, <3>1
  <2>2. Replaced(Suf(c, 2), n) \in Seq(Sym)
    BY <1>5, <2>1
  <2>3. <<c[1]>> \o Replaced(Suf(c, 2), n) \in Seq(Sym)
    BY <2>1, <2>2, ConcatProperties
  <2>4. QED BY <1>4, <1>9, <2>3, RdReplaced
<1>10. QED BY <1>6, <1>7, <1>8, <1>9

\* Replacing in what follows x lets nothing stand where nothing stood; of n itself there
\* is nothing left.
RdCleans(c, n) ==
    \A x \in Seq(Sym) :
        /\ \A m \in Needle : \A b \in 0 .. Len(x) : Free(x \o c, m, b) => Free(x \o Replaced(c, n), m, b)
        /\ \A m \in Needle : Never(x \o c, m) => Never(x \o Replaced(c, n), m)
        /\ Free(x \o c, n, Len(x)) => Never(x \o Replaced(c, n), n)

\* Nothing stands beyond the end.
LEMMA RdNever ==
    ASSUME NEW w \in Seq(Sym), NEW m \in Needle
    PROVE  Never(w, m) => \A j \in Nat \ {0} : ~Occurs(w, j, m)
<1>1. Len(w) \in Nat /\ Len(m) \in Nat /\ Len(m) >= 1
  BY LenProperties, RdTexts
<1>2. QED BY <1>1 DEF Never, Free, Occurs

\* Three pieces, whichever two are joined first.
LEMMA RdAssoc ==
    ASSUME NEW S, NEW u \in Seq(S), NEW t \in Seq(S), NEW r \in Seq(S)
    PROVE  (u \o t) \o r \in Seq(S) /\ (u \o t) \o r = u \o (t \o r)
BY RdCat

\* Three pieces of a text.
LEMMA RdJoin ==
    \A u, w, r \in Seq(Sym) :
        /\ u \o w \in Seq(Sym) /\ Len(u \o w) = Len(u) + Len(w)
        /\ (u \o w) \o r = u \o (w \o r)
<1>1. ASSUME NEW u \in Seq(Sym), NEW w \in Seq(Sym), NEW r \in Seq(Sym)
      PROVE  (u \o w) \o r \in Seq(Sym) /\ (u \o w) \o r = u \o (w \o r)
  BY RdAssoc
<1>2. ASSUME NEW u \in Seq(Sym), NEW w \in Seq(Sym)
      PROVE  u \o w \in Seq(Sym) /\ Len(u \o w) = Len(u) + Len(w)
  BY ConcatProperties
<1>3. QED BY <1>1, <1>2

\* However they are joined.
Joins(u, w, r) == (u \o w) \o r = u \o (w \o r)

\* Texts join so.
LEMMA RdJoins ==
    ASSUME NEW u \in Seq(Sym), NEW w \in Seq(Sym), NEW r \in Seq(Sym)
    PROVE  Joins(u, w, r)
BY RdJoin DEF Joins

\* From one text to the next: y became the mark.
LEMMA RdMarked ==
    ASSUME NEW x \in Seq(Sym), NEW y \in Seq(Sym), NEW z \in Seq(Sym), NEW m \in Needle, Len(y) >= 1
    PROVE  LET w == (x \o <<Mark>>) \o z
               v == x \o (y \o z)
           IN  /\ \A b \in 0 .. Len(x) : Free(v, m, b) => Free(w, m, b)
               /\ Free(v, m, Len(x)) => Free(w, m, Len(x) + 1)
               /\ Never(v, m) => Never(w, m)
<1> DEFINE w == (x \o <<Mark>>) \o z
           v == x \o (y \o z)
<1>0. /\ Len(x) \in Nat /\ Len(y) \in Nat /\ v = (x \o y) \o z /\ v \in Seq(Sym) /\ w \in Seq(Sym)
      /\ Len(m) \in Nat /\ Len(m) >= 1 /\ Len(w) \in Nat
  <2>1. /\ Len(x) \in Nat /\ Len(y) \in Nat /\ Len(m) \in Nat /\ Len(m) >= 1 /\ <<Mark>> \in Seq(Sym)
    BY LenProperties, RdTexts
  <2>2. ASSUME NEW u \in Seq(Sym), NEW t \in Seq(Sym) PROVE u \o t \in Seq(Sym)
    BY ConcatProperties
  <2>3. v = (x \o y) \o z /\ v \in Seq(Sym)
    <3>1. Joins(x, y, z)
      BY RdJoins
    <3>2. y \o z \in Seq(Sym)
      BY <2>2
    <3>3. x \o (y \o z) \in Seq(Sym)
      BY <2>2, <3>2
    <3>4. QED BY <3>1, <3>3 DEF Joins
  <2>4. w \in Seq(Sym) /\ Len(w) \in Nat
    <3>1. x \o <<Mark>> \in Seq(Sym)
      BY <2>1, <2>2
    <3>2. w \in Seq(Sym)
      BY <2>2, <3>1
    <3> HIDE DEF w
    <3>3. QED BY <3>2, LenProperties
  <2>5. QED BY <2>1, <2>3, <2>4
<1>1. ASSUME NEW i \in Nat \ {0}, Occurs(w, i, m)
      PROVE  \/ i + (Len(m) - 1) <= Len(x) /\ Occurs(v, i, m)
             \/ i > Len(x) + 1 /\ Occurs(v, (i - 1) + (Len(y) - 1) + 1, m)
  BY <1>0, <1>1, RdSubst
<1> HIDE DEF w, v
<1>2. ASSUME NEW b \in 0 .. Len(x), Free(v, m, b) PROVE Free(w, m, b)
  <2>1. ASSUME NEW j \in 1 .. b, Occurs(w, j, m) PROVE FALSE
    <3>1. j \in Nat \ {0} /\ ~(j > Len(x) + 1)
      BY <1>0
    <3>2. Occurs(v, j, m)
      BY <1>1, <2>1, <3>1
    <3>3. QED BY <1>2, <3>2 DEF Free
  <2>2. QED BY <2>1 DEF Free
<1>3. ASSUME Free(v, m, Len(x)) PROVE Free(w, m, Len(x) + 1)
  <2>1. ASSUME NEW j \in 1 .. Len(x) + 1, Occurs(w, j, m) PROVE FALSE
    <3>1. j \in Nat \ {0} /\ ~(j > Len(x) + 1)
      BY <1>0
    <3>2. Occurs(v, j, m) /\ j + (Len(m) - 1) <= Len(x)
      BY <1>1, <2>1, <3>1
    <3>3. j \in 1 .. Len(x)
      BY <1>0, <3>1, <3>2
    <3>4. QED BY <1>3, <3>2, <3>3 DEF Free
  <2>2. QED BY <2>1 DEF Free
<1>4. ASSUME Never(v, m) PROVE Never(w, m)
  <2>1. ASSUME NEW j \in 1 .. Len(w), Occurs(w, j, m) PROVE FALSE
    <3>1. j \in Nat \ {0}
      BY <1>0
    <3>2. \A i \in Nat \ {0} : ~Occurs(v, i, m)
      BY <1>0, <1>4, RdNever
    <3>3. j > Len(x) + 1 => (j - 1) + (Len(y) - 1) + 1 \in Nat \ {0}
      BY <1>0, <3>1
    <3>4. QED BY <1>1, <2>1, <3>1, <3>2, <3>3
  <2>2. QED BY <2>1 DEF Free, Never
<1>5. QED BY <1>2, <1>3, <1>4 DEF w, v

\* What is replaced leaves nothing behind, and brings nothing about.
LEMMA RdReplacedCleans ==
    ASSUME NEW n \in Needle
    PROVE  \A c \in Seq(Sym) : RdCleans(c, n)
<1> DEFINE Bad == {l \in Nat : \E c \in Seq(Sym) : Len(c) = l /\ ~RdCleans(c, n)}
<1>1. SUFFICES ASSUME Bad # {} PROVE FALSE
  <2>1. ASSUME Bad = {}, NEW c \in Seq(Sym) PROVE RdCleans(c, n)
    BY <2>1, LenProperties
  <2>2. QED BY <2>1
<1>2. Bad \in SUBSET Nat
  OBVIOUS
<1> HIDE DEF Bad
<1>3. PICK l \in Bad : \A k \in Bad : l <= k
  BY <1>1, <1>2, RdLeast
<1>4. PICK c \in Seq(Sym) : Len(c) = l /\ ~RdCleans(c, n)
  BY <1>3 DEF Bad
<1>5. ASSUME NEW s \in Seq(Sym), Len(s) < Len(c) PROVE RdCleans(s, n)
  <2>1. Len(s) \in Nat /\ Len(s) \notin Bad
    BY <1>2, <1>3, <1>4, <1>5, LenProperties
  <2>2. QED BY <2>1 DEF Bad
<1>6. Len(c) \in Nat /\ n \in Seq(Sym) /\ Len(n) \in Nat /\ Len(n) >= 1
  BY LenProperties, RdTexts
<1>7. SUFFICES ASSUME NEW x \in Seq(Sym)
      PROVE /\ \A m \in Needle : \A b \in 0 .. Len(x) : Free(x \o c, m, b) => Free(x \o Replaced(c, n), m, b)
            /\ \A m \in Needle : Never(x \o c, m) => Never(x \o Replaced(c, n), m)
            /\ Free(x \o c, n, Len(x)) => Never(x \o Replaced(c, n), n)
  BY <1>4 DEF RdCleans
<1>8. CASE Len(c) = 0
  <2>1. c = <<>> /\ Replaced(c, n) = <<>>
    BY <1>6, <1>8, RdReplaced, EmptySeq
  <2>2. x \o <<>> = x
    BY ConcatEmptySeq
  <2>3. QED BY <2>1, <2>2 DEF Never
<1>9. CASE Len(c) > 0 /\ Occurs(c, 1, n)
  <2> DEFINE s == Suf(c, 1 + Len(n))
             x2 == x \o <<Mark>>
  <2>1. s \in Seq(Sym) /\ Len(s) < Len(c) /\ c = n \o s
    BY <1>6, <1>9, RdFront
  <2>2. Replaced(c, n) = <<Mark>> \o Replaced(s, n) /\ Replaced(s, n) \in Seq(Sym)
    BY <1>9, <2>1, RdReplaced, RdReplacedText
  <2>3. x2 \in Seq(Sym) /\ Len(x2) = Len(x) + 1 /\ Len(x) \in Nat
    BY RdTexts, ConcatProperties, LenProperties
  <2> HIDE DEF s
  <2>4. x \o Replaced(c, n) = x2 \o Replaced(s, n)
    <3>1. ASSUME NEW r \in Seq(Sym) PROVE x2 \o r = x \o (<<Mark>> \o r)
      <4>1. Joins(x, <<Mark>>, r)
        BY RdTexts, RdJoins
      <4>2. QED BY <4>1 DEF Joins
    <3>2. x2 \o Replaced(s, n) = x \o (<<Mark>> \o Replaced(s, n))
      BY <2>2, <3>1
    <3>3. QED BY <2>2, <3>2
  <2>5. RdCleans(s, n)
    BY <1>5, <2>1
  <2>6. ASSUME NEW m \in Needle
        PROVE  /\ \A b \in 0 .. Len(x) : Free(x \o c, m, b) => Free(x2 \o s, m, b)
               /\ Free(x \o c, m, Len(x)) => Free(x2 \o s, m, Len(x2))
               /\ Never(x \o c, m) => Never(x2 \o s, m)
    BY <1>6, <2>1, <2>3, RdMarked
  <2> HIDE DEF x2
  <2>7. /\ \A m \in Needle : \A b \in 0 .. Len(x2) :
              Free(x2 \o s, m, b) => Free(x2 \o Replaced(s, n), m, b)
        /\ \A m \in Needle : Never(x2 \o s, m) => Never(x2 \o Replaced(s, n), m)
        /\ Free(x2 \o s, n, Len(x2)) => Never(x2 \o Replaced(s, n), n)
    BY <2>3, <2>5 DEF RdCleans
  <2>8. ASSUME NEW m \in Needle, NEW b \in 0 .. Len(x), Free(x \o c, m, b)
        PROVE  Free(x \o Replaced(c, n), m, b)
    <3>1. b \in 0 .. Len(x2)
      BY <2>3
    <3>2. QED BY <2>4, <2>6, <2>7, <2>8, <3>1
  <2>9. QED BY <2>4, <2>6, <2>7, <2>8
<1>10. CASE Len(c) > 0 /\ ~Occurs(c, 1, n)
  <2> DEFINE s == Suf(c, 2)
             x2 == x \o <<c[1]>>
  <2>1. s \in Seq(Sym) /\ Len(s) = Len(c) - 1 /\ c = <<c[1]>> \o s /\ <<c[1]>> \in Seq(Sym)
    BY <1>10, RdFirst
  <2>2. Replaced(c, n) = <<c[1]>> \o Replaced(s, n) /\ Replaced(s, n) \in Seq(Sym)
    BY <1>10, <2>1, RdReplaced, RdReplacedText
  <2>3. x2 \in Seq(Sym) /\ Len(x2) = Len(x) + 1 /\ Len(x) \in Nat
    BY <2>1, ConcatProperties, LenProperties
  <2> HIDE DEF s
  <2>4. x \o Replaced(c, n) = x2 \o Replaced(s, n) /\ x \o c = x2 \o s
    <3>0. ASSUME NEW r \in Seq(Sym) PROVE x2 \o r = x \o (<<c[1]>> \o r)
      <4>1. Joins(x, <<c[1]>>, r)
        BY <2>1, RdJoins
      <4>2. QED BY <4>1 DEF Joins
    <3>1. x \o (<<c[1]>> \o Replaced(s, n)) = x2 \o Replaced(s, n)
      BY <2>2, <3>0
    <3>2. x \o (<<c[1]>> \o s) = x2 \o s
      BY <2>1, <3>0
    <3>3. QED BY <2>1, <2>2, <3>1, <3>2
  <2>5. RdCleans(s, n)
    BY <1>5, <1>6, <2>1
  <2> HIDE DEF x2
  <2>6. Free(x \o c, n, Len(x)) => Free(x2 \o s, n, Len(x2))
    <3>1. ASSUME Free(x \o c, n, Len(x)), Occurs(x \o c, Len(x) + 1, n) PROVE FALSE
      <4>1. /\ Len(x \o c) = Len(x) + Len(c)
            /\ \A i \in 1 .. Len(x) + Len(c) : (x \o c)[i] = IF i <= Len(x) THEN x[i] ELSE c[i - Len(x)]
        BY ConcatProperties
      <4>2. ASSUME NEW d \in 1 .. Len(n) PROVE c[1 + (d - 1)] = n[d]
        <5> DEFINE i == (Len(x) + 1) + (d - 1)
        <5>1. i \in 1 .. Len(x) + Len(c) /\ ~(i <= Len(x)) /\ i - Len(x) = 1 + (d - 1)
          BY <1>6, <2>3, <3>1, <4>1 DEF Occurs
        <5>2. (x \o c)[i] = n[d]
          BY <3>1 DEF Occurs
        <5> HIDE DEF i
        <5>3. QED BY <4>1, <5>1, <5>2
      <4>3. 1 + (Len(n) - 1) <= Len(c)
        BY <1>6, <2>3, <3>1, <4>1 DEF Occurs
      <4>4. QED BY <1>10, <4>2, <4>3 DEF Occurs
    <3>2. ASSUME Free(x \o c, n, Len(x)) PROVE Free(x \o c, n, Len(x) + 1)
      BY <2>3, <3>1, <3>2 DEF Free
    <3>3. QED BY <2>3, <2>4, <3>2
  <2>7. /\ \A m \in Needle : \A b \in 0 .. Len(x2) :
              Free(x2 \o s, m, b) => Free(x2 \o Replaced(s, n), m, b)
        /\ \A m \in Needle : Never(x2 \o s, m) => Never(x2 \o Replaced(s, n), m)
        /\ Free(x2 \o s, n, Len(x2)) => Never(x2 \o Replaced(s, n), n)
    BY <2>3, <2>5 DEF RdCleans
  <2>8. \A b \in 0 .. Len(x) : b \in 0 .. Len(x2)
    BY <2>3
  <2>9. QED BY <2>4, <2>6, <2>7, <2>8
<1>11. QED BY <1>6, <1>8, <1>9, <1>10

\* What stands in the second of two pieces stands in the whole, and the other way round.
LEMMA RdBehind ==
    ASSUME NEW x \in Seq(Sym), NEW c \in Seq(Sym), NEW m \in Needle, NEW i \in Nat \ {0}
    PROVE  Occurs(x \o c, Len(x) + i, m) <=> Occurs(c, i, m)
<1> DEFINE w == x \o c
<1>0. Len(x) \in Nat /\ Len(c) \in Nat /\ Len(m) \in Nat /\ Len(m) >= 1
  BY LenProperties, RdTexts
<1>1. /\ Len(w) = Len(x) + Len(c)
      /\ \A j \in 1 .. Len(x) + Len(c) : w[j] = IF j <= Len(x) THEN x[j] ELSE c[j - Len(x)]
  BY ConcatProperties
<1> HIDE DEF w
<1>2. (Len(x) + i) + (Len(m) - 1) <= Len(w) <=> i + (Len(m) - 1) <= Len(c)
  BY <1>0, <1>1
<1>3. ASSUME i + (Len(m) - 1) <= Len(c), NEW d \in 1 .. Len(m)
      PROVE  w[(Len(x) + i) + (d - 1)] = c[i + (d - 1)]
  <2> DEFINE j == (Len(x) + i) + (d - 1)
  <2>1. j \in 1 .. Len(x) + Len(c) /\ ~(j <= Len(x)) /\ j - Len(x) = i + (d - 1)
    BY <1>0, <1>3
  <2> HIDE DEF j
  <2>2. w[j] = c[i + (d - 1)]
    BY <1>1, <2>1
  <2>3. QED BY <2>2 DEF j
<1>4. QED BY <1>2, <1>3 DEF Occurs, w

\* What stands within the first piece does too.
LEMMA RdBefore ==
    ASSUME NEW c \in Seq(Sym), NEW z \in Seq(Sym), NEW m \in Needle, NEW i \in Nat \ {0},
           i + (Len(m) - 1) <= Len(c)
    PROVE  Occurs(c \o z, i, m) <=> Occurs(c, i, m)
<1> DEFINE w == c \o z
<1>0. Len(z) \in Nat /\ Len(c) \in Nat /\ Len(m) \in Nat /\ Len(m) >= 1
  BY LenProperties, RdTexts
<1>1. /\ Len(w) = Len(c) + Len(z)
      /\ \A j \in 1 .. Len(c) + Len(z) : w[j] = IF j <= Len(c) THEN c[j] ELSE z[j - Len(c)]
  BY ConcatProperties
<1> HIDE DEF w
<1>2. i + (Len(m) - 1) <= Len(w)
  BY <1>0, <1>1
<1>3. ASSUME NEW d \in 1 .. Len(m) PROVE w[i + (d - 1)] = c[i + (d - 1)]
  <2>1. i + (d - 1) \in 1 .. Len(c) + Len(z) /\ i + (d - 1) <= Len(c)
    BY <1>0
  <2>2. QED BY <1>1, <2>1
<1>4. QED BY <1>2, <1>3 DEF Occurs, w

\* A front in which n does not begin is left alone.
LEMMA RdSkip ==
    ASSUME NEW n \in Needle, NEW v \in Seq(Sym)
    PROVE  \A y \in Seq(Sym) : Free(y \o v, n, Len(y)) => Replaced(y \o v, n) = y \o Replaced(v, n)
<1> DEFINE Q(y) == Free(y \o v, n, Len(y)) => Replaced(y \o v, n) = y \o Replaced(v, n)
           Bad == {l \in Nat : \E y \in Seq(Sym) : Len(y) = l /\ ~Q(y)}
<1>1. SUFFICES ASSUME Bad # {} PROVE FALSE
  <2>1. ASSUME Bad = {}, NEW y \in Seq(Sym) PROVE Q(y)
    BY <2>1, LenProperties
  <2>2. QED BY <2>1
<1>2. Bad \in SUBSET Nat
  OBVIOUS
<1> HIDE DEF Bad
<1>3. PICK l \in Bad : \A k \in Bad : l <= k
  BY <1>1, <1>2, RdLeast
<1>4. PICK y \in Seq(Sym) : Len(y) = l /\ ~Q(y)
  BY <1>3 DEF Bad
<1>5. ASSUME NEW s \in Seq(Sym), Len(s) < Len(y) PROVE Q(s)
  <2>1. Len(s) \in Nat /\ Len(s) \notin Bad
    BY <1>2, <1>3, <1>4, <1>5, LenProperties
  <2>2. QED BY <2>1 DEF Bad
<1>6. Len(y) \in Nat /\ Len(v) \in Nat /\ Replaced(v, n) \in Seq(Sym)
  BY LenProperties, RdReplacedText
<1>7. CASE Len(y) = 0
  <2>1. y = <<>>
    BY <1>7, EmptySeq
  <2>2. <<>> \o v = v /\ <<>> \o Replaced(v, n) = Replaced(v, n)
    BY <1>6, ConcatEmptySeq
  <2>3. QED BY <1>4, <2>1, <2>2
<1>8. CASE Len(y) > 0
  <2> DEFINE a == <<y[1]>>
             s == Suf(y, 2)
             w == y \o v
  <2>1. /\ s \in Seq(Sym) /\ Len(s) = Len(y) - 1 /\ a \in Seq(Sym) /\ y = a \o s
        /\ Len(a) = 1
    BY <1>8, RdFirst
  <2> HIDE DEF a, s
  <2>2. SUFFICES ASSUME Free(w, n, Len(y)) PROVE Replaced(w, n) = y \o Replaced(v, n)
    BY <1>4
  <2>3. ASSUME NEW r \in Seq(Sym) PROVE y \o r = a \o (s \o r) /\ s \o r \in Seq(Sym)
    <3>1. Joins(a, s, r)
      BY <2>1, RdJoins
    <3>2. s \o r \in Seq(Sym)
      BY <2>1, ConcatProperties
    <3>3. QED BY <2>1, <3>1, <3>2 DEF Joins
  <2>4. w = a \o (s \o v) /\ s \o v \in Seq(Sym) /\ y \o Replaced(v, n) = a \o (s \o Replaced(v, n))
    BY <1>6, <2>3
  <2>5. w \in Seq(Sym) /\ Len(w) > 0 /\ w[1] = y[1]
    BY <1>6, <1>8, ConcatProperties
  <2> HIDE DEF w
  <2>6. ~Occurs(w, 1, n)
    BY <1>6, <1>8, <2>2 DEF Free
  <2>7. Suf(w, 2) = s \o v
    <3>1. Suf(a \o (s \o v), 1 + Len(a)) = s \o v
      BY <2>1, <2>4, RdRest
    <3>2. 1 + Len(a) = 2
      BY <2>1
    <3>3. QED BY <2>4, <3>1, <3>2
  <2>8. Replaced(w, n) = a \o Replaced(s \o v, n)
    BY <2>5, <2>6, <2>7, RdReplaced DEF a
  <2>9. Free(s \o v, n, Len(s))
    <3>1. ASSUME NEW i \in 1 .. Len(s), Occurs(s \o v, i, n) PROVE FALSE
      <4>1. i \in Nat \ {0} /\ Len(a) + i \in 1 .. Len(y)
        BY <1>6, <2>1
      <4>2. Occurs(a \o (s \o v), Len(a) + i, n)
        BY <2>1, <2>4, <3>1, <4>1, RdBehind
      <4>3. QED BY <2>2, <2>4, <4>1, <4>2 DEF Free
    <3>2. QED BY <3>1 DEF Free
  <2>10. Replaced(s \o v, n) = s \o Replaced(v, n)
    <3>1. Len(s) < Len(y)
      BY <1>6, <2>1
    <3>2. Q(s)
      BY <1>5, <2>1, <3>1
    <3>3. QED BY <2>9, <3>2
  <2>11. QED BY <2>4, <2>8, <2>10
<1>9. QED BY <1>6, <1>7, <1>8

NeedleLists == Seq(Needle)

\* The texts after each of the needles.
AfterAt(f, c, N, k) == IF k = 0 THEN c ELSE Replaced(f[k - 1], N[k])
IsAfter(f, c, N) == f = [k \in 0 .. Len(N) |-> AfterAt(f, c, N, k)]
After(c, N, k) == (CHOOSE f : IsAfter(f, c, N))[k]

\* A list of needles, element by element.
LEMMA RdLists ==
    ASSUME NEW N \in NeedleLists
    PROVE  Len(N) \in Nat /\ DOMAIN N = 1 .. Len(N) /\ \A k \in 1 .. Len(N) : N[k] \in Needle
BY LenProperties, ElementOfSeq DEF NeedleLists

\* There are such texts.
LEMMA RdAfterExists ==
    ASSUME NEW c, NEW N \in NeedleLists
    PROVE  \E f : IsAfter(f, c, N)
<1> DEFINE Upto(f, j) == f = [k \in 0 .. j |-> AfterAt(f, c, N, k)]
           Bad == {j \in Nat : ~ \E f : Upto(f, j)}
<1>0. Len(N) \in Nat
  BY RdLists
<1>1. Bad = {}
  <2>1. SUFFICES ASSUME Bad # {} PROVE FALSE
    OBVIOUS
  <2>2. Bad \in SUBSET Nat
    OBVIOUS
  <2> HIDE DEF Bad
  <2>3. PICK j \in Bad : \A k \in Bad : j <= k
    BY <2>1, <2>2, RdLeast
  <2>4. j \in Nat /\ ~ \E f : Upto(f, j)
    BY <2>3 DEF Bad
  <2>5. CASE j = 0
    <3> DEFINE h == [k \in 0 .. 0 |-> c]
    <3>1. \A k \in 0 .. 0 : AfterAt(h, c, N, k) = c
      BY DEF AfterAt
    <3>2. h = [k \in 0 .. 0 |-> AfterAt(h, c, N, k)]
      <4> HIDE DEF h
      <4>1. h = [k \in 0 .. 0 |-> c]
        BY DEF h
      <4>2. QED BY <3>1, <4>1
    <3>3. Upto(h, j)
      BY <2>5, <3>2
    <3>4. QED BY <2>4, <3>3
  <2>6. CASE j # 0
    <3>1. j - 1 \in Nat /\ j - 1 < j
      BY <2>4, <2>6
    <3>2. j - 1 \notin Bad
      BY <2>3, <2>4, <3>1
    <3>3. \E f : Upto(f, j - 1)
      BY <3>1, <3>2 DEF Bad
    <3>4. PICK g : g = [k \in 0 .. j - 1 |-> AfterAt(g, c, N, k)]
      BY <3>3
    <3> DEFINE h == [k \in 0 .. j |-> IF k = j THEN AfterAt(g, c, N, j) ELSE g[k]]
    <3>5. \A k \in 0 .. j - 1 : h[k] = g[k]
      BY <2>4
    <3>6. h = [k \in 0 .. j |-> h[k]] /\ h[j] = AfterAt(g, c, N, j)
      BY <2>4
    <3> HIDE DEF h
    <3>7. ASSUME NEW k \in 0 .. j PROVE AfterAt(h, c, N, k) = AfterAt(g, c, N, k)
      <4>1. k # 0 => k - 1 \in 0 .. j - 1
        BY <2>4
      <4>2. QED BY <3>5, <4>1 DEF AfterAt
    <3>8. ASSUME NEW k \in 0 .. j PROVE h[k] = AfterAt(h, c, N, k)
      <4>1. CASE k = j
        BY <3>6, <3>7, <4>1
      <4>2. CASE k # j
        <5>1. k \in 0 .. j - 1
          BY <2>4, <4>2
        <5>2. QED BY <3>4, <3>5, <3>7, <5>1
      <4>3. QED BY <4>1, <4>2
    <3>9. Upto(h, j)
      BY <3>6, <3>8
    <3>10. QED BY <2>4, <3>9
  <2>7. QED BY <2>5, <2>6
<1>2. \E f : Upto(f, Len(N))
  BY <1>0, <1>1
<1>3. QED BY <1>2 DEF IsAfter

\* What apply_to_bytes does, needle by needle.
LEMMA RdAfter ==
    ASSUME NEW c \in Seq(Sym), NEW N \in NeedleLists
    PROVE  /\ After(c, N, 0) = c /\ ApplyToBytes(c, N) = After(c, N, Len(N))
           /\ \A k \in 1 .. Len(N) : After(c, N, k) = Replaced(After(c, N, k - 1), N[k])
<1> DEFINE f == CHOOSE h : IsAfter(h, c, N)
<1>1. IsAfter(f, c, N)
  BY RdAfterExists
<1>2. \A k \in 0 .. Len(N) : After(c, N, k) = f[k]
  BY DEF After
<1>3. ApplyToBytes(c, N) = f[Len(N)]
  BY DEF ApplyToBytes, IsAfter, AfterAt
<1> HIDE DEF f
<1>4. Len(N) \in Nat
  BY RdLists
<1>5. \A k \in 0 .. Len(N) : f[k] = AfterAt(f, c, N, k)
  BY <1>1 DEF IsAfter
<1>6. After(c, N, 0) = c
  BY <1>2, <1>4, <1>5 DEF AfterAt
<1>7. ASSUME NEW k \in 1 .. Len(N) PROVE After(c, N, k) = Replaced(After(c, N, k - 1), N[k])
  <2>1. k \in 0 .. Len(N) /\ k - 1 \in 0 .. Len(N) /\ k # 0
    BY <1>4
  <2>2. QED BY <1>2, <1>5, <2>1 DEF AfterAt
<1>8. Len(N) \in 0 .. Len(N)
  BY <1>4
<1>9. QED BY <1>2, <1>3, <1>6, <1>7, <1>8

\* From none of the first b positions does a needle stand in w.
FreeAll(w, N, b) == \A k \in 1 .. Len(N) : Free(w, N[k], b)

\* Replacing the needles one after the other leaves none of them, and lets none stand
\* where none stood.
AfterSound(c, N, k) ==
    /\ After(c, N, k) \in Seq(Sym)
    /\ \A x \in Seq(Sym) : FreeAll(x \o c, N, Len(x)) =>
          /\ FreeAll(x \o After(c, N, k), N, Len(x))
          /\ \A j \in 1 .. k : Never(x \o After(c, N, k), N[j])

\* So it is after each of them.
LEMMA RdAfterSound ==
    ASSUME NEW c \in Seq(Sym), NEW N \in NeedleLists
    PROVE  \A k \in 0 .. Len(N) : AfterSound(c, N, k)
<1> DEFINE Bad == {k \in Nat : k <= Len(N) /\ ~AfterSound(c, N, k)}
<1>0. Len(N) \in Nat
  BY RdLists
<1>1. SUFFICES ASSUME Bad # {} PROVE FALSE
  OBVIOUS
<1>2. Bad \in SUBSET Nat
  OBVIOUS
<1> HIDE DEF Bad
<1>3. PICK k \in Bad : \A j \in Bad : k <= j
  BY <1>1, <1>2, RdLeast
<1>4. k \in Nat /\ k <= Len(N) /\ ~AfterSound(c, N, k)
  BY <1>3 DEF Bad
<1>5. CASE k = 0
  <2>1. After(c, N, 0) = c
    BY RdAfter
  <2>2. AfterSound(c, N, 0)
    BY <2>1 DEF AfterSound
  <2>3. QED BY <1>4, <1>5, <2>2
<1>6. CASE k # 0
  <2> DEFINE d == After(c, N, k - 1)
             n == N[k]
  <2>1. k \in 1 .. Len(N) /\ k - 1 \in Nat /\ k - 1 <= Len(N) /\ k - 1 < k /\ n \in Needle
    BY <1>0, <1>4, <1>6, RdLists
  <2>2. k - 1 \notin Bad
    BY <1>2, <1>3, <1>4, <2>1
  <2>3. AfterSound(c, N, k - 1)
    BY <2>1, <2>2 DEF Bad
  <2>4. After(c, N, k) = Replaced(d, n)
    BY <2>1, RdAfter
  <2>5. d \in Seq(Sym)
    BY <2>3 DEF AfterSound
  <2>6. ASSUME NEW x \in Seq(Sym), FreeAll(x \o c, N, Len(x))
        PROVE  /\ FreeAll(x \o d, N, Len(x))
               /\ \A j \in 1 .. k - 1 : Never(x \o d, N[j])
    BY <2>3, <2>6 DEF AfterSound
  <2> HIDE DEF d
  <2>7. Replaced(d, n) \in Seq(Sym) /\ RdCleans(d, n)
    BY <2>1, <2>5, RdReplacedText, RdReplacedCleans
  <2>8. ASSUME NEW x \in Seq(Sym), FreeAll(x \o c, N, Len(x))
        PROVE  /\ FreeAll(x \o Replaced(d, n), N, Len(x))
               /\ \A j \in 1 .. k : Never(x \o Replaced(d, n), N[j])
    <3>1. /\ \A m \in Needle : \A b \in 0 .. Len(x) : Free(x \o d, m, b) => Free(x \o Replaced(d, n), m, b)
          /\ \A m \in Needle : Never(x \o d, m) => Never(x \o Replaced(d, n), m)
          /\ Free(x \o d, n, Len(x)) => Never(x \o Replaced(d, n), n)
      BY <2>7 DEF RdCleans
    <3>2. /\ FreeAll(x \o d, N, Len(x))
          /\ \A j \in 1 .. k - 1 : Never(x \o d, N[j])
      BY <2>6, <2>8
    <3>3. Len(x) \in 0 .. Len(x) /\ \A j \in 1 .. Len(N) : N[j] \in Needle
      BY LenProperties, RdLists
    <3>4. FreeAll(x \o Replaced(d, n), N, Len(x))
      BY <3>1, <3>2, <3>3 DEF FreeAll
    <3>5. ASSUME NEW j \in 1 .. k PROVE Never(x \o Replaced(d, n), N[j])
      <4>1. CASE j = k
        BY <2>1, <3>1, <3>2, <4>1 DEF FreeAll
      <4>2. CASE j # k
        <5>1. j \in 1 .. k - 1 /\ j \in 1 .. Len(N)
          BY <1>0, <2>1, <4>2
        <5>2. QED BY <3>1, <3>2, <3>3, <5>1
      <4>3. QED BY <4>1, <4>2
    <3>6. QED BY <3>4, <3>5
  <2>9. AfterSound(c, N, k)
    BY <2>4, <2>7, <2>8 DEF AfterSound
  <2>10. QED BY <1>4, <2>9
<1>7. QED BY <1>5, <1>6

\* Of an empty text nothing comes.
LEMMA RdAfterEmpty ==
    ASSUME NEW N \in NeedleLists
    PROVE  ApplyToBytes(<<>>, N) = <<>>
<1> DEFINE Bad == {k \in Nat : k <= Len(N) /\ After(<<>>, N, k) # <<>>}
<1>0. Len(N) \in Nat /\ <<>> \in Seq(Sym) /\ Len(<<>>) = 0
  BY RdLists, EmptySeq
<1>r. ASSUME NEW c \in Seq(Sym)
      PROVE  /\ After(c, N, 0) = c
             /\ \A i \in 1 .. Len(N) : After(c, N, i) = Replaced(After(c, N, i - 1), N[i])
  BY RdAfter
<1>1. ASSUME Bad # {} PROVE FALSE
  <2>2. Bad \in SUBSET Nat
    OBVIOUS
  <2> HIDE DEF Bad
  <2>3. PICK k \in Bad : \A j \in Bad : k <= j
    BY <1>1, <2>2, RdLeast
  <2>4. k \in Nat /\ k <= Len(N) /\ After(<<>>, N, k) # <<>>
    BY <2>3 DEF Bad
  <2>5. k # 0
    BY <1>0, <1>r, <2>4
  <2>6. k \in 1 .. Len(N) /\ k - 1 \in Nat /\ k - 1 <= Len(N) /\ k - 1 < k
    BY <1>0, <2>4, <2>5
  <2>7. k - 1 \notin Bad
    BY <2>2, <2>3, <2>4, <2>6
  <2>8. After(<<>>, N, k - 1) = <<>>
    BY <2>6, <2>7 DEF Bad
  <2>9. After(<<>>, N, k) = Replaced(<<>>, N[k]) /\ N[k] \in Needle
    BY <1>0, <1>r, <2>6, <2>8, RdLists
  <2>10. Replaced(<<>>, N[k]) = <<>>
    BY <1>0, <2>9, RdReplaced
  <2>11. QED BY <2>4, <2>9, <2>10
<1>2. After(<<>>, N, Len(N)) = <<>>
  BY <1>0, <1>1
<1>3. QED BY <1>0, <1>2, RdAfter

\* A byte at which no needle begins stays where it is, before what becomes of the rest.
LEMMA RdAfterByte ==
    ASSUME NEW N \in NeedleLists, NEW a \in Seq(Sym), Len(a) = 1, NEW s \in Seq(Sym),
           FreeAll(a \o s, N, 1)
    PROVE  ApplyToBytes(a \o s, N) = a \o ApplyToBytes(s, N)
<1> DEFINE Bad == {k \in Nat : k <= Len(N) /\ After(a \o s, N, k) # a \o After(s, N, k)}
<1>0. Len(N) \in Nat /\ a \o s \in Seq(Sym)
  BY RdLists, ConcatProperties
<1>r. ASSUME NEW c \in Seq(Sym)
      PROVE  /\ After(c, N, 0) = c
             /\ \A i \in 1 .. Len(N) : After(c, N, i) = Replaced(After(c, N, i - 1), N[i])
  BY RdAfter
<1>1. ASSUME Bad # {} PROVE FALSE
  <2>2. Bad \in SUBSET Nat
    OBVIOUS
  <2> HIDE DEF Bad
  <2>3. PICK k \in Bad : \A j \in Bad : k <= j
    BY <1>1, <2>2, RdLeast
  <2>4. k \in Nat /\ k <= Len(N) /\ After(a \o s, N, k) # a \o After(s, N, k)
    BY <2>3 DEF Bad
  <2>5. k # 0
    BY <1>0, <1>r, <2>4
  <2>6. k \in 1 .. Len(N) /\ k - 1 \in 0 .. Len(N) /\ k - 1 \in Nat /\ k - 1 <= Len(N) /\ k - 1 < k
    BY <1>0, <2>4, <2>5
  <2>7. k - 1 \notin Bad
    BY <2>2, <2>3, <2>4, <2>6
  <2> DEFINE d == After(s, N, k - 1)
             n == N[k]
  <2>8. After(a \o s, N, k - 1) = a \o d
    BY <2>6, <2>7 DEF Bad
  <2>9. AfterSound(s, N, k - 1) /\ n \in Needle
    BY <2>6, RdAfterSound, RdLists
  <2>10. d \in Seq(Sym) /\ FreeAll(a \o d, N, 1)
    BY <2>9 DEF AfterSound
  <2>11. After(a \o s, N, k) = Replaced(a \o d, n) /\ After(s, N, k) = Replaced(d, n)
    BY <1>0, <1>r, <2>6, <2>8
  <2> HIDE DEF d
  <2>12. Free(a \o d, n, Len(a))
    BY <2>6, <2>10 DEF FreeAll
  <2>13. Replaced(a \o d, n) = a \o Replaced(d, n)
    BY <2>9, <2>10, <2>12, RdSkip
  <2>14. QED BY <2>4, <2>11, <2>13
<1>2. After(a \o s, N, Len(N)) = a \o After(s, N, Len(N))
  BY <1>0, <1>1
<1>3. QED BY <1>0, <1>2, RdAfter

\* In an independent list no needle begins within another, whatever comes after it.
LEMMA RdIndependent ==
    ASSUME NEW N \in NeedleLists, Independent(N), NEW k \in 1 .. Len(N), NEW j \in 1 .. Len(N), j # k,
           NEW v \in Seq(Sym)
    PROVE  Free(N[k] \o v, N[j], Len(N[k]))
<1> DEFINE p == N[k]
           q == N[j]
<1>1. p \in Seq(Sym) /\ Len(p) \in Nat /\ q \in Needle /\ Len(q) \in Nat /\ DOMAIN p = 1 .. Len(p)
      /\ Len(v) \in Nat
  BY RdLists, RdTexts, LenProperties
<1>2. \A i \in DOMAIN p : \E d \in 0 .. Len(q) - 1 : i + d <= Len(p) /\ p[i + d] # q[d + 1]
  <2>1. k \in DOMAIN N /\ j \in DOMAIN N
    BY RdLists
  <2>2. QED BY <2>1 DEF Independent
<1>3. \A i \in 1 .. Len(p) + Len(v) : (p \o v)[i] = IF i <= Len(p) THEN p[i] ELSE v[i - Len(p)]
  <2> HIDE DEF p
  <2>1. QED BY <1>1, ConcatProperties
<1> HIDE DEF p, q
<1>4. ASSUME NEW i \in 1 .. Len(p), Occurs(p \o v, i, q) PROVE FALSE
  <2>1. PICK d \in 0 .. Len(q) - 1 : i + d <= Len(p) /\ p[i + d] # q[d + 1]
    BY <1>1, <1>2
  <2>2. d + 1 \in 1 .. Len(q) /\ i + ((d + 1) - 1) = i + d /\ i + d \in 1 .. Len(p) + Len(v)
    BY <1>1, <2>1
  <2>3. (p \o v)[i + d] = q[d + 1]
    BY <1>4, <2>2 DEF Occurs
  <2>4. (p \o v)[i + d] = p[i + d]
    BY <1>3, <2>1, <2>2
  <2>5. QED BY <2>1, <2>3, <2>4
<1>5. QED BY <1>4 DEF Free, p, q

\* No needle begins with the mark.
LEMMA RdMarkFree ==
    ASSUME NEW d \in Seq(Sym), NEW n \in Needle
    PROVE  Free(<<Mark>> \o d, n, 1)
<1>1. (<<Mark>> \o d)[1] = Mark
  BY RdTexts, LenProperties, ConcatProperties
<1>2. 1 \in 1 .. Len(n) /\ n[1] # Mark /\ 1 + (1 - 1) = 1
  BY RdTexts
<1>3. ~Occurs(<<Mark>> \o d, 1, n)
  BY <1>1, <1>2 DEF Occurs
<1>4. QED BY <1>3 DEF Free

\* A needle at the front becomes the mark, before what becomes of the rest.
LEMMA RdAfterNeedle ==
    ASSUME NEW N \in NeedleLists, Independent(N), NEW k \in 1 .. Len(N), NEW v \in Seq(Sym)
    PROVE  ApplyToBytes(N[k] \o v, N) = <<Mark>> \o ApplyToBytes(v, N)
<1> DEFINE p == N[k]
           front(j) == IF j < k THEN p ELSE <<Mark>>
           Bad == {j \in Nat : j <= Len(N) /\ After(p \o v, N, j) # front(j) \o After(v, N, j)}
<1>0. /\ Len(N) \in Nat /\ p \in Needle /\ p \in Seq(Sym) /\ p \o v \in Seq(Sym)
      /\ <<Mark>> \in Seq(Sym) /\ Len(<<Mark>>) = 1 /\ k \in Nat
  <2>1. p \in Needle /\ p \in Seq(Sym) /\ Len(N) \in Nat
    BY RdLists, RdTexts
  <2> HIDE DEF p
  <2>2. QED BY <2>1, RdTexts, ConcatProperties
<1>i. ASSUME NEW j \in 1 .. Len(N), j # k, NEW r \in Seq(Sym) PROVE Free(p \o r, N[j], Len(p))
  BY <1>i, RdIndependent
<1>n. p = N[k]
  OBVIOUS
<1> HIDE DEF p
<1>r. ASSUME NEW c \in Seq(Sym)
      PROVE  /\ After(c, N, 0) = c
             /\ \A i \in 1 .. Len(N) : After(c, N, i) = Replaced(After(c, N, i - 1), N[i])
  BY RdAfter
<1>1. ASSUME Bad # {} PROVE FALSE
  <2>2. Bad \in SUBSET Nat
    OBVIOUS
  <2> HIDE DEF Bad
  <2>3. PICK j \in Bad : \A i \in Bad : j <= i
    BY <1>1, <2>2, RdLeast
  <2>4. j \in Nat /\ j <= Len(N) /\ After(p \o v, N, j) # front(j) \o After(v, N, j)
    BY <2>3 DEF Bad
  <2>5. j # 0
    <3>1. After(p \o v, N, 0) = p \o v /\ After(v, N, 0) = v
      BY <1>0, <1>r
    <3>2. front(0) = p
      BY <1>0
    <3>3. QED BY <2>4, <3>1, <3>2
  <2>6. j \in 1 .. Len(N) /\ j - 1 \in 0 .. Len(N) /\ j - 1 \in Nat /\ j - 1 <= Len(N) /\ j - 1 < j
    BY <1>0, <2>4, <2>5
  <2>7. j - 1 \notin Bad
    BY <2>2, <2>3, <2>4, <2>6
  <2> DEFINE d == After(v, N, j - 1)
             n == N[j]
  <2>8. After(p \o v, N, j - 1) = front(j - 1) \o d
    BY <2>6, <2>7 DEF Bad
  <2>9. d \in Seq(Sym) /\ n \in Needle
    BY <2>6, RdAfterSound, RdLists DEF AfterSound
  <2>10. After(p \o v, N, j) = Replaced(front(j - 1) \o d, n) /\ After(v, N, j) = Replaced(d, n)
    BY <1>0, <1>r, <2>6, <2>8
  <2> HIDE DEF d
  <2>11. CASE j < k
    <3>1. front(j) = p /\ front(j - 1) = p /\ j # k
      BY <1>0, <2>4, <2>11
    <3>2. Replaced(p \o d, n) = p \o Replaced(d, n)
      BY <1>0, <1>i, <2>6, <2>9, <3>1, RdSkip
    <3>3. QED BY <2>4, <2>10, <3>1, <3>2
  <2>12. CASE j = k
    <3>1. front(j) = <<Mark>> /\ front(j - 1) = p /\ n = p
      BY <1>0, <1>n, <2>4, <2>12
    <3>2. p \o d \in Seq(Sym) /\ Len(p \o d) > 0
      <4>1. Len(p \o d) = Len(p) + Len(d) /\ p \o d \in Seq(Sym)
        BY <1>0, <2>9, ConcatProperties
      <4>2. Len(p) \in Nat /\ Len(p) >= 1 /\ Len(d) \in Nat
        BY <1>0, <2>9, RdTexts, LenProperties
      <4>3. QED BY <4>1, <4>2
    <3>3. Suf(p \o d, 1 + Len(p)) = d /\ Occurs(p \o d, 1, p)
      BY <1>0, <2>9, RdRest
    <3>4. Replaced(p \o d, p) = <<Mark>> \o Replaced(d, p)
      BY <1>0, <3>2, <3>3, RdReplaced
    <3>5. QED BY <2>4, <2>10, <3>1, <3>4
  <2>13. CASE j > k
    <3>1. front(j) = <<Mark>> /\ front(j - 1) = <<Mark>>
      BY <1>0, <2>4, <2>13
    <3>2. Free(<<Mark>> \o d, n, 1)
      BY <2>9, RdMarkFree
    <3>3. Replaced(<<Mark>> \o d, n) = <<Mark>> \o Replaced(d, n)
      BY <1>0, <2>9, <3>2, RdSkip
    <3>4. QED BY <2>4, <2>10, <3>1, <3>3
  <2>14. QED BY <1>0, <2>4, <2>11, <2>12, <2>13
<1>2. After(p \o v, N, Len(N)) = front(Len(N)) \o After(v, N, Len(N))
  BY <1>0, <1>1
<1>3. front(Len(N)) = <<Mark>>
  BY <1>0
<1>4. QED BY <1>0, <1>2, <1>3, <1>n, RdAfter

\* The longest needle.
LEMMA RdMax ==
    ASSUME NEW N \in NeedleLists
    PROVE  /\ MaxNeedleLen(N) \in Nat /\ Hold(N) \in Nat
           /\ \A k \in 1 .. Len(N) : Len(N[k]) <= MaxNeedleLen(N) /\ Len(N[k]) <= Hold(N) + 1
<1> DEFINE Best(j) == \E m \in 1 .. j : \A k \in 1 .. j : Len(N[k]) <= Len(N[m])
           Bad == {j \in Nat : j >= 1 /\ j <= Len(N) /\ ~Best(j)}
<1>0. Len(N) \in Nat /\ DOMAIN N = 1 .. Len(N) /\ \A k \in 1 .. Len(N) : Len(N[k]) \in Nat /\ Len(N[k]) >= 1
  BY RdLists, RdTexts
<1>1. ASSUME Bad # {} PROVE FALSE
  <2>2. Bad \in SUBSET Nat
    OBVIOUS
  <2> HIDE DEF Bad
  <2>3. PICK j \in Bad : \A i \in Bad : j <= i
    BY <1>1, <2>2, RdLeast
  <2>4. j \in Nat /\ j >= 1 /\ j <= Len(N) /\ ~Best(j)
    BY <2>3 DEF Bad
  <2>5. CASE j = 1
    <3>1. \A k \in 1 .. 1 : Len(N[k]) <= Len(N[1])
      BY <1>0, <2>4, <2>5
    <3>2. QED BY <2>4, <2>5, <3>1
  <2>6. CASE j # 1
    <3>1. j - 1 \in Nat /\ j - 1 >= 1 /\ j - 1 <= Len(N) /\ j - 1 < j
      BY <1>0, <2>4, <2>6
    <3>2. j - 1 \notin Bad
      BY <2>2, <2>3, <2>4, <3>1
    <3>3. PICK m \in 1 .. j - 1 : \A k \in 1 .. j - 1 : Len(N[k]) <= Len(N[m])
      BY <3>1, <3>2 DEF Bad
    <3>4. CASE Len(N[j]) <= Len(N[m])
      <4>1. ASSUME NEW k \in 1 .. j PROVE Len(N[k]) <= Len(N[m])
        <5>1. k = j \/ k \in 1 .. j - 1
          BY <2>4
        <5>2. QED BY <3>3, <3>4, <5>1
      <4>2. m \in 1 .. j
        BY <2>4
      <4>3. QED BY <2>4, <4>1, <4>2
    <3>5. CASE ~(Len(N[j]) <= Len(N[m]))
      <4>1. ASSUME NEW k \in 1 .. j PROVE Len(N[k]) <= Len(N[j])
        <5>1. k = j \/ k \in 1 .. j - 1
          BY <2>4
        <5>2. Len(N[k]) \in Nat /\ Len(N[j]) \in Nat /\ Len(N[m]) \in Nat
          <6>1. k \in 1 .. Len(N) /\ j \in 1 .. Len(N) /\ m \in 1 .. Len(N)
            <7>1. j \in Nat /\ j <= Len(N) /\ Len(N) \in Nat
              BY <1>0, <2>4
            <7>2. QED BY <7>1
          <6>2. QED BY <1>0, <6>1
        <5>3. k \in 1 .. j - 1 => Len(N[k]) <= Len(N[m])
          BY <3>3
        <5>4. QED BY <3>5, <5>1, <5>2, <5>3
      <4>2. j \in 1 .. j
        BY <2>4
      <4>3. QED BY <2>4, <4>1, <4>2
    <3>6. QED BY <3>4, <3>5
  <2>7. QED BY <2>5, <2>6
<1>2. CASE N = <<>>
  <2>1. Len(N) = 0
    BY <1>2
  <2>2. QED BY <1>2, <2>1 DEF MaxNeedleLen, Hold
<1>3. CASE N # <<>>
  <2>1. Len(N) >= 1
    BY <1>0, <1>3, EmptySeq DEF NeedleLists
  <2>2. Best(Len(N))
    <3>1. Bad = {}
      <4> HIDE DEF Bad
      <4>1. QED BY <1>1
    <3>2. Len(N) \notin Bad
      <4> HIDE DEF Bad
      <4>1. QED BY <3>1
    <3>3. QED BY <1>0, <2>1, <3>2
  <2> DEFINE T == {Len(N[k]) : k \in DOMAIN N}
             M == CHOOSE m \in T : \A k \in DOMAIN N : Len(N[k]) <= m
  <2>3. \E m \in T : \A k \in DOMAIN N : Len(N[k]) <= m
    BY <1>0, <2>2
  <2>4. M \in T /\ \A k \in DOMAIN N : Len(N[k]) <= M
    <3> HIDE DEF T
    <3>1. QED BY <2>3
  <2>5. MaxNeedleLen(N) = M
    BY <1>3 DEF MaxNeedleLen
  <2> HIDE DEF M
  <2>6. M \in Nat /\ M >= 1
    BY <1>0, <2>4
  <2>7. Hold(N) = M - 1
    BY <2>5, <2>6 DEF Hold
  <2>8. QED BY <1>0, <2>4, <2>5, <2>6, <2>7
<1>4. QED BY <1>2, <1>3

\* The first needle that begins at i, if one does.
LEMMA RdFirstAt ==
    ASSUME NEW N \in NeedleLists, NEW s \in Seq(Sym), NEW i \in Nat \ {0}
    PROVE  \/ FirstAt(s, i, N) = 0 /\ \A k \in 1 .. Len(N) : ~Occurs(s, i, N[k])
           \/ FirstAt(s, i, N) \in 1 .. Len(N) /\ Occurs(s, i, N[FirstAt(s, i, N)])
<1> DEFINE hits == {k \in DOMAIN N : StartsAt(s, i, N[k])}
<1>0. Len(N) \in Nat /\ DOMAIN N = 1 .. Len(N) /\ \A k \in 1 .. Len(N) : N[k] \in Seq(Sym)
  BY RdLists, RdTexts
<1>1. \A k \in 1 .. Len(N) : StartsAt(s, i, N[k]) <=> Occurs(s, i, N[k])
  BY <1>0, RdStarts
<1>2. FirstAt(s, i, N) = IF hits = {} THEN 0 ELSE CHOOSE k \in hits : \A j \in hits : k <= j
  BY DEF FirstAt
<1>3. hits \in SUBSET Nat /\ hits = {k \in 1 .. Len(N) : Occurs(s, i, N[k])}
  BY <1>0, <1>1
<1> HIDE DEF hits
<1>4. CASE hits = {}
  BY <1>2, <1>3, <1>4
<1>5. CASE hits # {}
  <2>1. \E k \in hits : \A j \in hits : k <= j
    BY <1>3, <1>5, RdLeast
  <2>2. (CHOOSE k \in hits : \A j \in hits : k <= j) \in hits
    BY <2>1
  <2>3. FirstAt(s, i, N) \in hits
    BY <1>2, <1>5, <2>2
  <2>4. QED BY <1>3, <2>3
<1>6. QED BY <1>4, <1>5

----------------------------------------------------------------------------
(* What is decided of a chunk                                              *)

\* The scan's value at i, given its values further on.
Undecided(s, N) == IF Len(s) > Hold(N) THEN Len(s) - Hold(N) ELSE 0
PartsAt(f, s, N, u, i) ==
    IF i > Len(s) THEN [emit |-> <<>>, held |-> <<>>]
    ELSE LET k == FirstAt(s, i, N)
             rest == IF k # 0 THEN f[i + Len(N[k])] ELSE f[i + 1]
         IN IF k # 0 THEN [rest EXCEPT !.emit = <<Mark>> \o @]
            ELSE IF i - 1 >= u THEN [emit |-> <<>>, held |-> SubSeq(s, i, Len(s))]
            ELSE [rest EXCEPT !.emit = <<s[i]>> \o @]
IsParts(f, s, N) ==
    f = [i \in 1 .. Len(s) + MaxNeedleLen(N) + 1 |-> PartsAt(f, s, N, Undecided(s, N), i)]

\* One of them is what split_redacted uses.
LEMMA RdPartsChosen ==
    ASSUME NEW s, NEW N
    PROVE  SplitRedacted(s, N) = IF Hold(N) = 0 THEN [emit |-> s, held |-> <<>>]
                                 ELSE (CHOOSE f : IsParts(f, s, N))[1]
BY DEF SplitRedacted, IsParts, Undecided, PartsAt

\* x put before what is emitted.
PutFirst(x, parts) == [parts EXCEPT !.emit = x \o @]

\* The rest stays as it is.
LEMMA RdPutFirst ==
    ASSUME NEW x, NEW e, NEW h
    PROVE  PutFirst(x, [emit |-> e, held |-> h]) = [emit |-> x \o e, held |-> h]
<1> DEFINE y == x \o e
<1>1. PutFirst(x, [emit |-> e, held |-> h]) = [[emit |-> e, held |-> h] EXCEPT !.emit = y]
  BY DEF PutFirst
<1> HIDE DEF y
<1>2. [[emit |-> e, held |-> h] EXCEPT !.emit = y] = [emit |-> y, held |-> h]
  OBVIOUS
<1>3. QED BY <1>1, <1>2 DEF y

\* The same, with the choice of the needle spelt out.
LEMMA RdPartsAt ==
    ASSUME NEW f, NEW s, NEW N, NEW u, NEW i
    PROVE  PartsAt(f, s, N, u, i) =
               IF i > Len(s) THEN [emit |-> <<>>, held |-> <<>>]
               ELSE IF FirstAt(s, i, N) # 0
                    THEN PutFirst(<<Mark>>, f[i + Len(N[FirstAt(s, i, N)])])
               ELSE IF i - 1 >= u THEN [emit |-> <<>>, held |-> SubSeq(s, i, Len(s))]
               ELSE PutFirst(<<s[i]>>, f[i + 1])
BY DEF PartsAt, PutFirst

\* There is such a scan.
LEMMA RdPartsExists ==
    ASSUME NEW s \in Seq(Sym), NEW N \in NeedleLists
    PROVE  \E f : IsParts(f, s, N)
<1> DEFINE M == Len(s) + MaxNeedleLen(N) + 1
           u == Undecided(s, N)
           From(f, j) == f = [i \in j .. M |-> PartsAt(f, s, N, u, i)]
           Bad == {d \in Nat : d <= M - 1 /\ ~ \E f : From(f, M - d)}
<1>0. Len(s) \in Nat /\ MaxNeedleLen(N) \in Nat /\ M \in Nat /\ M >= 1 /\ M > Len(s)
  BY LenProperties, RdMax
<1>k. ASSUME NEW i \in Nat \ {0}, FirstAt(s, i, N) # 0
      PROVE  Len(N[FirstAt(s, i, N)]) \in 1 .. MaxNeedleLen(N)
  <2>1. FirstAt(s, i, N) \in 1 .. Len(N)
    BY <1>k, RdFirstAt
  <2>2. N[FirstAt(s, i, N)] \in Needle /\ Len(N[FirstAt(s, i, N)]) <= MaxNeedleLen(N)
    BY <2>1, RdLists, RdMax
  <2>3. Len(N[FirstAt(s, i, N)]) \in Nat /\ Len(N[FirstAt(s, i, N)]) >= 1
    BY <2>2, RdTexts
  <2>4. QED BY <1>0, <2>2, <2>3
<1> HIDE DEF u
<1>1. Bad = {}
  <2>1. SUFFICES ASSUME Bad # {} PROVE FALSE
    OBVIOUS
  <2>2. Bad \in SUBSET Nat
    OBVIOUS
  <2> HIDE DEF Bad
  <2>3. PICK d \in Bad : \A k \in Bad : d <= k
    BY <2>1, <2>2, RdLeast
  <2>4. d \in Nat /\ d <= M - 1 /\ ~ \E f : From(f, M - d)
    BY <2>3 DEF Bad
  <2> DEFINE j == M - d
  <2>5. j \in 1 .. M /\ j = M - d
    BY <1>0, <2>4
  <2>6. CASE d = 0
    <3> DEFINE h == [i \in M .. M |-> [emit |-> <<>>, held |-> <<>>]]
    <3>1. \A i \in M .. M : PartsAt(h, s, N, u, i) = [emit |-> <<>>, held |-> <<>>]
      <4> HIDE DEF h
      <4>1. \A i \in M .. M : i > Len(s)
        BY <1>0
      <4>2. QED BY <4>1, RdPartsAt
    <3>2. h = [i \in M .. M |-> PartsAt(h, s, N, u, i)]
      <4> HIDE DEF h
      <4>1. h = [i \in M .. M |-> [emit |-> <<>>, held |-> <<>>]]
        BY DEF h
      <4>2. QED BY <3>1, <4>1
    <3>3. M - d = M
      BY <1>0, <2>6
    <3>4. From(h, M - d)
      BY <3>2, <3>3
    <3>5. QED BY <2>4, <3>4
  <2>7. CASE d # 0
    <3>1. d - 1 \in Nat /\ d - 1 < d /\ d - 1 <= M - 1 /\ M - (d - 1) = j + 1
      BY <1>0, <2>4, <2>7
    <3>2. d - 1 \notin Bad
      BY <2>3, <2>4, <3>1
    <3>3. \E f : From(f, j + 1)
      BY <3>1, <3>2 DEF Bad
    <3> HIDE DEF j, M
    <3>4. PICK g : g = [i \in j + 1 .. M |-> PartsAt(g, s, N, u, i)]
      BY <3>3
    <3> DEFINE h == [i \in j .. M |-> IF i = j THEN PartsAt(g, s, N, u, j) ELSE g[i]]
    <3>5. \A i \in j + 1 .. M : h[i] = g[i]
      BY <2>5
    <3>i. h = [i \in j .. M |-> h[i]] /\ h[j] = PartsAt(g, s, N, u, j)
      BY <2>5
    <3> HIDE DEF h
    <3>6. ASSUME NEW i \in j .. M PROVE PartsAt(h, s, N, u, i) = PartsAt(g, s, N, u, i)
      <4>0. i \in Nat \ {0}
        BY <2>5
      <4>1. CASE i > Len(s)
        BY <4>1, RdPartsAt
      <4>2. CASE ~(i > Len(s))
        <5>1. i + 1 \in j + 1 .. M
          BY <1>0, <2>5, <4>2
        <5>2. h[i + 1] = g[i + 1]
          BY <3>5, <5>1
        <5>3. CASE FirstAt(s, i, N) # 0
          <6> DEFINE q == Len(N[FirstAt(s, i, N)])
          <6>1. q \in 1 .. MaxNeedleLen(N)
            BY <1>k, <4>0, <5>3
          <6> HIDE DEF q
          <6>2. i + q \in j + 1 .. M
            BY <1>0, <2>5, <4>2, <6>1 DEF M
          <6>3. h[i + q] = g[i + q]
            BY <3>5, <6>2
          <6>4. QED BY <4>2, <5>3, <6>3, RdPartsAt DEF q
        <5>4. CASE FirstAt(s, i, N) = 0
          BY <4>2, <5>2, <5>4, RdPartsAt
        <5>5. QED BY <5>3, <5>4
      <4>3. QED BY <4>1, <4>2
    <3>7. ASSUME NEW i \in j .. M PROVE h[i] = PartsAt(h, s, N, u, i)
      <4>1. CASE i = j
        BY <3>6, <3>i, <4>1
      <4>2. CASE i # j
        <5>1. i \in j + 1 .. M
          BY <2>5, <4>2
        <5>2. g[i] = PartsAt(g, s, N, u, i)
          BY <3>4, <5>1
        <5>3. QED BY <3>5, <3>6, <5>1, <5>2
      <4>3. QED BY <4>1, <4>2
    <3>8. h = [i \in j .. M |-> PartsAt(h, s, N, u, i)]
      BY <3>7, <3>i
    <3>9. From(h, M - d)
      BY <2>5, <3>8
    <3>10. QED BY <2>4, <3>9
  <2>8. QED BY <2>6, <2>7
<1>2. M - 1 \in Nat /\ M - 1 <= M - 1 /\ M - (M - 1) = 1
  <2> HIDE DEF M
  <2>1. QED BY <1>0
<1>3. \E f : From(f, 1)
  BY <1>1, <1>2
<1>4. QED BY <1>3 DEF IsParts, u

\* A suffix of a suffix, and what stands at its front.
LEMMA RdSufSuf ==
    ASSUME NEW s \in Seq(Sym), NEW i \in 1 .. Len(s) + 1, NEW d \in 1 .. Len(Suf(s, i)) + 1
    PROVE  Suf(Suf(s, i), d) = Suf(s, i + (d - 1)) /\ i + (d - 1) \in 1 .. Len(s) + 1
<1> DEFINE t == Suf(s, i)
           p == Suf(t, d)
           k == i + (d - 1)
           q == Suf(s, k)
<1>0. Len(s) \in Nat
  BY LenProperties
<1>1. /\ t \in Seq(Sym) /\ Len(t) = (Len(s) - i) + 1
      /\ \A j \in 1 .. (Len(s) - i) + 1 : t[j] = s[i + (j - 1)]
  BY RdSuf
<1>2. d \in 1 .. Len(t) + 1
  OBVIOUS
<1> HIDE DEF t
<1>3. /\ p \in Seq(Sym) /\ Len(p) = (Len(t) - d) + 1
      /\ \A j \in 1 .. (Len(t) - d) + 1 : p[j] = t[d + (j - 1)]
  BY <1>1, <1>2, RdSuf
<1> HIDE DEF p
<1>4. k \in 1 .. Len(s) + 1 /\ k = i + (d - 1)
  BY <1>0, <1>1, <1>2
<1> HIDE DEF k
<1>5. /\ q \in Seq(Sym) /\ Len(q) = (Len(s) - k) + 1
      /\ \A j \in 1 .. (Len(s) - k) + 1 : q[j] = s[k + (j - 1)]
  BY <1>4, RdSuf
<1> HIDE DEF q
<1>6. Len(p) = Len(q)
  BY <1>0, <1>1, <1>3, <1>4, <1>5
<1>7. ASSUME NEW j \in 1 .. Len(p) PROVE p[j] = q[j]
  <2>1. /\ j \in 1 .. (Len(t) - d) + 1 /\ d + (j - 1) \in 1 .. (Len(s) - i) + 1
        /\ i + ((d + (j - 1)) - 1) = k + (j - 1) /\ j \in 1 .. (Len(s) - k) + 1
    BY <1>0, <1>1, <1>2, <1>3, <1>4
  <2>2. p[j] = t[d + (j - 1)] /\ q[j] = s[k + (j - 1)]
    BY <1>3, <1>5, <2>1
  <2>3. t[d + (j - 1)] = s[i + ((d + (j - 1)) - 1)]
    BY <1>1, <2>1
  <2>4. QED BY <2>1, <2>2, <2>3
<1>8. p = q
  BY <1>3, <1>5, <1>6, <1>7, SeqEqual
<1>9. QED BY <1>4, <1>8 DEF p, q, t, k

\* What stands at the front of a suffix stands where the suffix begins.
LEMMA RdSufOccurs ==
    ASSUME NEW s \in Seq(Sym), NEW i \in 1 .. Len(s) + 1, NEW m \in Needle
    PROVE  Occurs(Suf(s, i), 1, m) <=> Occurs(s, i, m)
<1> DEFINE t == Suf(s, i)
<1>0. Len(s) \in Nat /\ Len(m) \in Nat /\ Len(m) >= 1
  BY LenProperties, RdTexts
<1>1. /\ t \in Seq(Sym) /\ Len(t) = (Len(s) - i) + 1
      /\ \A j \in 1 .. (Len(s) - i) + 1 : t[j] = s[i + (j - 1)]
  BY RdSuf
<1> HIDE DEF t
<1>2. 1 + (Len(m) - 1) <= Len(t) <=> i + (Len(m) - 1) <= Len(s)
  BY <1>0, <1>1
<1>3. ASSUME i + (Len(m) - 1) <= Len(s), NEW d \in 1 .. Len(m)
      PROVE  t[1 + (d - 1)] = s[i + (d - 1)]
  <2>1. 1 + (d - 1) = d /\ d \in 1 .. (Len(s) - i) + 1
    BY <1>0, <1>3
  <2>2. QED BY <1>1, <2>1
<1>4. QED BY <1>2, <1>3 DEF Occurs, t

\* Of a text t before z, e is decided and h is not: no needle that could stand in the
\* whole begins in what is decided, and what becomes of the whole is e and then what
\* becomes of the undecided.
Decided(e, h, t, z, N) ==
    /\ \A x \in Seq(Sym) :
          FreeAll(x \o (t \o z), N, Len(x)) => FreeAll((x \o e) \o (h \o z), N, Len(x \o e))
    /\ Independent(N) => ApplyToBytes(t \o z, N) = e \o ApplyToBytes(h \o z, N)

\* The result of all the needles is a text.
LEMMA RdAfterText ==
    ASSUME NEW c \in Seq(Sym), NEW N \in NeedleLists
    PROVE  ApplyToBytes(c, N) \in Seq(Sym)
<1>1. Len(N) \in Nat
  BY RdLists
<1>2. AfterSound(c, N, Len(N)) /\ ApplyToBytes(c, N) = After(c, N, Len(N))
  BY <1>1, RdAfter, RdAfterSound
<1>3. QED BY <1>2 DEF AfterSound

\* Nothing decided.
LEMMA RdUndecided ==
    ASSUME NEW N \in NeedleLists, NEW t \in Seq(Sym), NEW z \in Seq(Sym)
    PROVE  Decided(<<>>, t, t, z, N)
<1>1. \A x \in Seq(Sym) : x \o <<>> = x
  BY ConcatEmptySeq
<1>2. t \o z \in Seq(Sym) /\ Len(N) \in Nat
  BY ConcatProperties, RdLists
<1>3. ApplyToBytes(t \o z, N) \in Seq(Sym)
  BY <1>2, RdAfterText
<1>4. <<>> \o ApplyToBytes(t \o z, N) = ApplyToBytes(t \o z, N)
  BY <1>3, ConcatEmptySeq
<1>5. QED BY <1>1, <1>4 DEF Decided

\* A needle at the front is decided.
LEMMA RdDecidedNeedle ==
    ASSUME NEW N \in NeedleLists, NEW k \in 1 .. Len(N), NEW t \in Seq(Sym), NEW z \in Seq(Sym),
           NEW e \in Seq(Sym), NEW h \in Seq(Sym), Decided(e, h, t, z, N)
    PROVE  Decided(<<Mark>> \o e, h, N[k] \o t, z, N)
<1> DEFINE p == N[k]
           tz == t \o z
           hz == h \o z
<1>0. /\ p \in Needle /\ p \in Seq(Sym) /\ Len(p) >= 1 /\ <<Mark>> \in Seq(Sym) /\ Len(<<Mark>>) = 1
  BY RdLists, RdTexts
<1>n. p = N[k]
  OBVIOUS
<1> HIDE DEF p
<1>1. /\ tz \in Seq(Sym) /\ hz \in Seq(Sym) /\ (p \o t) \o z = p \o tz
  <2>1. tz \in Seq(Sym) /\ hz \in Seq(Sym)
    BY RdJoin
  <2>2. (p \o t) \o z = p \o (t \o z)
    <3>1. p \in Seq(Sym)
      BY <1>0
    <3>2. QED BY ONLY RdJoin, <3>1, t \in Seq(Sym), z \in Seq(Sym)
  <2>3. QED BY <2>1, <2>2
<1> HIDE DEF tz, hz
<1>2. ASSUME NEW x \in Seq(Sym), FreeAll(x \o (p \o tz), N, Len(x))
      PROVE  FreeAll((x \o (<<Mark>> \o e)) \o hz, N, Len(x \o (<<Mark>> \o e)))
  <2> DEFINE x2 == x \o <<Mark>>
  <2>1. x2 \in Seq(Sym) /\ Len(x2) = Len(x) + 1 /\ x2 \o e = x \o (<<Mark>> \o e)
    BY <1>0, RdJoin
  <2>2. FreeAll(x2 \o tz, N, Len(x2))
    <3>1. ASSUME NEW i \in 1 .. Len(N) PROVE Free(x2 \o tz, N[i], Len(x2))
      <4>1. N[i] \in Needle /\ Free(x \o (p \o tz), N[i], Len(x))
        BY <1>2, RdLists DEF FreeAll
      <4>2. Free((x \o <<Mark>>) \o tz, N[i], Len(x) + 1)
        BY <1>0, <1>1, <4>1, RdMarked
      <4>3. QED BY <2>1, <4>2
    <3>2. QED BY <3>1 DEF FreeAll
  <2> HIDE DEF x2
  <2>3. FreeAll((x2 \o e) \o hz, N, Len(x2 \o e))
    BY <2>1, <2>2 DEF Decided, tz, hz
  <2>4. QED BY <2>1, <2>3
<1>3. ASSUME Independent(N)
      PROVE  ApplyToBytes(p \o tz, N) = (<<Mark>> \o e) \o ApplyToBytes(hz, N)
  <2>1. ApplyToBytes(p \o tz, N) = <<Mark>> \o ApplyToBytes(tz, N)
    BY <1>1, <1>3, <1>n, RdAfterNeedle
  <2>2. ApplyToBytes(tz, N) = e \o ApplyToBytes(hz, N)
    BY <1>3 DEF Decided, tz, hz
  <2>3. ApplyToBytes(hz, N) \in Seq(Sym)
    BY <1>1, RdAfterText
  <2>4. (<<Mark>> \o e) \o ApplyToBytes(hz, N) = <<Mark>> \o (e \o ApplyToBytes(hz, N))
    <3>1. ASSUME NEW r \in Seq(Sym) PROVE (<<Mark>> \o e) \o r = <<Mark>> \o (e \o r)
      <4>1. <<Mark>> \in Seq(Sym)
        BY <1>0
      <4>2. QED BY ONLY RdJoin, <4>1, e \in Seq(Sym), r \in Seq(Sym)
    <3>2. QED BY <2>3, <3>1
  <2>5. QED BY <2>1, <2>2, <2>4
<1>4. QED BY <1>1, <1>2, <1>3, <1>n DEF Decided, hz

\* So is a byte at which no needle can begin.
LEMMA RdDecidedByte ==
    ASSUME NEW N \in NeedleLists, NEW a \in Seq(Sym), Len(a) = 1, NEW t \in Seq(Sym), NEW z \in Seq(Sym),
           NEW e \in Seq(Sym), NEW h \in Seq(Sym), Decided(e, h, t, z, N),
           FreeAll(a \o (t \o z), N, 1)
    PROVE  Decided(a \o e, h, a \o t, z, N)
<1> DEFINE tz == t \o z
           hz == h \o z
<1>1. /\ tz \in Seq(Sym) /\ hz \in Seq(Sym) /\ (a \o t) \o z = a \o tz /\ a \o tz \in Seq(Sym)
  BY RdJoin
<1>f. FreeAll(a \o tz, N, 1)
  OBVIOUS
<1> HIDE DEF tz, hz
<1>2. ASSUME NEW x \in Seq(Sym), FreeAll(x \o (a \o tz), N, Len(x))
      PROVE  FreeAll((x \o (a \o e)) \o hz, N, Len(x \o (a \o e)))
  <2> DEFINE x2 == x \o a
  <2>1. /\ x2 \in Seq(Sym) /\ Len(x2) = Len(x) + 1 /\ Len(x) \in Nat
        /\ x2 \o e = x \o (a \o e) /\ x2 \o tz = x \o (a \o tz)
    <3>1. x2 \in Seq(Sym) /\ Len(x2) = Len(x) + 1 /\ Len(x) \in Nat /\ x2 \o e = x \o (a \o e)
      BY RdJoin, LenProperties
    <3>2. Joins(x, a, tz)
      BY <1>1, RdJoins
    <3>3. x2 \o tz = x \o (a \o tz)
      BY <3>2 DEF Joins
    <3>4. QED BY <3>1, <3>3
  <2> HIDE DEF x2
  <2>2. FreeAll(x2 \o tz, N, Len(x2))
    <3>1. ASSUME NEW i \in 1 .. Len(N), NEW j \in 1 .. Len(x2), Occurs(x2 \o tz, j, N[i]) PROVE FALSE
      <4>1. N[i] \in Needle /\ Free(x \o (a \o tz), N[i], Len(x)) /\ Free(a \o tz, N[i], 1)
        BY <1>2, <1>f, RdLists DEF FreeAll
      <4>2. j = Len(x) + 1
        BY <2>1, <3>1, <4>1 DEF Free
      <4>3. Occurs(x \o (a \o tz), Len(x) + 1, N[i])
        BY <2>1, <3>1, <4>2
      <4>4. Occurs(a \o tz, 1, N[i])
        <5>1. 1 \in Nat \ {0}
          OBVIOUS
        <5>2. QED BY <1>1, <4>1, <4>3, <5>1, RdBehind
      <4>5. QED BY <4>1, <4>4 DEF Free
    <3>2. QED BY <3>1 DEF FreeAll, Free
  <2>3. FreeAll((x2 \o e) \o hz, N, Len(x2 \o e))
    BY <2>1, <2>2 DEF Decided, tz, hz
  <2>4. QED BY <2>1, <2>3
<1>3. ASSUME Independent(N)
      PROVE  ApplyToBytes(a \o tz, N) = (a \o e) \o ApplyToBytes(hz, N)
  <2>1. ApplyToBytes(a \o tz, N) = a \o ApplyToBytes(tz, N)
    BY <1>1, <1>f, RdAfterByte
  <2>2. ApplyToBytes(tz, N) = e \o ApplyToBytes(hz, N)
    BY <1>3 DEF Decided, tz, hz
  <2>3. ApplyToBytes(hz, N) \in Seq(Sym)
    BY <1>1, RdAfterText
  <2>4. (a \o e) \o ApplyToBytes(hz, N) = a \o (e \o ApplyToBytes(hz, N))
    <3>1. Joins(a, e, ApplyToBytes(hz, N))
      BY <2>3, RdJoins
    <3>2. QED BY <3>1 DEF Joins
  <2>5. QED BY <2>1, <2>2, <2>4
<1>4. QED BY <1>1, <1>2, <1>3 DEF Decided, hz

\* The whole is a suffix.
LEMMA RdSufAll ==
    ASSUME NEW s \in Seq(Sym)
    PROVE  Suf(s, 1) = s
<1> DEFINE t == Suf(s, 1)
<1>0. Len(s) \in Nat /\ 1 \in 1 .. Len(s) + 1
  BY LenProperties
<1>1. /\ t \in Seq(Sym) /\ Len(t) = (Len(s) - 1) + 1
      /\ \A j \in 1 .. (Len(s) - 1) + 1 : t[j] = s[1 + (j - 1)]
  BY <1>0, RdSuf
<1> HIDE DEF t
<1>2. Len(t) = Len(s)
  BY <1>0, <1>1
<1>3. ASSUME NEW j \in 1 .. Len(t) PROVE t[j] = s[j]
  <2>1. j \in 1 .. (Len(s) - 1) + 1 /\ 1 + (j - 1) = j
    BY <1>0, <1>2
  <2>2. QED BY <1>1, <2>1
<1>4. t = s
  BY <1>1, <1>2, <1>3, SeqEqual
<1>5. QED BY <1>4 DEF t

\* No needle can begin at a byte that is followed by as many as the longest needle has.
LEMMA RdNoNeedle ==
    ASSUME NEW s \in Seq(Sym), NEW N \in NeedleLists, NEW i \in 1 .. Len(s),
           \A k \in 1 .. Len(N) : ~Occurs(s, i, N[k]), i + Hold(N) <= Len(s), NEW z \in Seq(Sym)
    PROVE  FreeAll(Suf(s, i) \o z, N, 1)
<1> DEFINE t == Suf(s, i)
<1>0. Len(s) \in Nat /\ i \in 1 .. Len(s) + 1
  BY LenProperties
<1>1. t \in Seq(Sym) /\ Len(t) = (Len(s) - i) + 1
  BY <1>0, RdSuf
<1>2. ASSUME NEW k \in 1 .. Len(N), Occurs(t \o z, 1, N[k]) PROVE FALSE
  <2>1. N[k] \in Needle /\ Len(N[k]) <= Hold(N) + 1 /\ Hold(N) \in Nat
    BY RdLists, RdMax
  <2>2. Len(N[k]) \in Nat
    BY <2>1, RdTexts
  <2>3. 1 + (Len(N[k]) - 1) <= Len(t) /\ 1 \in Nat \ {0}
    BY <1>0, <1>1, <2>1, <2>2
  <2>4. Occurs(t, 1, N[k])
    <3> HIDE DEF t
    <3>1. QED BY <1>1, <1>2, <2>1, <2>3, RdBefore
  <2>5. Occurs(s, i, N[k])
    BY <1>0, <2>1, <2>4, RdSufOccurs
  <2>6. QED BY <2>5
<1>3. QED BY <1>2 DEF FreeAll, Free

\* Without needles everything is decided at once.
LEMMA RdSplitNone ==
    ASSUME NEW s \in Seq(Sym), NEW N \in NeedleLists, N = <<>>, NEW z \in Seq(Sym)
    PROVE  Decided(s, <<>>, s, z, N)
<1>1. Len(N) = 0 /\ <<>> \in Seq(Sym)
  BY EmptySeq
<1>2. ASSUME NEW c \in Seq(Sym) PROVE ApplyToBytes(c, N) = c
  BY <1>1, RdAfter
<1>3. s \o z \in Seq(Sym) /\ <<>> \o z = z
  BY ConcatProperties, ConcatEmptySeq
<1>4. ApplyToBytes(s \o z, N) = s \o ApplyToBytes(<<>> \o z, N)
  BY <1>2, <1>3
<1>5. \A w, b : FreeAll(w, N, b)
  BY <1>1 DEF FreeAll
<1>6. QED BY <1>4, <1>5 DEF Decided

\* What split_redacted decides is decided.
LEMMA RdSplit ==
    ASSUME NEW s \in Seq(Sym), NEW N \in NeedleLists, N = <<>> \/ Hold(N) # 0
    PROVE  \E e, h \in Seq(Sym) :
              /\ SplitRedacted(s, N) = [emit |-> e, held |-> h]
              /\ \A z \in Seq(Sym) : Decided(e, h, s, z, N)
<1> DEFINE f == CHOOSE g : IsParts(g, s, N)
           u == Undecided(s, N)
           L == Len(s)
           Good(i) == \E e, h \in Seq(Sym) :
                         /\ f[i] = [emit |-> e, held |-> h]
                         /\ \A z \in Seq(Sym) : Decided(e, h, Suf(s, i), z, N)
           Bad == {d \in Nat : d <= L /\ ~Good((L + 1) - d)}
<1>0. L \in Nat /\ MaxNeedleLen(N) \in Nat /\ Hold(N) \in Nat /\ <<>> \in Seq(Sym)
  BY LenProperties, RdMax, EmptySeq
<1>1. CASE Hold(N) = 0
  <2>1. SplitRedacted(s, N) = [emit |-> s, held |-> <<>>]
    BY <1>1, RdPartsChosen
  <2>2. \A z \in Seq(Sym) : Decided(s, <<>>, s, z, N)
    BY <1>1, RdSplitNone
  <2>3. QED BY <1>0, <2>1, <2>2
<1>2. CASE Hold(N) # 0
  <2>1. IsParts(f, s, N) /\ SplitRedacted(s, N) = f[1]
    BY <1>2, RdPartsExists, RdPartsChosen
  <2> HIDE DEF f
  <2>2. \A i \in 1 .. L + MaxNeedleLen(N) + 1 : f[i] = PartsAt(f, s, N, u, i)
    BY <2>1 DEF IsParts
  <2>3. u = (IF L > Hold(N) THEN L - Hold(N) ELSE 0)
    BY DEF Undecided
  <2> HIDE DEF u
  <2>4. ASSUME NEW i \in 1 .. L + 1, \A j \in 1 .. L + 1 : j > i => Good(j) PROVE Good(i)
    <3> DEFINE t == Suf(s, i)
    <3>0. i \in Nat \ {0} /\ i \in 1 .. L + MaxNeedleLen(N) + 1
      BY <1>0
    <3>1. f[i] = PartsAt(f, s, N, u, i)
      BY <2>2, <3>0
    <3>n. i <= L => ~(i > Len(s))
      BY <1>0
    <3>2. t \in Seq(Sym) /\ Len(t) = (L - i) + 1
      BY RdSuf
    <3>3. \A z \in Seq(Sym) : Decided(<<>>, t, t, z, N)
      <4> HIDE DEF t
      <4>1. QED BY <3>2, RdUndecided
    <3>4. CASE i > L
      <4>1. f[i] = [emit |-> <<>>, held |-> <<>>]
        BY <3>1, <3>4, RdPartsAt
      <4>2. t = <<>>
        <5>1. Len(t) = 0
          BY <1>0, <3>2, <3>4
        <5>2. QED BY <3>2, <5>1, EmptySeq
      <4> HIDE DEF t
      <4>3. \A z \in Seq(Sym) : Decided(<<>>, <<>>, t, z, N)
        BY <3>3, <4>2
      <4>4. QED BY <1>0, <4>1, <4>3 DEF t
    <3>5. CASE i <= L /\ FirstAt(s, i, N) # 0
      <4> DEFINE k == FirstAt(s, i, N)
                 p == N[k]
                 j == i + Len(p)
      <4>1. k \in 1 .. Len(N) /\ Occurs(s, i, p) /\ p \in Needle
        BY <3>0, <3>5, RdFirstAt, RdLists
      <4>2. f[i] = PutFirst(<<Mark>>, f[j])
        BY <3>1, <3>5, <3>n, RdPartsAt
      <4>3. Len(p) \in Nat /\ Len(p) >= 1 /\ p \in Seq(Sym)
        BY <4>1, RdTexts
      <4> HIDE DEF k, p
      <4>4. Occurs(t, 1, p)
        BY <4>1, RdSufOccurs
      <4>5. Suf(t, 1 + Len(p)) \in Seq(Sym) /\ Len(p) <= Len(t) /\ t = p \o Suf(t, 1 + Len(p))
        <5> HIDE DEF t
        <5>1. QED BY <3>2, <4>3, <4>4, RdFront
      <4>6. 1 + Len(p) \in 1 .. Len(t) + 1 /\ i + ((1 + Len(p)) - 1) = j /\ j > i
        BY <3>2, <4>3, <4>5
      <4>7. Suf(t, 1 + Len(p)) = Suf(s, i + ((1 + Len(p)) - 1)) /\ i + ((1 + Len(p)) - 1) \in 1 .. L + 1
        BY <4>6, RdSufSuf
      <4> DEFINE t2 == Suf(s, j)
      <4>8. t2 \in Seq(Sym) /\ t = p \o t2 /\ j \in 1 .. L + 1
        BY <4>5, <4>6, <4>7
      <4>9. PICK e \in Seq(Sym), h \in Seq(Sym) :
              /\ f[j] = [emit |-> e, held |-> h]
              /\ \A z \in Seq(Sym) : Decided(e, h, t2, z, N)
        BY <2>4, <4>6, <4>8
      <4> HIDE DEF t, t2, j
      <4>10. f[i] = [emit |-> <<Mark>> \o e, held |-> h]
        <5>1. f[j] = [emit |-> e, held |-> h]
          BY <4>9
        <5>2. PutFirst(<<Mark>>, [emit |-> e, held |-> h]) = [emit |-> <<Mark>> \o e, held |-> h]
          BY RdPutFirst
        <5>3. QED BY <4>2, <5>1, <5>2
      <4>11. <<Mark>> \o e \in Seq(Sym)
        BY <4>9, RdTexts, ConcatProperties
      <4>12. ASSUME NEW z \in Seq(Sym) PROVE Decided(<<Mark>> \o e, h, t, z, N)
        <5>1. Decided(e, h, t2, z, N)
          BY <4>9
        <5>2. Decided(<<Mark>> \o e, h, N[k] \o t2, z, N)
          BY <4>1, <4>8, <4>9, <5>1, RdDecidedNeedle
        <5>3. QED BY <4>8, <5>2 DEF p
      <4>13. QED BY <4>9, <4>10, <4>11, <4>12 DEF t
    <3>6. CASE i <= L /\ FirstAt(s, i, N) = 0 /\ i - 1 >= u
      <4>1. f[i] = [emit |-> <<>>, held |-> t]
        BY <3>1, <3>6, <3>n, RdPartsAt DEF Suf
      <4> HIDE DEF t
      <4>2. QED BY <1>0, <3>2, <3>3, <4>1 DEF t
    <3>7. CASE i <= L /\ FirstAt(s, i, N) = 0 /\ ~(i - 1 >= u)
      <4> DEFINE a == <<s[i]>>
                 j == i + 1
                 t2 == Suf(s, j)
      <4>1. f[i] = PutFirst(a, f[j])
        BY <3>1, <3>7, RdPartsAt
      <4>2. \A k \in 1 .. Len(N) : ~Occurs(s, i, N[k])
        BY <3>0, <3>7, RdFirstAt
      <4>3. i \in 1 .. Len(s) /\ i + Hold(N) <= Len(s) /\ j \in 1 .. L + 1 /\ j > i
        BY <1>0, <2>3, <3>7
      <4>4. \A z \in Seq(Sym) : FreeAll(t \o z, N, 1)
        BY <4>2, <4>3, RdNoNeedle
      <4>5. a \in Seq(Sym) /\ Len(a) = 1 /\ t2 \in Seq(Sym) /\ t = a \o t2
        <5>1. Len(t) > 0
          BY <3>2, <4>3
        <5>2. /\ Suf(t, 2) \in Seq(Sym)
              /\ t[1] \in Sym /\ <<t[1]>> \in Seq(Sym) /\ t = <<t[1]>> \o Suf(t, 2)
          <6> HIDE DEF t
          <6>1. QED BY <3>2, <5>1, RdFirst
        <5>3. t[1] = s[i]
          <6>1. 1 \in 1 .. (L - i) + 1 /\ i + (1 - 1) = i
            BY <1>0, <4>3
          <6>2. t[1] = s[i + (1 - 1)]
            BY <6>1, RdSuf
          <6>3. QED BY <6>1, <6>2
        <5>4. 2 \in 1 .. Len(t) + 1 /\ i + (2 - 1) = j
          BY <3>2, <4>3
        <5>5. Suf(t, 2) = Suf(s, i + (2 - 1))
          BY <5>4, RdSufSuf
        <5>6. Suf(t, 2) = t2
          BY <5>4, <5>5
        <5> HIDE DEF t, t2
        <5>7. QED BY <5>2, <5>3, <5>6
      <4>6. PICK e \in Seq(Sym), h \in Seq(Sym) :
              /\ f[j] = [emit |-> e, held |-> h]
              /\ \A z \in Seq(Sym) : Decided(e, h, t2, z, N)
        BY <2>4, <4>3
      <4> HIDE DEF t, t2, j, a
      <4>7. f[i] = [emit |-> a \o e, held |-> h]
        <5>1. f[j] = [emit |-> e, held |-> h]
          BY <4>6
        <5>2. PutFirst(a, [emit |-> e, held |-> h]) = [emit |-> a \o e, held |-> h]
          BY RdPutFirst
        <5>3. QED BY <4>1, <5>1, <5>2
      <4>8. a \o e \in Seq(Sym)
        BY <4>5, <4>6, ConcatProperties
      <4>9. ASSUME NEW z \in Seq(Sym) PROVE Decided(a \o e, h, t, z, N)
        <5>1. Decided(e, h, t2, z, N)
          BY <4>6
        <5>2. t \o z = a \o (t2 \o z)
          <6>1. Joins(a, t2, z)
            BY <4>5, RdJoins
          <6>2. QED BY <4>5, <6>1 DEF Joins
        <5>3. FreeAll(a \o (t2 \o z), N, 1)
          BY <4>4, <5>2
        <5>4. Decided(a \o e, h, a \o t2, z, N)
          BY <4>5, <4>6, <5>1, <5>3, RdDecidedByte
        <5>5. QED BY <4>5, <5>4
      <4>10. \A z \in Seq(Sym) : Decided(a \o e, h, t, z, N)
        BY <4>9
      <4> DEFINE e2 == a \o e
      <4>11. e2 \in Seq(Sym) /\ f[i] = [emit |-> e2, held |-> h] /\ \A z \in Seq(Sym) : Decided(e2, h, t, z, N)
        BY <4>7, <4>8, <4>10
      <4> HIDE DEF e2
      <4>12. QED BY <4>6, <4>11 DEF t
    <3>8. i > L \/ i <= L
      BY <1>0
    <3> HIDE DEF Good
    <3>9. QED BY <3>4, <3>5, <3>6, <3>7, <3>8
  <2>5. ASSUME Bad # {} PROVE FALSE
    <3>1. Bad \in SUBSET Nat
      OBVIOUS
    <3> HIDE DEF Bad
    <3>2. PICK d \in Bad : \A k \in Bad : d <= k
      BY <2>5, <3>1, RdLeast
    <3> DEFINE i == (L + 1) - d
    <3>3. d \in Nat /\ d <= L /\ ~Good(i) /\ i \in 1 .. L + 1
      <4>1. d \in Nat /\ d <= L /\ ~Good(i)
        BY <3>2 DEF Bad
      <4>2. i \in 1 .. L + 1
        BY <1>0, <4>1
      <4>3. QED BY <4>1, <4>2
    <3>4. ASSUME NEW j \in 1 .. L + 1, j > i PROVE Good(j)
      <4>1. (L + 1) - j \in Nat /\ (L + 1) - j < d /\ (L + 1) - j <= L /\ (L + 1) - ((L + 1) - j) = j
        <5> HIDE DEF Good
        <5>1. QED BY <1>0, <3>3, <3>4
      <4>2. (L + 1) - j \notin Bad
        BY <3>1, <3>2, <4>1
      <4>3. Good((L + 1) - ((L + 1) - j))
        BY <4>1, <4>2 DEF Bad
      <4> HIDE DEF Good
      <4>4. QED BY <4>1, <4>3
    <3> HIDE DEF Good, i
    <3>5. QED BY <2>4, <3>3, <3>4
  <2>6. Good(1)
    <3>1. L \in Nat /\ (L + 1) - L = 1
      BY <1>0
    <3> HIDE DEF Good
    <3>2. L \notin Bad
      <4> HIDE DEF Bad
      <4>1. QED BY <2>5
    <3>3. QED BY <3>1, <3>2
  <2>7. Suf(s, 1) = s
    BY RdSufAll
  <2>8. QED BY <2>1, <2>6, <2>7
<1>3. QED BY <1>1, <1>2

\* The needles after each of the values an injection offers.
OfferedAt(f, ps, k) == IF k = 0 THEN <<>> ELSE Add(f[k - 1], ps[k])
IsOffered(f, ps) == f = [k \in 0 .. Len(ps) |-> OfferedAt(f, ps, k)]

\* One of them is what from_injection uses.
LEMMA RdOfferedChosen ==
    ASSUME NEW ps
    PROVE  FromInjection(ps) = (CHOOSE f : IsOffered(f, ps))[Len(ps)]
BY DEF FromInjection, IsOffered, OfferedAt

\* There are such needles.
LEMMA RdOfferedExists ==
    ASSUME NEW ps, Len(ps) \in Nat
    PROVE  \E f : IsOffered(f, ps)
<1> DEFINE Upto(f, j) == f = [k \in 0 .. j |-> OfferedAt(f, ps, k)]
           Bad == {j \in Nat : ~ \E f : Upto(f, j)}
<1>1. Bad = {}
  <2>1. SUFFICES ASSUME Bad # {} PROVE FALSE
    OBVIOUS
  <2>2. Bad \in SUBSET Nat
    OBVIOUS
  <2> HIDE DEF Bad
  <2>3. PICK j \in Bad : \A k \in Bad : j <= k
    BY <2>1, <2>2, RdLeast
  <2>4. j \in Nat /\ ~ \E f : Upto(f, j)
    BY <2>3 DEF Bad
  <2>5. CASE j = 0
    <3> DEFINE h == [k \in 0 .. 0 |-> <<>>]
    <3>1. \A k \in 0 .. 0 : OfferedAt(h, ps, k) = <<>>
      BY DEF OfferedAt
    <3>2. h = [k \in 0 .. 0 |-> OfferedAt(h, ps, k)]
      <4> HIDE DEF h
      <4>1. h = [k \in 0 .. 0 |-> <<>>]
        BY DEF h
      <4>2. QED BY <3>1, <4>1
    <3>3. Upto(h, j)
      BY <2>5, <3>2
    <3>4. QED BY <2>4, <3>3
  <2>6. CASE j # 0
    <3>1. j - 1 \in Nat /\ j - 1 < j
      BY <2>4, <2>6
    <3>2. j - 1 \notin Bad
      BY <2>3, <2>4, <3>1
    <3>3. \E f : Upto(f, j - 1)
      BY <3>1, <3>2 DEF Bad
    <3>4. PICK g : g = [k \in 0 .. j - 1 |-> OfferedAt(g, ps, k)]
      BY <3>3
    <3> DEFINE h == [k \in 0 .. j |-> IF k = j THEN OfferedAt(g, ps, j) ELSE g[k]]
    <3>5. \A k \in 0 .. j - 1 : h[k] = g[k]
      BY <2>4
    <3>6. h = [k \in 0 .. j |-> h[k]] /\ h[j] = OfferedAt(g, ps, j)
      BY <2>4
    <3> HIDE DEF h
    <3>7. ASSUME NEW k \in 0 .. j PROVE OfferedAt(h, ps, k) = OfferedAt(g, ps, k)
      <4>1. k # 0 => k - 1 \in 0 .. j - 1
        BY <2>4
      <4>2. QED BY <3>5, <4>1 DEF OfferedAt
    <3>8. ASSUME NEW k \in 0 .. j PROVE h[k] = OfferedAt(h, ps, k)
      <4>1. CASE k = j
        BY <3>6, <3>7, <4>1
      <4>2. CASE k # j
        <5>1. k \in 0 .. j - 1
          BY <2>4, <4>2
        <5>2. QED BY <3>4, <3>5, <3>7, <5>1
      <4>3. QED BY <4>1, <4>2
    <3>9. Upto(h, j)
      BY <3>6, <3>8
    <3>10. QED BY <2>4, <3>9
  <2>7. QED BY <2>5, <2>6
<1>2. \E f : Upto(f, Len(ps))
  BY <1>1
<1>3. QED BY <1>2 DEF IsOffered

\* A value added is there, and so is what was there.
LEMMA RdAdd ==
    ASSUME NEW N \in NeedleLists, NEW v \in Seq(RdBytes)
    PROVE  /\ Add(N, v) \in NeedleLists
           /\ v # <<>> => \E j \in 1 .. Len(Add(N, v)) : Add(N, v)[j] = v
           /\ \A w : (\E j \in 1 .. Len(N) : N[j] = w) => \E j \in 1 .. Len(Add(N, v)) : Add(N, v)[j] = w
<1>0. Len(N) \in Nat /\ DOMAIN N = 1 .. Len(N)
  BY RdLists
<1>1. CASE v = <<>> \/ \E k \in DOMAIN N : N[k] = v
  <2>1. Add(N, v) = N
    BY <1>1 DEF Add
  <2>2. QED BY <1>0, <1>1, <2>1
<1>2. CASE ~(v = <<>> \/ \E k \in DOMAIN N : N[k] = v)
  <2> DEFINE A == Append(N, v)
  <2>1. Add(N, v) = A
    BY <1>2 DEF Add
  <2>2. v \in Needle
    BY <1>2, LenProperties, EmptySeq DEF Needle
  <2>3. /\ A \in NeedleLists /\ Len(A) = Len(N) + 1 /\ A[Len(N) + 1] = v
        /\ \A j \in 1 .. Len(N) : A[j] = N[j]
    BY <2>2, AppendProperties DEF NeedleLists
  <2> HIDE DEF A
  <2>4. Len(N) + 1 \in 1 .. Len(A) /\ \A j \in 1 .. Len(N) : j \in 1 .. Len(A)
    BY <1>0, <2>3
  <2>5. QED BY <2>1, <2>3, <2>4
<1>3. QED BY <1>1, <1>2

\* from_injection makes a list of needles of every value that is not empty.
LEMMA RdFromInjection ==
    ASSUME NEW ps \in RdInjections
    PROVE  /\ FromInjection(ps) \in NeedleLists
           /\ FromInjection(ps) = <<>> \/ Hold(FromInjection(ps)) # 0
<1> DEFINE f == CHOOSE g : IsOffered(g, ps)
           Has(k) == /\ f[k] \in NeedleLists
                     /\ \A i \in 1 .. k : ps[i] # <<>> => \E j \in 1 .. Len(f[k]) : f[k][j] = ps[i]
           Bad == {k \in Nat : k <= Len(ps) /\ ~Has(k)}
<1>0. ps \in Seq(Seq(RdBytes)) /\ (ps # <<>> => \E i \in DOMAIN ps : Len(ps[i]) > 1)
  BY RdAssumption
<1>1. Len(ps) \in Nat /\ DOMAIN ps = 1 .. Len(ps) /\ \A i \in 1 .. Len(ps) : ps[i] \in Seq(RdBytes)
  BY <1>0, LenProperties, ElementOfSeq
<1>2. IsOffered(f, ps) /\ FromInjection(ps) = f[Len(ps)]
  BY <1>1, RdOfferedExists, RdOfferedChosen
<1> HIDE DEF f
<1>3. \A k \in 0 .. Len(ps) : f[k] = OfferedAt(f, ps, k)
  BY <1>2 DEF IsOffered
<1>4. <<>> \in NeedleLists /\ f[0] = <<>>
  BY <1>1, <1>3 DEF OfferedAt, NeedleLists
<1>5. ASSUME Bad # {} PROVE FALSE
  <2>1. Bad \in SUBSET Nat
    OBVIOUS
  <2> HIDE DEF Bad
  <2>2. PICK k \in Bad : \A j \in Bad : k <= j
    BY <1>5, <2>1, RdLeast
  <2>3. k \in Nat /\ k <= Len(ps) /\ ~Has(k)
    BY <2>2 DEF Bad
  <2>4. k # 0
    BY <1>4, <2>3
  <2>5. k - 1 \in Nat /\ k - 1 < k /\ k - 1 <= Len(ps) /\ k \in 0 .. Len(ps) /\ k \in 1 .. Len(ps)
    BY <1>1, <2>3, <2>4
  <2>6. k - 1 \notin Bad
    BY <2>1, <2>2, <2>3, <2>5
  <2>7. Has(k - 1)
    BY <2>5, <2>6 DEF Bad
  <2>8. f[k] = Add(f[k - 1], ps[k]) /\ ps[k] \in Seq(RdBytes)
    BY <1>1, <1>3, <2>4, <2>5 DEF OfferedAt
  <2> DEFINE M == f[k - 1]
             v == ps[k]
  <2>9. /\ Add(M, v) \in NeedleLists
        /\ v # <<>> => \E j \in 1 .. Len(Add(M, v)) : Add(M, v)[j] = v
        /\ \A w : (\E j \in 1 .. Len(M) : M[j] = w) => \E j \in 1 .. Len(Add(M, v)) : Add(M, v)[j] = w
    <3> HIDE DEF M, v
    <3>1. M \in NeedleLists /\ v \in Seq(RdBytes)
      BY <2>7, <2>8 DEF M, v
    <3>2. QED BY <3>1, RdAdd
  <2>10. ASSUME NEW i \in 1 .. k, ps[i] # <<>> PROVE \E j \in 1 .. Len(f[k]) : f[k][j] = ps[i]
    <3>1. CASE i = k
      BY <2>8, <2>9, <2>10, <3>1
    <3>2. CASE i # k
      <4>1. i \in 1 .. k - 1
        BY <2>5, <3>2
      <4>2. \E j \in 1 .. Len(M) : M[j] = ps[i]
        BY <2>7, <2>10, <4>1
      <4> HIDE DEF M, v
      <4>3. \E j \in 1 .. Len(Add(M, v)) : Add(M, v)[j] = ps[i]
        BY <2>9, <4>2
      <4>4. QED BY <2>8, <4>3 DEF M, v
    <3>3. QED BY <3>1, <3>2
  <2>11. Has(k)
    BY <2>8, <2>9, <2>10
  <2>12. QED BY <2>3, <2>11
<1>6. Has(Len(ps))
  <2>1. Len(ps) \notin Bad
    <3> HIDE DEF Bad
    <3>1. QED BY <1>5
  <2> HIDE DEF Has
  <2>2. QED BY <1>1, <2>1
<1> DEFINE N == f[Len(ps)]
<1>7. N \in NeedleLists /\ \A i \in 1 .. Len(ps) : ps[i] # <<>> => \E j \in 1 .. Len(N) : N[j] = ps[i]
  BY <1>6
<1>8. CASE ps = <<>>
  BY <1>2, <1>4, <1>7, <1>8
<1>9. CASE ps # <<>>
  <2>1. PICK i \in 1 .. Len(ps) : Len(ps[i]) > 1
    BY <1>0, <1>1, <1>9
  <2>2. ps[i] # <<>>
    BY <2>1
  <2> HIDE DEF N
  <2>3. PICK j \in 1 .. Len(N) : N[j] = ps[i]
    BY <1>7, <2>1, <2>2
  <2>4. Len(N[j]) <= Hold(N) + 1 /\ Hold(N) \in Nat
    BY <1>7, <2>3, RdMax
  <2>5. N[j] \in Needle
    BY <1>7, <2>3, RdLists
  <2>6. Len(N[j]) \in Nat
    BY <2>5, RdTexts
  <2>7. Hold(N) # 0
    BY <2>1, <2>3, <2>4, <2>6
  <2>8. QED BY <1>2, <1>7, <2>7 DEF N
<1>10. QED BY <1>8, <1>9

\* contains_in_bytes says whether a needle stands somewhere.
LEMMA RdContains ==
    ASSUME NEW w \in Seq(Sym), NEW N \in NeedleLists
    PROVE  Contains(w, N) <=> \E k \in 1 .. Len(N) : \E i \in 1 .. Len(w) : Occurs(w, i, N[k])
<1>1. DOMAIN w = 1 .. Len(w) /\ DOMAIN N = 1 .. Len(N) /\ \A i \in 1 .. Len(w) : i \in Nat \ {0}
  BY LenProperties, RdLists
<1>2. \A k \in 1 .. Len(N) : N[k] \in Seq(Sym)
  BY RdLists, RdTexts
<1>3. \A k \in 1 .. Len(N) : \A i \in 1 .. Len(w) : StartsAt(w, i, N[k]) <=> Occurs(w, i, N[k])
  BY <1>1, <1>2, RdStarts
<1>4. QED BY <1>1, <1>3 DEF Contains

\* No needle in the whole, none in its front.
LEMMA RdCleanFront ==
    ASSUME NEW w \in Seq(Sym), NEW u \in Seq(Sym), NEW N \in NeedleLists, FreeAll(w \o u, N, Len(w))
    PROVE  ~Contains(w, N)
<1>1. ASSUME NEW k \in 1 .. Len(N), NEW i \in 1 .. Len(w), Occurs(w, i, N[k]) PROVE FALSE
  <2>1. N[k] \in Needle /\ i \in Nat \ {0} /\ i + (Len(N[k]) - 1) <= Len(w)
    BY <1>1, RdLists DEF Occurs
  <2>2. Occurs(w \o u, i, N[k])
    BY <1>1, <2>1, RdBefore
  <2>3. QED BY <2>2 DEF FreeAll, Free
<1>2. QED BY <1>1, RdContains

\* The bytes of b after the i-th, up to the j-th.
Part(b, i, j) == SubSeq(b, i + 1, j)

\* A part, element by element.
LEMMA RdPart ==
    ASSUME NEW b \in Seq(Sym), NEW i \in Nat, NEW j \in Nat, i <= j, j <= Len(b)
    PROVE  /\ Part(b, i, j) \in Seq(Sym) /\ Len(Part(b, i, j)) = j - i
           /\ \A d \in 1 .. j - i : Part(b, i, j)[d] = b[i + d]
<1>1. Len(b) \in Nat /\ \A d \in 1 .. Len(b) : b[d] \in Sym
  BY LenProperties, ElementOfSeq
<1>2. \A d \in i + 1 .. j : b[d] \in Sym
  BY <1>1
<1>3. i + 1 \in Int /\ j \in Int
  OBVIOUS
<1> DEFINE a == i + 1
<1> HIDE DEF a
<1>4. /\ SubSeq(b, a, j) \in Seq(Sym)
      /\ Len(SubSeq(b, a, j)) = IF a <= j THEN j - a + 1 ELSE 0
      /\ \A d \in 1 .. j - a + 1 : SubSeq(b, a, j)[d] = b[a + d - 1]
  BY <1>2, <1>3, SubSeqProperties DEF a
<1>5. Len(SubSeq(b, a, j)) = j - i
  BY <1>4 DEF a
<1>6. ASSUME NEW d \in 1 .. j - i PROVE SubSeq(b, a, j)[d] = b[i + d]
  <2>1. d \in 1 .. j - a + 1 /\ a + d - 1 = i + d
    BY DEF a
  <2>2. QED BY <1>4, <2>1
<1>7. QED BY <1>4, <1>5, <1>6 DEF Part, a

\* What two neighbouring parts make.
LEMMA RdParts ==
    ASSUME NEW b \in Seq(Sym), NEW i \in Nat, NEW j \in Nat, NEW k \in Nat,
           i <= j, j <= k, k <= Len(b)
    PROVE  Part(b, i, j) \o Part(b, j, k) = Part(b, i, k)
<1> DEFINE p == Part(b, i, j)
           q == Part(b, j, k)
           r == Part(b, i, k)
           w == p \o q
<1>0. Len(b) \in Nat /\ j <= Len(b) /\ i <= k
  BY LenProperties
<1>1. p \in Seq(Sym) /\ Len(p) = j - i /\ \A d \in 1 .. j - i : p[d] = b[i + d]
  BY <1>0, RdPart
<1>2. q \in Seq(Sym) /\ Len(q) = k - j /\ \A d \in 1 .. k - j : q[d] = b[j + d]
  BY <1>0, RdPart
<1>3. r \in Seq(Sym) /\ Len(r) = k - i /\ \A d \in 1 .. k - i : r[d] = b[i + d]
  BY <1>0, RdPart
<1> HIDE DEF p, q, r
<1>4. /\ w \in Seq(Sym) /\ Len(w) = Len(p) + Len(q)
      /\ \A d \in 1 .. Len(p) + Len(q) : w[d] = IF d <= Len(p) THEN p[d] ELSE q[d - Len(p)]
  BY <1>1, <1>2, ConcatProperties
<1> HIDE DEF w
<1>5. Len(w) = Len(r)
  BY <1>1, <1>2, <1>3, <1>4
<1>6. ASSUME NEW d \in 1 .. Len(w) PROVE w[d] = r[d]
  <2>1. d \in 1 .. k - i
    BY <1>3, <1>5
  <2>2. CASE d <= j - i
    <3>1. d \in 1 .. j - i /\ d <= Len(p)
      BY <1>1, <2>1, <2>2
    <3>2. w[d] = p[d]
      BY <1>4, <3>1
    <3>3. QED BY <1>1, <1>3, <2>1, <3>1, <3>2
  <2>3. CASE ~(d <= j - i)
    <3>1. d - (j - i) \in 1 .. k - j /\ j + (d - (j - i)) = i + d
      BY <2>1, <2>3
    <3>2. w[d] = q[d - (j - i)]
      BY <1>1, <1>4, <2>3
    <3>3. QED BY <1>2, <1>3, <2>1, <3>1, <3>2
  <2>4. QED BY <2>2, <2>3
<1>7. w = r
  BY <1>3, <1>4, <1>5, <1>6, SeqEqual
<1>8. QED BY <1>7 DEF w, p, q, r

\* The whole is a part, and so is nothing.
LEMMA RdWhole ==
    ASSUME NEW b \in Seq(Sym)
    PROVE  /\ Part(b, 0, Len(b)) = b
           /\ \A i \in 0 .. Len(b) : Part(b, i, i) = <<>>
<1>0. Len(b) \in Nat
  BY LenProperties
<1>1. 0 + 1 = 1
  OBVIOUS
<1>2. Part(b, 0, Len(b)) = b
  BY <1>1, RdSufAll DEF Part, Suf
<1>3. ASSUME NEW i \in 0 .. Len(b) PROVE Part(b, i, i) = <<>>
  <2>1. Part(b, i, i) \in Seq(Sym) /\ Len(Part(b, i, i)) = i - i
    BY <1>0, RdPart
  <2>2. Len(Part(b, i, i)) = 0
    BY <1>0, <2>1
  <2>3. QED BY <2>1, <2>2, EmptySeq
<1>4. QED BY <1>2, <1>3

\* The front of a part that begins with the text is a part of it too.
LEMMA RdPrefix ==
    ASSUME NEW b \in Seq(Sym), NEW k \in Nat, k <= Len(b), NEW x \in Seq(Sym), NEW y \in Seq(Sym),
           x \o y = Part(b, 0, k)
    PROVE  Len(x) + Len(y) = k /\ x = Part(b, 0, Len(x))
<1> DEFINE w == x \o y
           p == Part(b, 0, k)
           q == Part(b, 0, Len(x))
<1>0. Len(b) \in Nat /\ Len(x) \in Nat /\ Len(y) \in Nat
  BY LenProperties
<1>z. ASSUME NEW j \in Nat, j <= Len(b)
      PROVE  /\ Part(b, 0, j) \in Seq(Sym) /\ Len(Part(b, 0, j)) = j
             /\ \A e \in 1 .. j : Part(b, 0, j)[e] = b[e]
  <2>1. 0 \in Nat /\ 0 <= j /\ j - 0 = j /\ \A e \in 1 .. j : 0 + e = e
    OBVIOUS
  <2>2. /\ Part(b, 0, j) \in Seq(Sym) /\ Len(Part(b, 0, j)) = j - 0
        /\ \A e \in 1 .. j - 0 : Part(b, 0, j)[e] = b[0 + e]
    BY <1>z, <2>1, RdPart
  <2>3. QED BY <2>1, <2>2
<1>1. p \in Seq(Sym) /\ Len(p) = k /\ \A d \in 1 .. k : p[d] = b[d]
  BY <1>z
<1>2. /\ Len(w) = Len(x) + Len(y)
      /\ \A d \in 1 .. Len(x) + Len(y) : w[d] = IF d <= Len(x) THEN x[d] ELSE y[d - Len(x)]
  BY ConcatProperties
<1>3. w = p
  OBVIOUS
<1> HIDE DEF w, p
<1>4. Len(x) + Len(y) = k /\ Len(x) <= k
  <2>1. Len(w) = Len(p) /\ Len(p) = k /\ Len(w) = Len(x) + Len(y)
    BY <1>1, <1>2, <1>3
  <2>2. Len(x) + Len(y) = k
    BY <2>1
  <2>3. Len(x) <= Len(x) + Len(y)
    BY <1>0
  <2>4. QED BY <2>2, <2>3
<1>5. q \in Seq(Sym) /\ Len(q) = Len(x) /\ \A d \in 1 .. Len(x) : q[d] = b[d]
  BY <1>0, <1>4, <1>z
<1> HIDE DEF q
<1>6. Len(q) = Len(x)
  BY <1>0, <1>5
<1>7. ASSUME NEW d \in 1 .. Len(x) PROVE x[d] = q[d]
  <2>1. d \in 1 .. Len(x) + Len(y) /\ d <= Len(x) /\ d \in 1 .. k /\ d \in 1 .. Len(x)
    BY <1>0, <1>4
  <2>2. w[d] = x[d]
    BY <1>2, <2>1
  <2>3. QED BY <1>1, <1>3, <1>5, <2>1, <2>2
<1>8. x = q
  BY <1>5, <1>6, <1>7, SeqEqual
<1>9. QED BY <1>4, <1>8 DEF q

\* Of a text: no needle begins in what was relayed, wherever it would end, and what was
\* relayed and what becomes of the rest are what becomes of the whole.
TextInv(out, u, body, N) ==
    /\ FreeAll(out \o u, N, Len(out))
    /\ Independent(N) => ApplyToBytes(body, N) = out \o ApplyToBytes(u, N)

\* A chunk keeps that so.
LEMMA RdTextChunk ==
    ASSUME NEW N \in NeedleLists, N = <<>> \/ Hold(N) # 0, NEW body, NEW out \in Seq(Sym),
           NEW s \in Seq(Sym), NEW z \in Seq(Sym), TextInv(out, s \o z, body, N)
    PROVE  LET p == SplitRedacted(s, N)
           IN  /\ p.emit \in Seq(Sym) /\ p.held \in Seq(Sym) /\ out \o p.emit \in Seq(Sym)
               /\ TextInv(out \o p.emit, p.held \o z, body, N)
<1>1. PICK e \in Seq(Sym), h \in Seq(Sym) :
        /\ SplitRedacted(s, N) = [emit |-> e, held |-> h]
        /\ \A y \in Seq(Sym) : Decided(e, h, s, y, N)
  BY RdSplit
<1> DEFINE u == h \o z
           o == out \o e
<1>2. Decided(e, h, s, z, N)
  BY <1>1
<1>3. o \in Seq(Sym) /\ u \in Seq(Sym)
  BY <1>1, ConcatProperties
<1>4. FreeAll(o \o u, N, Len(o))
  BY <1>2 DEF Decided, TextInv
<1>5. ASSUME Independent(N) PROVE ApplyToBytes(body, N) = o \o ApplyToBytes(u, N)
  <2>1. ApplyToBytes(body, N) = out \o (e \o ApplyToBytes(u, N))
    BY <1>2, <1>5 DEF Decided, TextInv
  <2>2. Joins(out, e, ApplyToBytes(u, N))
    <3> HIDE DEF u
    <3>1. ApplyToBytes(u, N) \in Seq(Sym)
      BY <1>3, RdAfterText
    <3>2. QED BY <1>1, <3>1, RdJoins
  <2>3. QED BY <2>1, <2>2 DEF Joins
<1>6. TextInv(o, u, body, N)
  BY <1>4, <1>5 DEF TextInv
<1>7. SplitRedacted(s, N).emit = e /\ SplitRedacted(s, N).held = h
  BY <1>1
<1>8. QED BY <1>1, <1>3, <1>6, <1>7

\* What was relayed of it is clean, and so it is with the tail.
LEMMA RdTextClean ==
    ASSUME NEW N \in NeedleLists, NEW body, NEW out \in Seq(Sym), NEW u \in Seq(Sym),
           TextInv(out, u, body, N)
    PROVE  /\ ~Contains(out, N)
           /\ out \o ApplyToBytes(u, N) \in Seq(Sym)
           /\ ~Contains(out \o ApplyToBytes(u, N), N)
           /\ Independent(N) => out \o ApplyToBytes(u, N) = ApplyToBytes(body, N)
<1> DEFINE a == ApplyToBytes(u, N)
           w == out \o a
<1>1. FreeAll(out \o u, N, Len(out))
  BY DEF TextInv
<1>2. ~Contains(out, N)
  BY <1>1, RdCleanFront
<1>3. Len(N) \in 0 .. Len(N) /\ a = After(u, N, Len(N))
  <2>1. Len(N) \in Nat
    BY RdLists
  <2>2. QED BY <2>1, RdAfter
<1>4. AfterSound(u, N, Len(N))
  BY <1>3, RdAfterSound
<1> HIDE DEF a
<1>5. a \in Seq(Sym) /\ \A j \in 1 .. Len(N) : Never(w, N[j])
  BY <1>1, <1>3, <1>4 DEF AfterSound
<1>6. w \in Seq(Sym)
  BY <1>5, ConcatProperties
<1> HIDE DEF w
<1>7. ~Contains(w, N)
  BY <1>5, <1>6, RdContains DEF Never, Free
<1>8. QED BY <1>2, <1>6, <1>7 DEF TextInv, w, a

\* Of a binary body: what was relayed and what is held back are what was read, no needle
\* is in it, and enough is held back for one that ends later.
BinInv(out, carry, read, body, N) ==
    /\ out \o carry = Part(body, 0, read)
    /\ FreeAll(Part(body, 0, read), N, read)
    /\ Len(carry) >= Hold(N) \/ out = <<>>

\* A needle in a part is one in the whole.
LEMMA RdPartContains ==
    ASSUME NEW N \in NeedleLists, NEW body \in Seq(Sym), NEW k \in Nat, k <= Len(body),
           NEW x \in Seq(Sym), NEW y \in Seq(Sym), x \o y = Part(body, 0, k), Contains(y, N)
    PROVE  Contains(body, N)
<1> DEFINE z == Part(body, k, Len(body))
           w == x \o y
<1>0. Len(x) \in Nat /\ Len(y) \in Nat /\ Len(body) \in Nat
  BY LenProperties
<1>1. PICK q \in 1 .. Len(N), i \in 1 .. Len(y) : Occurs(y, i, N[q])
  BY RdContains
<1>2. N[q] \in Needle /\ i \in Nat \ {0}
  BY RdLists
<1>3. Occurs(w, Len(x) + i, N[q])
  BY <1>1, <1>2, RdBehind
<1>4. z \in Seq(Sym)
  BY <1>0, RdPart
<1>5. w \o z = body
  <2>1. 0 \in Nat /\ 0 <= k /\ Len(body) <= Len(body)
    BY <1>0
  <2>2. Part(body, 0, k) \o Part(body, k, Len(body)) = Part(body, 0, Len(body))
    BY <1>0, <2>1, RdParts
  <2>3. QED BY <2>2, RdWhole
<1>6. w \in Seq(Sym) /\ Len(x) + i \in Nat \ {0}
  <2>1. w \in Seq(Sym)
    BY ConcatProperties
  <2>2. Len(x) + i \in Nat \ {0}
    BY <1>0, <1>2
  <2>3. QED BY <2>1, <2>2
<1>7. (Len(x) + i) + (Len(N[q]) - 1) <= Len(w)
  BY <1>3 DEF Occurs
<1> HIDE DEF w, z
<1>8. Occurs(w \o z, Len(x) + i, N[q])
  BY <1>2, <1>3, <1>4, <1>6, <1>7, RdBefore
<1>9. Occurs(body, Len(x) + i, N[q])
  BY <1>5, <1>8
<1>10. Len(x) + i \in 1 .. Len(body)
  <2>1. Len(N[q]) \in Nat /\ Len(N[q]) >= 1
    BY <1>2, RdTexts
  <2>2. (Len(x) + i) + (Len(N[q]) - 1) <= Len(body)
    BY <1>9 DEF Occurs
  <2> DEFINE j == Len(x) + i
             l == Len(N[q])
  <2>3. j \in Nat \ {0} /\ l \in Nat /\ l >= 1 /\ j + (l - 1) <= Len(body)
    BY <1>6, <2>1, <2>2
  <2> HIDE DEF j, l
  <2>4. j \in 1 .. Len(body)
    BY <1>0, <2>3
  <2>5. QED BY <2>4 DEF j
<1>11. QED BY <1>1, <1>9, <1>10, RdContains

\* Of what was relayed before a tail that is held back, nothing is a needle.
LEMMA RdBinClean ==
    ASSUME NEW N \in NeedleLists, NEW body \in Seq(Sym), NEW read \in Nat, read <= Len(body),
           NEW out \in Seq(Sym), NEW carry \in Seq(Sym), BinInv(out, carry, read, body, N)
    PROVE  /\ ~Contains(out, N) /\ Len(out) + Len(carry) = read
           /\ out = Part(body, 0, Len(out))
<1>0. Len(out) \in Nat /\ Len(carry) \in Nat /\ Len(body) \in Nat
  BY LenProperties
<1>1. out \o carry = Part(body, 0, read) /\ FreeAll(Part(body, 0, read), N, read)
  BY DEF BinInv
<1>2. Len(out) + Len(carry) = read /\ out = Part(body, 0, Len(out))
  BY <1>1, RdPrefix
<1>3. ASSUME NEW k \in 1 .. Len(N), NEW i \in 1 .. Len(out), Occurs(out \o carry, i, N[k]) PROVE FALSE
  <2>1. i \in 1 .. read
    <3>1. Len(out) <= Len(out) + Len(carry)
      BY <1>0
    <3>2. Len(out) <= read
      BY <1>2, <3>1
    <3>3. QED BY <1>0, <3>2
  <2>2. Free(out \o carry, N[k], read)
    BY <1>1 DEF FreeAll
  <2>3. QED BY <1>3, <2>1, <2>2 DEF Free
<1>4. FreeAll(out \o carry, N, Len(out))
  BY <1>3 DEF FreeAll, Free
<1>5. ~Contains(out, N)
  BY <1>4, RdCleanFront
<1>6. QED BY <1>2, <1>5

\* A needle that ends in the bytes just read stands in the buffer.
LEMMA RdBinFree ==
    ASSUME NEW N \in NeedleLists, NEW body \in Seq(Sym), NEW read \in Nat, NEW j \in Nat,
           read < j, j <= Len(body),
           NEW out \in Seq(Sym), NEW carry \in Seq(Sym), BinInv(out, carry, read, body, N),
           ~Contains(carry \o Part(body, read, j), N)
    PROVE  FreeAll(Part(body, 0, j), N, j)
<1> DEFINE p == Part(body, 0, read)
           c == Part(body, read, j)
           s == carry \o c
           w == Part(body, 0, j)
<1>0. /\ Len(out) \in Nat /\ Len(carry) \in Nat /\ Len(body) \in Nat /\ read <= j /\ read <= Len(body)
      /\ 0 \in Nat /\ 0 <= read /\ 0 <= j
  BY LenProperties
<1>1. out \o carry = p /\ FreeAll(p, N, read) /\ (Len(carry) >= Hold(N) \/ out = <<>>)
  BY DEF BinInv
<1>2. p \in Seq(Sym) /\ Len(p) = read
  <2>1. p \in Seq(Sym) /\ Len(p) = read - 0
    BY <1>0, RdPart
  <2>2. QED BY <2>1
<1>3. c \in Seq(Sym)
  BY <1>0, RdPart
<1>4. w = p \o c
  BY <1>0, RdParts
<1>5. Len(out) + Len(carry) = read
  BY <1>0, <1>1, RdBinClean
<1> HIDE DEF p, c
<1>6. s \in Seq(Sym) /\ w = out \o s
  <2>1. Joins(out, carry, c)
    BY <1>3, RdJoins
  <2>2. s \in Seq(Sym)
    BY <1>3, ConcatProperties
  <2>3. QED BY <1>1, <1>4, <2>1, <2>2 DEF Joins
<1>7. ~Contains(s, N)
  BY DEF c
<1> HIDE DEF s, w
<1>8. ASSUME NEW k \in 1 .. Len(N), NEW i \in 1 .. j, Occurs(w, i, N[k]) PROVE FALSE
  <2> DEFINE m == N[k]
             l == Len(m)
  <2>1. m \in Needle /\ l <= Hold(N) + 1 /\ Hold(N) \in Nat /\ i \in Nat \ {0}
    BY RdLists, RdMax
  <2>2. l \in Nat /\ l >= 1
    BY <2>1, RdTexts
  <2>3. CASE i + (l - 1) <= read
    <3>1. Occurs(p, i, m)
      <4> HIDE DEF m
      <4>1. i + (Len(m) - 1) <= Len(p)
        BY <1>2, <2>3
      <4>2. Occurs(p \o c, i, m)
        BY <1>4, <1>8 DEF m
      <4>3. QED BY <1>2, <1>3, <2>1, <4>1, <4>2, RdBefore
    <3>2. i \in 1 .. read
      <4> HIDE DEF l
      <4>1. QED BY <2>2, <2>3
    <3>3. QED BY <1>1, <3>1, <3>2 DEF FreeAll, Free
  <2>4. CASE ~(i + (l - 1) <= read)
    <3>1. i > Len(out)
      <4>1. CASE out = <<>>
        <5>1. Len(out) = 0
          BY <4>1
        <5>2. QED BY <5>1
      <4>2. CASE Len(carry) >= Hold(N)
        <5> HIDE DEF l
        <5>1. read >= Len(out) + Hold(N)
          BY <1>0, <1>5, <2>1, <4>2
        <5>2. QED BY <1>0, <2>1, <2>2, <2>4, <5>1
      <4>3. QED BY <1>1, <4>1, <4>2
    <3> DEFINE d == i - Len(out)
    <3>2. d \in Nat \ {0} /\ Len(out) + d = i
      BY <1>0, <3>1
    <3> HIDE DEF d, m, l
    <3>3. Occurs(out \o s, Len(out) + d, m)
      BY <1>6, <1>8, <3>2 DEF m
    <3>4. Occurs(s, d, m)
      BY <1>6, <2>1, <3>2, <3>3, RdBehind
    <3>5. d \in 1 .. Len(s)
      <4>1. d + (l - 1) <= Len(s) /\ Len(s) \in Nat
        BY <1>6, <3>4, LenProperties DEF Occurs, l
      <4>2. QED BY <2>2, <3>2, <4>1
    <3>6. Contains(s, N)
      BY <1>6, <3>4, <3>5, RdContains DEF m
    <3>7. QED BY <1>7, <3>6
  <2>5. QED BY <2>3, <2>4
<1>9. QED BY <1>8 DEF FreeAll, Free, w

\* The parts split_verified_binary makes.
LEMMA RdSplitBinary ==
    ASSUME NEW s \in Seq(Sym), NEW N \in NeedleLists
    PROVE  LET p == SplitBinary(s, N)
           IN  /\ p.emit \in Seq(Sym) /\ p.held \in Seq(Sym) /\ p.emit \o p.held = s
               /\ Len(p.held) >= Hold(N) \/ (p.emit = <<>> /\ Len(p.held) = Len(s) /\ Len(s) <= Hold(N))
<1> DEFINE t == IF Len(s) > Hold(N) THEN Len(s) - Hold(N) ELSE 0
           e == Part(s, 0, t)
           h == Part(s, t, Len(s))
<1>0. Len(s) \in Nat /\ Hold(N) \in Nat
  BY LenProperties, RdMax
<1>1. t \in Nat /\ t <= Len(s) /\ 0 <= t /\ 0 \in Nat /\ Len(s) <= Len(s)
  BY <1>0
<1>2. SplitBinary(s, N).emit = e /\ SplitBinary(s, N).held = h
  <2>1. 0 + 1 = 1
    OBVIOUS
  <2>2. QED BY <2>1 DEF SplitBinary, Part
<1>t. t = IF Len(s) > Hold(N) THEN Len(s) - Hold(N) ELSE 0
  OBVIOUS
<1> HIDE DEF t
<1>3. e \in Seq(Sym)
  BY <1>1, RdPart
<1>4. h \in Seq(Sym) /\ Len(h) = Len(s) - t
  BY <1>0, <1>1, RdPart
<1>5. e \o h = s
  <2>1. e \o h = Part(s, 0, Len(s))
    BY <1>0, <1>1, RdParts
  <2>2. QED BY <2>1, RdWhole
<1>6. t = 0 => e = <<>>
  BY <1>0, <1>1, RdWhole
<1> HIDE DEF e, h
<1>7. Len(h) >= Hold(N) \/ (t = 0 /\ Len(h) = Len(s) /\ Len(s) <= Hold(N))
  BY <1>0, <1>t, <1>4
<1>8. QED BY <1>2, <1>3, <1>4, <1>5, <1>6, <1>7

\* A chunk of a binary body keeps it so.
LEMMA RdBinChunk ==
    ASSUME NEW N \in NeedleLists, NEW body \in Seq(Sym), NEW read \in Nat, NEW j \in Nat,
           read < j, j <= Len(body),
           NEW out \in Seq(Sym), NEW carry \in Seq(Sym), BinInv(out, carry, read, body, N),
           ~Contains(carry \o Part(body, read, j), N)
    PROVE  LET p == SplitBinary(carry \o Part(body, read, j), N)
           IN  /\ p.emit \in Seq(Sym) /\ p.held \in Seq(Sym) /\ out \o p.emit \in Seq(Sym)
               /\ BinInv(out \o p.emit, p.held, j, body, N)
<1> DEFINE c == Part(body, read, j)
           s == carry \o c
           e == SplitBinary(s, N).emit
           h == SplitBinary(s, N).held
<1>0. /\ Len(carry) \in Nat /\ Len(body) \in Nat /\ Hold(N) \in Nat /\ read <= j /\ read <= Len(body)
      /\ 0 \in Nat /\ 0 <= read
  BY LenProperties, RdMax
<1>1. c \in Seq(Sym) /\ Len(c) = j - read
  BY <1>0, RdPart
<1>2. FreeAll(Part(body, 0, j), N, j)
  <2>1. BinInv(out, carry, read, body, N) /\ ~Contains(carry \o Part(body, read, j), N)
    OBVIOUS
  <2>2. read < j /\ j <= Len(body)
    OBVIOUS
  <2>3. QED BY <2>1, <2>2, RdBinFree
<1>3. out \o carry = Part(body, 0, read) /\ (Len(carry) >= Hold(N) \/ out = <<>>)
  BY DEF BinInv
<1>4. Part(body, 0, read) \o c = Part(body, 0, j)
  BY <1>0, RdParts
<1> HIDE DEF c
<1>5. s \in Seq(Sym) /\ Len(s) = Len(carry) + Len(c)
  <2>1. ASSUME NEW u \in Seq(Sym), NEW t \in Seq(Sym)
        PROVE  u \o t \in Seq(Sym) /\ Len(u \o t) = Len(u) + Len(t)
    BY ConcatProperties
  <2>2. QED BY <1>1, <2>1
<1>6. out \o s = Part(body, 0, j)
  <2>1. Joins(out, carry, c)
    BY <1>1, RdJoins
  <2>2. QED BY <1>3, <1>4, <2>1 DEF Joins
<1> HIDE DEF s
<1>7. /\ e \in Seq(Sym) /\ h \in Seq(Sym) /\ e \o h = s
      /\ Len(h) >= Hold(N) \/ (e = <<>> /\ Len(h) = Len(s) /\ Len(s) <= Hold(N))
  BY <1>5, RdSplitBinary
<1> HIDE DEF e, h
<1>8. out \o e \in Seq(Sym)
  BY <1>7, ConcatProperties
<1>9. (out \o e) \o h = Part(body, 0, j)
  <2>1. Joins(out, e, h)
    BY <1>7, RdJoins
  <2>2. QED BY <1>6, <1>7, <2>1 DEF Joins
<1>10. Len(h) >= Hold(N) \/ out \o e = <<>>
  <2>1. CASE Len(h) >= Hold(N)
    BY <2>1
  <2>2. CASE e = <<>> /\ Len(s) <= Hold(N)
    <3>1. ~(Len(carry) >= Hold(N))
      BY <1>0, <1>1, <1>5, <2>2
    <3>2. out = <<>>
      BY <1>3, <3>1
    <3>3. <<>> \o <<>> = <<>>
      BY ConcatEmptySeq, EmptySeq
    <3>4. QED BY <2>2, <3>2, <3>3
  <2>3. QED BY <1>7, <2>1, <2>2
<1>11. BinInv(out \o e, h, j, body, N)
  BY <1>2, <1>9, <1>10 DEF BinInv
<1>12. QED BY <1>7, <1>8, <1>11 DEF e, h, s, c

\* What is still to come of the body, after what is held back.
Coming == rdcarry \o Part(rdbody, rdread, Len(rdbody))

RdTypeOK ==
    /\ rdmode \in {"text", "binary"}
    /\ rdneed \in NeedleLists /\ (rdneed = <<>> \/ Hold(rdneed) # 0)
    /\ rdbody \in Seq(Sym) /\ rdread \in 0 .. Len(rdbody)
    /\ rdcarry \in Seq(Sym) /\ rdout \in Seq(Sym)

\* The stream is clean and exact at every step, and what is held back is what is needed
\* to keep it so.
RdIInv ==
    /\ RdTypeOK
    /\ rdend = "none" /\ rdmode = "text" => TextInv(rdout, Coming, rdbody, rdneed)
    /\ rdend = "none" /\ rdmode = "binary" => BinInv(rdout, rdcarry, rdread, rdbody, rdneed)
    /\ RdClean /\ RdExact

\* Of a binary body, what was relayed and what is held back are its beginning.
LEMMA RdBinFront ==
    ASSUME NEW N \in NeedleLists, NEW body \in Seq(Sym), NEW read \in 0 .. Len(body),
           NEW out \in Seq(Sym), NEW carry \in Seq(Sym), BinInv(out, carry, read, body, N)
    PROVE  /\ out \o carry = SubSeq(body, 1, Len(out) + Len(carry))
           /\ out \o <<>> = SubSeq(body, 1, Len(out) + Len(<<>>))
           /\ ~Contains(out, N)
<1>1. Len(body) \in Nat /\ read \in Nat /\ read <= Len(body) /\ Len(out) \in Nat
  BY LenProperties
<1>2. ~Contains(out, N) /\ Len(out) + Len(carry) = read /\ out = Part(body, 0, Len(out))
  BY <1>1, RdBinClean
<1>3. out \o carry = Part(body, 0, read)
  BY DEF BinInv
<1>4. out \o <<>> = out /\ Len(<<>>) = 0 /\ Len(out) + 0 = Len(out)
  BY <1>1, ConcatEmptySeq
<1>5. \A k : Part(body, 0, k) = SubSeq(body, 1, k)
  BY DEF Part
<1>6. QED BY <1>2, <1>3, <1>4, <1>5

\* At the start nothing was read.
LEMMA RdInitial == RdInit => RdIInv
<1> SUFFICES ASSUME RdInit PROVE RdIInv
  OBVIOUS
<1>1. rdbody \in Seq(RdBytes)
  <2>1. PICK n \in 0 .. RdMaxLen : rdbody \in [1 .. n -> RdBytes]
    BY DEF RdInit, Bodies
  <2>2. n \in Nat
    BY <2>1
  <2>3. QED BY <2>1, <2>2, SeqDef
<1>2. rdbody \in Seq(Sym) /\ Len(rdbody) \in Nat /\ <<>> \in Seq(Sym)
  BY <1>1, SeqMonotonic, LenProperties, EmptySeq DEF Sym
<1>3. rdneed \in NeedleLists /\ (rdneed = <<>> \/ Hold(rdneed) # 0)
  BY RdFromInjection DEF RdInit
<1>4. rdread = 0 /\ rdcarry = <<>> /\ rdout = <<>> /\ rdend = "none" /\ rdmode \in {"text", "binary"}
  BY DEF RdInit
<1>5. RdTypeOK
  BY <1>2, <1>3, <1>4 DEF RdTypeOK
<1>6. Part(rdbody, 0, Len(rdbody)) = rdbody /\ Part(rdbody, 0, 0) = <<>> /\ Len(<<>>) = 0
  BY <1>2, RdWhole, EmptySeq
<1>7. <<>> \o rdbody = rdbody /\ <<>> \o <<>> = <<>>
  BY <1>2, ConcatEmptySeq
<1>8. \A w : FreeAll(w, rdneed, 0)
  BY DEF FreeAll, Free
<1>9. ApplyToBytes(rdbody, rdneed) \in Seq(Sym)
  BY <1>2, <1>3, RdAfterText
<1>10. <<>> \o ApplyToBytes(rdbody, rdneed) = ApplyToBytes(rdbody, rdneed)
  BY <1>9, ConcatEmptySeq
<1>11. TextInv(rdout, Coming, rdbody, rdneed)
  <2>1. Coming = rdbody
    BY <1>4, <1>6, <1>7 DEF Coming
  <2>2. QED BY <1>4, <1>6, <1>7, <1>8, <1>10, <2>1 DEF TextInv
<1>12. BinInv(rdout, rdcarry, rdread, rdbody, rdneed)
  BY <1>4, <1>6, <1>7, <1>8 DEF BinInv
<1>b. /\ rdout \o rdcarry = SubSeq(rdbody, 1, Len(rdout) + Len(rdcarry))
      /\ ~Contains(rdout, rdneed)
  BY <1>5, <1>12, RdBinFront DEF RdTypeOK
<1>13. RdClean
  BY <1>b DEF RdClean
<1>14. RdExact
  BY <1>4, <1>b DEF RdExact
<1>15. QED BY <1>5, <1>11, <1>12, <1>13, <1>14 DEF RdIInv

\* A chunk is decided as far as it can be, and refused if a needle is in it.
LEMMA RdChunkKeeps ==
    ASSUME RdIInv, NEW n \in 1 .. RdMaxLen, RdChunk(n)
    PROVE  RdIInv'
<1> DEFINE j == rdread + n
           c == Part(rdbody, rdread, j)
           s == rdcarry \o c
           z == Part(rdbody, j, Len(rdbody))
<1>1. /\ RdTypeOK /\ rdend = "none" /\ n \in 1 .. Len(rdbody) - rdread
      /\ rdmode' = rdmode /\ rdneed' = rdneed /\ rdbody' = rdbody /\ rdread' = j
  BY DEF RdIInv, RdChunk
<1>2. /\ rdneed \in NeedleLists /\ (rdneed = <<>> \/ Hold(rdneed) # 0) /\ rdbody \in Seq(Sym)
      /\ rdcarry \in Seq(Sym) /\ rdout \in Seq(Sym) /\ rdmode \in {"text", "binary"}
  BY <1>1 DEF RdTypeOK
<1>3. /\ Len(rdbody) \in Nat /\ rdread \in Nat /\ j \in Nat /\ rdread < j /\ rdread <= j /\ j <= Len(rdbody)
      /\ Len(rdbody) <= Len(rdbody) /\ 0 \in Nat /\ 0 <= rdread
  <2>1. Len(rdbody) \in Nat /\ rdread \in 0 .. Len(rdbody)
    BY <1>1, LenProperties DEF RdTypeOK
  <2>2. QED BY <1>1, <2>1
<1>4. c \in Seq(Sym) /\ z \in Seq(Sym) /\ s \in Seq(Sym)
  <2>1. c \in Seq(Sym) /\ z \in Seq(Sym)
    BY <1>2, <1>3, RdPart
  <2> HIDE DEF c, z
  <2>2. QED BY <1>2, <2>1, ConcatProperties
<1>5. Part(rdbody, rdread, Len(rdbody)) = c \o z
  BY <1>2, <1>3, RdParts
<1>6. SubSeq(rdbody, rdread + 1, rdread + n) = c
  BY DEF Part
<1>7. /\ rdmode = "text" =>
            /\ rdcarry' = SplitRedacted(s, rdneed).held /\ rdout' = rdout \o SplitRedacted(s, rdneed).emit
            /\ rdend' = "none"
      /\ rdmode = "binary" /\ ~Contains(s, rdneed) =>
            /\ rdcarry' = SplitBinary(s, rdneed).held /\ rdout' = rdout \o SplitBinary(s, rdneed).emit
            /\ rdend' = "none"
      /\ rdmode = "binary" /\ Contains(s, rdneed) =>
            rdcarry' = <<>> /\ rdout' = rdout /\ rdend' = "refused"
  <2> HIDE DEF c
  <2>1. s = rdcarry \o SubSeq(rdbody, rdread + 1, rdread + n)
    BY <1>6
  <2> HIDE DEF s
  <2>2. QED BY <1>1, <2>1 DEF RdChunk
<1>8. CASE rdmode = "text"
  <2>1. TextInv(rdout, s \o z, rdbody, rdneed)
    <3>1. TextInv(rdout, Coming, rdbody, rdneed)
      BY <1>1, <1>8 DEF RdIInv
    <3>2. Coming = rdcarry \o (c \o z)
      BY <1>5 DEF Coming
    <3> HIDE DEF c, z
    <3>3. Joins(rdcarry, c, z)
      BY <1>2, <1>4, RdJoins
    <3>4. QED BY <3>1, <3>2, <3>3 DEF Joins
  <2> DEFINE p == SplitRedacted(s, rdneed)
  <2> HIDE DEF z, s
  <2>2. /\ p.emit \in Seq(Sym) /\ p.held \in Seq(Sym) /\ rdout \o p.emit \in Seq(Sym)
        /\ TextInv(rdout \o p.emit, p.held \o z, rdbody, rdneed)
    BY <1>2, <1>4, <2>1, RdTextChunk
  <2>3. rdcarry' = p.held /\ rdout' = rdout \o p.emit /\ rdend' = "none"
    BY <1>7, <1>8
  <2> HIDE DEF p
  <2>4. RdTypeOK'
    BY <1>1, <1>2, <1>3, <2>2, <2>3 DEF RdTypeOK
  <2>5. Coming' = p.held \o z
    BY <1>1, <2>3 DEF Coming, z
  <2>6. TextInv(rdout', Coming', rdbody', rdneed')
    BY <1>1, <2>2, <2>3, <2>5
  <2>7. p.held \o z \in Seq(Sym)
    BY <1>4, <2>2, ConcatProperties
  <2>8. RdClean'
    BY <1>1, <1>2, <2>2, <2>3, <2>7, RdTextClean DEF RdClean
  <2>9. RdExact'
    BY <1>1, <1>8, <2>3 DEF RdExact
  <2>10. QED BY <1>1, <1>8, <2>4, <2>6, <2>8, <2>9 DEF RdIInv
<1>9. CASE rdmode = "binary" /\ ~Contains(s, rdneed)
  <2> DEFINE p == SplitBinary(s, rdneed)
  <2>1. BinInv(rdout, rdcarry, rdread, rdbody, rdneed)
    BY <1>1, <1>9 DEF RdIInv
  <2>2. /\ p.emit \in Seq(Sym) /\ p.held \in Seq(Sym) /\ rdout \o p.emit \in Seq(Sym)
        /\ BinInv(rdout \o p.emit, p.held, j, rdbody, rdneed)
    BY <1>2, <1>3, <1>9, <2>1, RdBinChunk
  <2> HIDE DEF s
  <2>3. rdcarry' = p.held /\ rdout' = rdout \o p.emit /\ rdend' = "none"
    BY <1>7, <1>9
  <2> HIDE DEF p
  <2>4. RdTypeOK'
    BY <1>1, <1>2, <1>3, <2>2, <2>3 DEF RdTypeOK
  <2>5. BinInv(rdout, rdcarry, rdread, rdbody, rdneed)'
    BY <1>1, <2>2, <2>3
  <2>6. j \in 0 .. Len(rdbody)
    BY <1>3
  <2> HIDE DEF j
  <2>7. /\ (rdout \o p.emit) \o p.held = SubSeq(rdbody, 1, Len(rdout \o p.emit) + Len(p.held))
        /\ ~Contains(rdout \o p.emit, rdneed)
    <3> DEFINE o == rdout \o p.emit
               h == p.held
    <3>1. o \in Seq(Sym) /\ h \in Seq(Sym) /\ BinInv(o, h, j, rdbody, rdneed)
      BY <2>2
    <3> HIDE DEF o, h
    <3>2. o \o h = SubSeq(rdbody, 1, Len(o) + Len(h)) /\ ~Contains(o, rdneed)
      BY <1>2, <2>6, <3>1, RdBinFront
    <3>3. QED BY <3>2 DEF o, h
  <2>8. RdClean' /\ RdExact'
    BY <1>1, <1>9, <2>3, <2>7 DEF RdClean, RdExact
  <2>9. QED BY <1>1, <1>9, <2>4, <2>5, <2>8 DEF RdIInv
<1>10. CASE rdmode = "binary" /\ Contains(s, rdneed)
  <2>1. BinInv(rdout, rdcarry, rdread, rdbody, rdneed)
    BY <1>1, <1>10 DEF RdIInv
  <2>2. Contains(rdbody, rdneed)
    <3>1. rdout \o rdcarry = Part(rdbody, 0, rdread)
      BY <2>1 DEF BinInv
    <3>2. Part(rdbody, 0, rdread) \o c = Part(rdbody, 0, j)
      BY <1>2, <1>3, RdParts
    <3> HIDE DEF c
    <3>3. rdout \o s = Part(rdbody, 0, j)
      <4>1. Joins(rdout, rdcarry, c)
        BY <1>2, <1>4, RdJoins
      <4>2. QED BY <3>1, <3>2, <4>1 DEF Joins
    <3> HIDE DEF s
    <3>4. QED BY <1>2, <1>3, <1>4, <1>10, <3>3, RdPartContains
  <2>3. rdcarry' = <<>> /\ rdout' = rdout /\ rdend' = "refused"
    BY <1>7, <1>10
  <2>4. /\ rdout \o <<>> = SubSeq(rdbody, 1, Len(rdout) + Len(<<>>))
        /\ ~Contains(rdout, rdneed)
    BY <1>1, <2>1, RdBinFront DEF RdTypeOK
  <2>5. RdTypeOK'
    BY <1>1, <1>2, <1>3, <2>3, EmptySeq DEF RdTypeOK
  <2>6. RdClean' /\ RdExact'
    BY <1>1, <1>10, <2>2, <2>3, <2>4 DEF RdClean, RdExact
  <2>7. QED BY <1>1, <2>3, <2>5, <2>6 DEF RdIInv
<1>11. QED BY <1>2, <1>8, <1>9, <1>10

\* At the end a text's tail is scrubbed and a binary body's let through.
LEMMA RdEofKeeps ==
    ASSUME RdIInv, RdEof
    PROVE  RdIInv'
<1>1. /\ RdTypeOK /\ rdend = "none" /\ rdread = Len(rdbody)
      /\ rdmode' = rdmode /\ rdneed' = rdneed /\ rdbody' = rdbody /\ rdread' = rdread /\ rdcarry' = <<>>
  BY DEF RdIInv, RdEof
<1>2. /\ rdneed \in NeedleLists /\ (rdneed = <<>> \/ Hold(rdneed) # 0) /\ rdbody \in Seq(Sym)
      /\ rdcarry \in Seq(Sym) /\ rdout \in Seq(Sym) /\ rdmode \in {"text", "binary"}
      /\ rdread \in 0 .. Len(rdbody) /\ Len(rdbody) \in Nat /\ <<>> \in Seq(Sym)
  BY <1>1, LenProperties, EmptySeq DEF RdTypeOK
<1>3. CASE rdmode = "text"
  <2> DEFINE o == rdout \o ApplyToBytes(rdcarry, rdneed)
  <2>1. rdout' = o /\ rdend' = "complete"
    BY <1>3 DEF RdEof
  <2>2. TextInv(rdout, rdcarry, rdbody, rdneed)
    <3>1. Part(rdbody, rdread, Len(rdbody)) = <<>>
      BY <1>1, <1>2, RdWhole
    <3>2. rdcarry \o <<>> = rdcarry
      BY <1>2, ConcatEmptySeq
    <3>3. Coming = rdcarry
      BY <3>1, <3>2 DEF Coming
    <3>4. QED BY <1>1, <1>3, <3>3 DEF RdIInv
  <2>3. /\ o \in Seq(Sym) /\ ~Contains(o, rdneed)
        /\ Independent(rdneed) => o = ApplyToBytes(rdbody, rdneed)
    BY <1>2, <2>2, RdTextClean
  <2> HIDE DEF o
  <2>4. RdTypeOK'
    BY <1>1, <1>2, <2>1, <2>3 DEF RdTypeOK
  <2>5. RdClean' /\ RdExact'
    BY <1>1, <1>3, <2>1, <2>3 DEF RdClean, RdExact
  <2>6. QED BY <2>1, <2>4, <2>5 DEF RdIInv
<1>4. CASE rdmode = "binary"
  <2>1. BinInv(rdout, rdcarry, rdread, rdbody, rdneed)
    BY <1>1, <1>4 DEF RdIInv
  <2>2. rdout \o rdcarry = rdbody /\ FreeAll(rdbody, rdneed, Len(rdbody))
    <3>1. Part(rdbody, 0, rdread) = rdbody
      BY <1>1, <1>2, RdWhole
    <3>2. QED BY <1>1, <2>1, <3>1 DEF BinInv
  <2>3. ~Contains(rdbody, rdneed)
    BY <1>2, <2>2, RdContains DEF FreeAll, Free
  <2>4. ~Contains(rdcarry, rdneed)
    <3>1. rdout \o rdcarry = Part(rdbody, 0, rdread) /\ rdread \in Nat /\ rdread <= Len(rdbody)
      BY <1>1, <1>2, <2>1 DEF BinInv
    <3>2. QED BY <1>2, <2>3, <3>1, RdPartContains
  <2>5. rdout' = rdbody /\ rdend' = "complete"
    BY <1>4, <2>2, <2>4 DEF RdEof
  <2>6. RdTypeOK'
    BY <1>1, <1>2, <2>5 DEF RdTypeOK
  <2>7. rdbody \o <<>> = rdbody /\ SubSeq(rdbody, 1, Len(rdbody) + Len(<<>>)) = rdbody
    <3>1. Len(rdbody) + Len(<<>>) = Len(rdbody)
      BY <1>2, EmptySeq
    <3>2. SubSeq(rdbody, 1, Len(rdbody)) = rdbody
      BY <1>2, RdSufAll DEF Suf
    <3>3. QED BY <1>2, <3>1, <3>2, ConcatEmptySeq
  <2>8. RdClean' /\ RdExact'
    BY <1>1, <1>4, <2>3, <2>5, <2>7 DEF RdClean, RdExact
  <2>9. QED BY <2>5, <2>6, <2>8 DEF RdIInv
<1>5. QED BY <1>2, <1>3, <1>4

\* What was relayed when the stream broke off is what was relayed before.
LEMMA RdStopKeeps ==
    ASSUME RdIInv, NEW how \in {"error", "dropped"}, RdStop(how)
    PROVE  RdIInv'
<1>1. /\ RdTypeOK /\ RdClean /\ RdExact /\ rdend = "none" /\ rdend' = how /\ rdcarry' = <<>>
      /\ rdmode' = rdmode /\ rdneed' = rdneed /\ rdbody' = rdbody /\ rdread' = rdread /\ rdout' = rdout
  BY DEF RdIInv, RdStop
<1>2. RdTypeOK'
  BY <1>1, EmptySeq DEF RdTypeOK
<1>3. RdClean'
  BY <1>1 DEF RdClean
<1>4. rdmode = "binary" => rdout \o <<>> = SubSeq(rdbody, 1, Len(rdout) + Len(<<>>))
  <2>1. rdmode = "binary" => BinInv(rdout, rdcarry, rdread, rdbody, rdneed)
    BY <1>1 DEF RdIInv
  <2>2. QED BY <1>1, <2>1, RdBinFront DEF RdTypeOK
<1>5. RdExact'
  BY <1>1, <1>4 DEF RdExact
<1>6. QED BY <1>1, <1>2, <1>3, <1>5 DEF RdIInv

\* Every step keeps it.
LEMMA RdInductive == RdIInv /\ [RdNext]_rdVars => RdIInv'
<1> SUFFICES ASSUME RdIInv, [RdNext]_rdVars PROVE RdIInv'
  OBVIOUS
<1>1. CASE RdNext
  <2>1. CASE \E n \in 1 .. RdMaxLen : RdChunk(n)
    BY <2>1, RdChunkKeeps
  <2>2. CASE RdEof
    BY <2>2, RdEofKeeps
  <2>3. CASE \E how \in {"error", "dropped"} : RdStop(how)
    BY <2>3, RdStopKeeps
  <2>4. QED BY <1>1, <2>1, <2>2, <2>3 DEF RdNext
<1>2. CASE UNCHANGED rdVars
  BY <1>2 DEF RdIInv, RdTypeOK, Coming, RdClean, RdExact, rdVars
<1>3. QED BY <1>1, <1>2

\* Whatever the needles, however the body is cut and wherever the stream stops: no needle
\* is in what was relayed, a text is what the whole-body scrubber would have made of it,
\* and a binary body comes through unchanged or is refused for the needle in it.
THEOREM RedactionHolds == RdSpec => []RedactionSound
<1>1. RdIInv => RedactionSound
  BY DEF RdIInv, RedactionSound
<1>2. QED BY RdInitial, RdInductive, <1>1, PTL DEF RdSpec
=============================================================================
