---------------------------- MODULE UpstreamProofs ----------------------------
(***************************************************************************)
(* What stands towards the upstreams, for any questions, calls, sessions   *)
(* and requests: the questions an upstream asks of the user, that they     *)
(* implement the prompts the program promises (Prompts), the calls an MCP  *)
(* session makes, and the surface an MCP session shows its client.         *)
(***************************************************************************)
EXTENDS Elicitations, McpCalls, McpCatalog, FiniteSetTheorems, SequenceTheorems, TLAPS

----------------------------------------------------------------------------
(* The questions upstreams ask                                             *)

\* What is on its way to the waiter and the history, as it can be.
ElOuts == [ans : ElAnswers \cup {"none"}, as : ElRecords, stage : {"none", "history", "send"}]

\* What the history says when a question ended in the user's words.
ElMatch(ans, as) ==
    /\ ans = "accept" => as = "provided"
    /\ ans = "decline" => as = "refused"

\* The type of what lies around the questions, and of what is known of each.
ElAround ==
    /\ elperm \in Seq(ElToks) /\ Len(elperm) <= ElMaxPermits
    /\ eldue \subseteq ElToks /\ elrev \subseteq ElToks
    /\ elon \in BOOLEAN /\ elswitch \in 0 .. ElSwitches

ElTables ==
    /\ elpend \subseteq ElToks /\ IsFiniteSet(elpend) /\ Cardinality(elpend) <= ElMaxPending
    /\ elraced \subseteq ElToks
    /\ elcall \in [ElToks -> ElPlaces]
    /\ elout \in [ElToks -> ElOuts]
    /\ elbox \in [ElToks -> ElAnswers \cup {"none"}]
    /\ eldec \in [ElToks -> ElAnswers \cup {"none"}]
    /\ elheard \in [ElToks -> ElAnswers \cup {"none"}]
    /\ elhist \in [ElToks -> ElRecords]

\* A question nobody decided: it is parked for the user, recorded once it is beyond the
\* first moment; or it never was, or is no more.
ElOpen(k) ==
    /\ eldec[k] = "none" => elout[k].stage = "none" /\ elbox[k] = "none" /\ k \notin elraced
    /\ k \in elpend =>
          /\ eldec[k] = "none" /\ elcall[k] \in {"parked", "recorded", "waiting", "gone"}
          /\ elcall[k] # "parked" => elhist[k] = "pending"
    /\ k \notin elpend /\ eldec[k] = "none" =>
          elhist[k] = "none" /\ elcall[k] \notin {"parked", "recorded", "waiting"}
    /\ elcall[k] \in {"new", "issued", "allowed", "redeemed"} => k \notin elpend /\ eldec[k] = "none"
    /\ elcall[k] = "parked" => elhist[k] = "none"

\* A question that was decided: the history first, then the waiter, and what the waiter
\* hears is what was decided.
ElDecided(k) ==
    /\ elout[k].stage # "none" =>
          elbox[k] = "none" /\ elout[k].ans = eldec[k] /\ elout[k].as \notin {"none", "pending"}
          /\ ElMatch(eldec[k], elout[k].as)
    /\ elout[k].stage = "none" /\ eldec[k] # "none" => elbox[k] = eldec[k]
    /\ elbox[k] # "none" => elbox[k] = eldec[k] /\ elout[k].stage = "none"
    /\ k \notin elraced /\ eldec[k] # "none" =>
          IF elout[k].stage = "history" THEN elhist[k] = "pending"
          ELSE elhist[k] # "pending" /\ ElMatch(eldec[k], elhist[k])
    /\ elcall[k] = "parked" /\ eldec[k] # "none" => k \in elraced
    /\ elheard[k] # "none" => elcall[k] = "done"
    /\ elheard[k] \in {"accept", "decline"} => elheard[k] = elbox[k]

\* The inductive invariant of the questions.
ElInv == ElAround /\ ElTables /\ \A k \in ElToks : ElOpen(k) /\ ElDecided(k)

\* The invariant says what the properties ask.
LEMMA ElInvMeans == ElInv => ElicitationsSound
<1> SUFFICES ASSUME ElInv PROVE ElicitationsSound
  OBVIOUS
<1>1. ElTypeOK
  <2>1. ElRange(elperm) \subseteq ElToks
    BY DEF ElInv, ElAround, ElTables, ElRange
  <2>2. QED BY <2>1 DEF ElInv, ElAround, ElTables, ElTypeOK
<1>2. ASSUME NEW k \in ElToks, k \notin elraced
      PROVE  /\ elheard[k] = "accept" => elhist[k] = "provided"
             /\ elheard[k] = "decline" => elhist[k] = "refused"
             /\ elhist[k] = "pending" => k \in elpend \/ elout[k].stage = "history"
  <2>1. ElOpen(k) /\ ElDecided(k)
    BY DEF ElInv
  <2>2. QED BY <1>2, <2>1 DEF ElOpen, ElDecided, ElMatch
<1>3. ASSUME NEW k \in ElToks, elcall[k] = "waiting"
      PROVE  k \in elpend \/ elout[k].stage # "none" \/ elbox[k] # "none"
  <2>1. ElOpen(k) /\ ElDecided(k)
    BY DEF ElInv
  <2>2. QED BY <1>3, <2>1 DEF ElOpen, ElDecided
<1>4. QED BY <1>1, <1>2, <1>3 DEF ElicitationsSound, ElHistoryAgrees, ElHistoryClosed, ElNobodyForgotten

\* A permit taken out leaves the others.
LEMMA WithoutPermit ==
    ASSUME NEW s \in Seq(ElToks), NEW k
    PROVE  ElWithout(s, k) \in Seq(ElToks) /\ Len(ElWithout(s, k)) <= Len(s)
<1> DEFINE at == CHOOSE i \in DOMAIN s : s[i] = k
           t == [i \in 1 .. Len(s) - 1 |-> IF i < at THEN s[i] ELSE s[i + 1]]
<1>1. CASE k \notin ElRange(s)
  BY <1>1 DEF ElWithout
<1>2. CASE k \in ElRange(s)
  <2>1. Len(s) \in Nat /\ Len(s) >= 1 /\ DOMAIN s = 1 .. Len(s)
    BY <1>2 DEF ElRange
  <2>2. \A i \in 1 .. Len(s) - 1 : s[i] \in ElToks /\ s[i + 1] \in ElToks
    BY <2>1
  <2>3. ElWithout(s, k) = t
    BY <1>2 DEF ElWithout
  <2> HIDE DEF at
  <2>4. t \in [1 .. Len(s) - 1 -> ElToks] /\ Len(s) - 1 \in Nat
    BY <2>1, <2>2
  <2>5. t \in Seq(ElToks) /\ Len(t) = Len(s) - 1
    BY <2>4
  <2>6. QED BY <2>1, <2>3, <2>5
<1>3. QED BY <1>1, <1>2

\* The registry is a table of answers, and gives each question once.
LEMMA ElWords ==
    /\ ElAnswers = {"accept", "decline", "cancel"}
    /\ NoOut \in ElOuts /\ NoOut.stage = "none"
<1>1. QED BY DEF ElAnswers, NoOut, ElOuts, ElRecords

\* One question changes, and the others do not.
LEMMA ElOne ==
    ASSUME ElInv, NEW k \in ElToks, ElAround', ElTables',
           \A q \in ElToks \ {k} :
              /\ elcall'[q] = elcall[q] /\ elout'[q] = elout[q] /\ elbox'[q] = elbox[q]
              /\ eldec'[q] = eldec[q] /\ elheard'[q] = elheard[q] /\ elhist'[q] = elhist[q]
              /\ q \in elpend' <=> q \in elpend
              /\ q \in elraced' <=> q \in elraced,
           ElOpen(k)', ElDecided(k)'
    PROVE  ElInv'
<1>1. ASSUME NEW q \in ElToks PROVE ElOpen(q)' /\ ElDecided(q)'
  <2>1. CASE q = k
    BY <2>1
  <2>2. CASE q # k
    <3>1. ElOpen(q) /\ ElDecided(q)
      BY DEF ElInv
    <3>2. /\ elcall'[q] = elcall[q] /\ elout'[q] = elout[q] /\ elbox'[q] = elbox[q]
          /\ eldec'[q] = eldec[q] /\ elheard'[q] = elheard[q] /\ elhist'[q] = elhist[q]
          /\ q \in elpend' <=> q \in elpend
          /\ q \in elraced' <=> q \in elraced
      BY <2>2
    <3>3. QED BY <3>1, <3>2 DEF ElOpen, ElDecided
  <2>3. QED BY <2>1, <2>2
<1>2. QED BY <1>1 DEF ElInv

\* Questions leave the queue with an answer.
LEMMA ElRemoved ==
    ASSUME ElInv, NEW ks \in SUBSET elpend, NEW ans \in ElAnswers, NEW as,
           \A k \in ks : as[k] \in ElRecords \ {"none", "pending"} /\ ElMatch(ans, as[k]),
           Remove(ks, ans, as), UNCHANGED <<elbox, elhist>>, ElAround',
           \/ UNCHANGED <<elcall, elheard>>
           \/ \E k \in ks : elcall[k] \in {"recorded", "waiting"} /\ Told(k, "cancel")
    PROVE  ElInv'
<1>1. /\ elpend' = elpend \ ks
      /\ elout' = [k \in ElToks |->
            IF k \in ks THEN [ans |-> ans, as |-> as[k], stage |-> "history"] ELSE elout[k]]
      /\ eldec' = [k \in ElToks |-> IF k \in ks THEN ans ELSE eldec[k]]
      /\ elraced' = elraced \cup {k \in ks : elhist[k] = "none"}
  BY DEF Remove
<1>2. ElTables
  BY DEF ElInv
<1>3. /\ elcall' \in [ElToks -> ElPlaces] /\ elheard' \in [ElToks -> ElAnswers \cup {"none"}]
      /\ \A q \in ElToks :
            \/ elcall'[q] = elcall[q] /\ elheard'[q] = elheard[q]
            \/ q \in ks /\ elcall[q] \in {"recorded", "waiting"} /\ elcall'[q] = "done" /\ elheard'[q] = "cancel"
  <2>1. CASE UNCHANGED <<elcall, elheard>>
    BY <1>2, <2>1 DEF ElTables
  <2>2. ASSUME NEW k \in ks, elcall[k] \in {"recorded", "waiting"}, Told(k, "cancel")
        PROVE  /\ elcall' \in [ElToks -> ElPlaces] /\ elheard' \in [ElToks -> ElAnswers \cup {"none"}]
               /\ \A q \in ElToks :
                     \/ elcall'[q] = elcall[q] /\ elheard'[q] = elheard[q]
                     \/ q \in ks /\ elcall[q] \in {"recorded", "waiting"} /\ elcall'[q] = "done" /\ elheard'[q] = "cancel"
    BY <1>2, <2>2 DEF ElTables, Told, ElPlaces, ElAnswers
  <2>3. QED BY <2>1, <2>2
<1>4. ElTables'
  <2>1. elpend' \in SUBSET elpend
    BY <1>1
  <2>2. IsFiniteSet(elpend') /\ Cardinality(elpend') <= Cardinality(elpend) /\ Cardinality(elpend') \in Nat
        /\ Cardinality(elpend) \in Nat
    BY <1>2, <2>1, FS_Subset, FS_CardinalityType DEF ElTables
  <2>3. Cardinality(elpend') <= ElMaxPending
    BY <1>2, <2>2, ElAssumption DEF ElTables
  <2>4. elout' \in [ElToks -> ElOuts]
    <3>1. \A k \in ElToks : (IF k \in ks THEN [ans |-> ans, as |-> as[k], stage |-> "history"] ELSE elout[k]) \in ElOuts
      BY <1>2 DEF ElTables, ElOuts
    <3>2. QED BY <1>1, <3>1
  <2>5. eldec' \in [ElToks -> ElAnswers \cup {"none"}]
    BY <1>1, <1>2 DEF ElTables
  <2>6. elraced' \subseteq ElToks /\ elpend' \subseteq ElToks
    BY <1>1, <1>2 DEF ElTables
  <2>7. QED BY <1>2, <1>3, <2>2, <2>3, <2>4, <2>5, <2>6 DEF ElTables, ElAnswers, ElRecords, ElPlaces, ElOuts
<1>5. ASSUME NEW q \in ElToks PROVE ElOpen(q)' /\ ElDecided(q)'
  <2>1. ElOpen(q) /\ ElDecided(q)
    BY DEF ElInv
  <2>2. CASE q \notin ks
    <3>1. /\ elcall'[q] = elcall[q] /\ elout'[q] = elout[q] /\ elbox'[q] = elbox[q]
          /\ eldec'[q] = eldec[q] /\ elheard'[q] = elheard[q] /\ elhist'[q] = elhist[q]
          /\ q \in elpend' <=> q \in elpend
          /\ q \in elraced' <=> q \in elraced
      BY <1>1, <1>3, <2>2
    <3>2. QED BY <2>1, <3>1 DEF ElOpen, ElDecided
  <2>3. CASE q \in ks
    <3>1. /\ elout'[q].ans = ans /\ elout'[q].as = as[q] /\ elout'[q].stage = "history" /\ eldec'[q] = ans
          /\ q \notin elpend' /\ elbox'[q] = elbox[q] /\ elhist'[q] = elhist[q]
          /\ elhist[q] = "none" => q \in elraced'
      BY <1>1, <2>3
    <3>2. eldec[q] = "none" /\ elbox[q] = "none" /\ elcall[q] \in {"parked", "recorded", "waiting", "gone"}
          /\ (elcall[q] # "parked" => elhist[q] = "pending") /\ (elcall[q] = "parked" => elhist[q] = "none")
          /\ elheard[q] = "none"
      BY <2>1, <2>3, <1>2 DEF ElOpen, ElDecided, ElTables
    <3>3. ans # "none" /\ as[q] \notin {"none", "pending"} /\ ElMatch(ans, as[q])
      BY <2>3, ElWords
    <3>4. \/ elcall'[q] = elcall[q] /\ elheard'[q] = "none"
          \/ elcall[q] \in {"recorded", "waiting"} /\ elcall'[q] = "done" /\ elheard'[q] = "cancel"
      BY <1>3, <3>2
    <3>5. ElOpen(q)'
      BY <3>1, <3>2, <3>3, <3>4 DEF ElOpen
    <3>6. ElDecided(q)'
      BY <3>1, <3>2, <3>3, <3>4 DEF ElDecided, ElMatch
    <3>7. QED BY <3>5, <3>6
  <2>4. QED BY <2>2, <2>3
<1>6. QED BY <1>4, <1>5 DEF ElInv

\* A question is asked, redeemed, parked, recorded and published.
LEMMA ElAskingStep ==
    ASSUME ElInv, NEW k \in ElToks,
           ElIssue(k) \/ ElAsk(k) \/ ElRedeem(k) \/ ElPark(k) \/ ElRecord(k) \/ ElPublish(k) \/ ElDrop(k)
    PROVE  ElInv'
<1>1. ElAround /\ ElTables /\ ElOpen(k) /\ ElDecided(k)
  BY DEF ElInv
<1>2. ElMaxPermits \in Nat \ {0} /\ ElMaxPending \in Nat
  BY ElAssumption
<1> DEFINE Same == UNCHANGED <<elpend, elout, elbox, elhist, eldec, elraced>>
<1>3. ASSUME NEW c \in ElPlaces, elcall' = [elcall EXCEPT ![k] = c], UNCHANGED elheard, Same, ElAround',
             \/ elcall[k] = "new" /\ c = "issued"
             \/ elcall[k] = "issued" /\ c \in {"allowed", "gone"}
             \/ elcall[k] = "allowed" /\ c = "redeemed"
             \/ elcall[k] = "recorded" /\ c = "waiting"
             \/ elcall[k] = "waiting" /\ c = "gone"
      PROVE  ElInv'
  <2>1. elcall' \in [ElToks -> ElPlaces] /\ elcall'[k] = c /\ \A q \in ElToks \ {k} : elcall'[q] = elcall[q]
    BY <1>1, <1>3 DEF ElTables
  <2>2. ElTables'
    BY <1>1, <1>3, <2>1 DEF ElTables, ElAnswers, ElRecords, ElPlaces, ElOuts
  <2>3. ElOpen(k)' /\ ElDecided(k)'
    BY <1>1, <1>3, <2>1 DEF ElOpen, ElDecided, ElMatch
  <2>4. QED BY <1>3, <2>1, <2>2, <2>3, ElOne
<1>4. ASSUME Told(k, "cancel"), Same, ElAround', elcall[k] \in {"issued", "allowed", "redeemed", "recorded"}, k \notin elpend
      PROVE  ElInv'
  <2>1. /\ elcall' \in [ElToks -> ElPlaces] /\ elcall'[k] = "done" /\ \A q \in ElToks \ {k} : elcall'[q] = elcall[q]
        /\ elheard' \in [ElToks -> ElAnswers \cup {"none"}] /\ elheard'[k] = "cancel"
        /\ \A q \in ElToks \ {k} : elheard'[q] = elheard[q]
    BY <1>1, <1>4 DEF ElTables, Told, ElPlaces, ElAnswers
  <2>2. ElTables'
    BY <1>1, <1>4, <2>1 DEF ElTables, ElAnswers, ElRecords, ElPlaces, ElOuts
  <2>3. ElOpen(k)' /\ ElDecided(k)'
    BY <1>1, <1>4, <2>1 DEF ElOpen, ElDecided, ElMatch
  <2>4. QED BY <1>4, <2>1, <2>2, <2>3, ElOne
<1>5. CASE ElIssue(k)
  <2>1. /\ elcall[k] = "new" /\ elcall' = [elcall EXCEPT ![k] = "issued"]
        /\ elperm' = Append(IF Len(elperm) >= ElMaxPermits THEN Tail(elperm) ELSE elperm, k)
        /\ Same /\ UNCHANGED <<elheard, eldue, elon, elrev, elswitch>>
    BY <1>5 DEF ElIssue
  <2>2. elperm' \in Seq(ElToks) /\ Len(elperm') <= ElMaxPermits
    <3>1. elperm \in Seq(ElToks) /\ Len(elperm) \in Nat /\ Len(elperm) <= ElMaxPermits
      BY <1>1 DEF ElAround
    <3>2. CASE Len(elperm) >= ElMaxPermits
      <4>1. elperm # <<>>
        BY <1>2, <3>1, <3>2
      <4>2. Tail(elperm) \in Seq(ElToks) /\ Len(Tail(elperm)) = Len(elperm) - 1
        BY <3>1, <4>1
      <4>3. elperm' = Append(Tail(elperm), k)
        BY <2>1, <3>2
      <4>4. QED BY <1>2, <3>1, <4>2, <4>3
    <3>3. CASE ~(Len(elperm) >= ElMaxPermits)
      <4>1. elperm' = Append(elperm, k)
        BY <2>1, <3>3
      <4>2. QED BY <1>2, <3>1, <3>3, <4>1
    <3>4. QED BY <3>2, <3>3
  <2>3. ElAround'
    BY <1>1, <2>1, <2>2 DEF ElAround
  <2>4. QED BY <1>3, <2>1, <2>3 DEF ElPlaces
<1>6. CASE ElAsk(k)
  <2>1. elcall[k] = "issued" /\ Same /\ UNCHANGED <<elperm, eldue, elon, elrev, elswitch>>
    BY <1>6 DEF ElAsk
  <2>2. ElAround' /\ k \notin elpend
    BY <1>1, <2>1 DEF ElAround, ElOpen
  <2>3. (elcall' = [elcall EXCEPT ![k] = "allowed"] /\ UNCHANGED elheard) \/ Told(k, "cancel")
    BY <1>6 DEF ElAsk
  <2>4. QED BY <1>3, <1>4, <2>1, <2>2, <2>3 DEF ElPlaces
<1>7. CASE ElRedeem(k)
  <2>1. elcall[k] = "allowed" /\ elperm' = ElWithout(elperm, k) /\ Same /\ UNCHANGED <<eldue, elon, elrev, elswitch>>
    BY <1>7 DEF ElRedeem
  <2>2. ElAround'
    <3>1. elperm' \in Seq(ElToks) /\ Len(elperm') <= Len(elperm) /\ Len(elperm') \in Nat /\ Len(elperm) \in Nat
      BY <1>1, <2>1, WithoutPermit DEF ElAround
    <3>2. Len(elperm') <= ElMaxPermits
      BY <1>1, <1>2, <3>1 DEF ElAround
    <3>3. QED BY <1>1, <2>1, <3>1, <3>2 DEF ElAround
  <2>3. k \notin elpend
    BY <1>1, <2>1 DEF ElOpen
  <2>4. (elcall' = [elcall EXCEPT ![k] = "redeemed"] /\ UNCHANGED elheard) \/ Told(k, "cancel")
    BY <1>7 DEF ElRedeem
  <2>5. QED BY <1>3, <1>4, <2>1, <2>2, <2>3, <2>4 DEF ElPlaces
<1>8. CASE ElPark(k)
  <2>1. /\ elcall[k] = "redeemed" /\ UNCHANGED <<elperm, eldue, elon, elrev, elswitch>>
        /\ UNCHANGED <<elout, elbox, elhist, eldec, elraced>>
    BY <1>8 DEF ElPark
  <2>2. ElAround' /\ k \notin elpend
    BY <1>1, <2>1 DEF ElAround, ElOpen
  <2>3. CASE Told(k, "cancel") /\ UNCHANGED elpend
    BY <1>4, <2>1, <2>2, <2>3
  <2>4. CASE /\ Cardinality(elpend) < ElMaxPending /\ elpend' = elpend \cup {k}
             /\ elcall' = [elcall EXCEPT ![k] = "parked"] /\ UNCHANGED elheard
    <3>1. elcall' \in [ElToks -> ElPlaces] /\ elcall'[k] = "parked" /\ \A q \in ElToks \ {k} : elcall'[q] = elcall[q]
      BY <1>1, <2>4 DEF ElTables, ElPlaces
    <3>2. IsFiniteSet(elpend') /\ Cardinality(elpend') <= ElMaxPending /\ elpend' \subseteq ElToks
      <4>1. IsFiniteSet(elpend) /\ Cardinality(elpend) \in Nat
        BY <1>1, FS_CardinalityType DEF ElTables
      <4>2. IsFiniteSet(elpend \cup {k}) /\ Cardinality(elpend \cup {k}) = Cardinality(elpend) + 1
        BY <4>1, <2>2, FS_AddElement
      <4>3. IsFiniteSet(elpend') /\ Cardinality(elpend') = Cardinality(elpend) + 1
        BY <2>4, <4>2
      <4>4. QED BY <1>1, <1>2, <2>4, <4>1, <4>3 DEF ElTables
    <3>3. ElTables'
      BY <1>1, <2>1, <2>4, <3>1, <3>2 DEF ElTables, ElAnswers, ElRecords, ElPlaces, ElOuts
    <3>4. ElOpen(k)' /\ ElDecided(k)'
      BY <1>1, <2>1, <2>2, <2>4, <3>1 DEF ElOpen, ElDecided, ElMatch
    <3>5. \A q \in ElToks \ {k} : q \in elpend' <=> q \in elpend
      BY <2>4
    <3>6. QED BY <2>1, <2>2, <2>4, <3>1, <3>3, <3>4, <3>5, ElOne
  <2>5. Cardinality(elpend) >= ElMaxPending \/ Cardinality(elpend) < ElMaxPending
    <3>1. Cardinality(elpend) \in Nat
      BY <1>1, FS_CardinalityType DEF ElTables
    <3>2. QED BY <1>2, <3>1
  <2>6. QED BY <1>8, <2>3, <2>4, <2>5 DEF ElPark
<1>9. CASE ElRecord(k)
  <2>1. /\ elcall[k] = "parked" /\ elhist' = [elhist EXCEPT ![k] = "pending"]
        /\ elcall' = [elcall EXCEPT ![k] = "recorded"] /\ UNCHANGED <<elperm, eldue, elon, elrev, elswitch>>
        /\ UNCHANGED <<elpend, elout, elbox, elheard, eldec, elraced>>
    BY <1>9 DEF ElRecord
  <2>2. ElAround'
    BY <1>1, <2>1 DEF ElAround
  <2>3. /\ elcall' \in [ElToks -> ElPlaces] /\ elcall'[k] = "recorded" /\ \A q \in ElToks \ {k} : elcall'[q] = elcall[q]
        /\ elhist' \in [ElToks -> ElRecords] /\ elhist'[k] = "pending" /\ \A q \in ElToks \ {k} : elhist'[q] = elhist[q]
    BY <1>1, <2>1 DEF ElTables, ElPlaces, ElRecords
  <2>4. ElTables'
    BY <1>1, <2>1, <2>3 DEF ElTables, ElAnswers, ElRecords, ElPlaces, ElOuts
  <2>5. ElOpen(k)'
    BY <1>1, <2>1, <2>3 DEF ElOpen
  <2>6. ElDecided(k)'
    BY <1>1, <2>1, <2>3 DEF ElOpen, ElDecided, ElMatch
  <2>7. QED BY <2>1, <2>2, <2>3, <2>4, <2>5, <2>6, ElOne
<1>10. CASE ElPublish(k)
  <2>1. elcall[k] = "recorded" /\ UNCHANGED <<elperm, eldue, elbox, elhist, elon, elrev, elswitch>>
    BY <1>10 DEF ElPublish
  <2>2. ElAround'
    BY <1>1, <2>1 DEF ElAround
  <2>3. CASE elcall' = [elcall EXCEPT ![k] = "waiting"] /\ UNCHANGED <<elpend, elout, eldec, elraced, elheard>>
    BY <1>3, <2>1, <2>2, <2>3 DEF ElPlaces
  <2>4. CASE Told(k, "cancel") /\ k \notin elpend /\ UNCHANGED <<elpend, elout, eldec, elraced>>
    BY <1>4, <2>1, <2>2, <2>4
  <2>5. CASE Told(k, "cancel") /\ k \in elpend /\ Remove({k}, "cancel", [q \in ElToks |-> "no_surface"])
    <3> DEFINE as == [q \in ElToks |-> "no_surface"]
    <3>1. \A q \in {k} : as[q] \in ElRecords \ {"none", "pending"} /\ ElMatch("cancel", as[q])
      BY DEF ElRecords, ElMatch
    <3> HIDE DEF as
    <3>2. "cancel" \in ElAnswers /\ {k} \in SUBSET elpend
      BY <2>5, ElWords
    <3>3. Remove({k}, "cancel", as)
      BY <2>5 DEF as
    <3>4. QED BY <2>1, <2>2, <2>5, <3>1, <3>2, <3>3, ElRemoved
  <2>6. QED BY <1>10, <2>3, <2>4, <2>5 DEF ElPublish
<1>11. CASE ElDrop(k)
  <2>1. /\ elcall[k] \in {"issued", "waiting"} /\ elcall' = [elcall EXCEPT ![k] = "gone"]
        /\ Same /\ UNCHANGED <<elperm, eldue, elheard, elon, elrev, elswitch>>
    BY <1>11 DEF ElDrop
  <2>2. ElAround'
    BY <1>1, <2>1 DEF ElAround
  <2>3. QED BY <1>3, <2>1, <2>2 DEF ElPlaces
<1>12. QED BY <1>5, <1>6, <1>7, <1>8, <1>9, <1>10, <1>11

\* A question leaves the queue with an answer: the user's, the sweep's, a deadline's, a
\* revocation's, or that of the request it belongs to.
LEMMA ElRemovingStep ==
    ASSUME ElInv,
           \/ ElSweep
           \/ \E k \in ElToks : \/ ElTimer(k) \/ ElRevoked(k) \/ ElTimeout(k) \/ ElCancel(k)
                                \/ \E ans \in {"accept", "decline"} : ElRespond(k, ans)
    PROVE  ElInv'
<1>1. ElAround /\ ElTables
  BY DEF ElInv
<1>2. ASSUME NEW k \in elpend, NEW ans \in ElAnswers, NEW what \in ElRecords \ {"none", "pending"},
             ElMatch(ans, what), Remove({k}, ans, [q \in ElToks |-> what]), UNCHANGED <<elbox, elhist>>, ElAround',
             UNCHANGED <<elcall, elheard>> \/ (elcall[k] = "waiting" /\ Told(k, "cancel"))
      PROVE  ElInv'
  <2> DEFINE as == [q \in ElToks |-> what]
  <2>1. k \in ElToks /\ as[k] = what
    BY <1>1 DEF ElTables
  <2>2. \A q \in {k} : as[q] \in ElRecords \ {"none", "pending"} /\ ElMatch(ans, as[q])
    BY <1>2, <2>1
  <2>3. Remove({k}, ans, as) /\ {k} \in SUBSET elpend
    BY <1>2
  <2> HIDE DEF as
  <2>4. UNCHANGED <<elcall, elheard>> \/ \E q \in {k} : elcall[q] \in {"recorded", "waiting"} /\ Told(q, "cancel")
    BY <1>2
  <2>5. QED BY <1>2, <2>2, <2>3, <2>4, ElRemoved
<1>3. /\ {"timed_out", "disconnected", "provided", "refused", "policy_changed"} \subseteq ElRecords \ {"none", "pending"}
      /\ {"accept", "decline", "cancel"} \subseteq ElAnswers
      /\ \A what : ElMatch("cancel", what)
      /\ ElMatch("accept", "provided") /\ ElMatch("decline", "refused")
  BY DEF ElRecords, ElAnswers, ElMatch
<1>4. CASE ElSweep
  <2> DEFINE as == Lapsed(Swept)
  <2>1. Remove(Swept, "cancel", as) /\ UNCHANGED <<elperm, elcall, eldue, elbox, elhist, elheard, elon, elrev, elswitch>>
    BY <1>4 DEF ElSweep
  <2>2. Swept \in SUBSET elpend /\ \A k \in Swept : k \in ElToks
    BY <1>1 DEF Swept, ElTables
  <2>3. \A k \in Swept : as[k] \in {"timed_out", "disconnected"}
    BY <2>2 DEF Lapsed
  <2> HIDE DEF as
  <2>4. \A k \in Swept : as[k] \in ElRecords \ {"none", "pending"} /\ ElMatch("cancel", as[k])
    BY <1>3, <2>3
  <2>5. ElAround'
    BY <1>1, <2>1 DEF ElAround
  <2>6. "cancel" \in ElAnswers
    BY <1>3
  <2>7. QED BY <2>1, <2>2, <2>4, <2>5, <2>6, ElRemoved
<1>5. ASSUME NEW k \in ElToks, ElTimer(k) PROVE ElInv'
  <2>1. k \in elpend /\ Remove({k}, "cancel", [q \in ElToks |-> "timed_out"])
        /\ UNCHANGED <<elperm, elcall, eldue, elbox, elhist, elheard, elon, elrev, elswitch>>
    BY <1>5 DEF ElTimer
  <2>2. ElAround'
    BY <1>1, <2>1 DEF ElAround
  <2>3. QED BY <1>2, <1>3, <2>1, <2>2
<1>6. ASSUME NEW k \in ElToks, ElRevoked(k) PROVE ElInv'
  <2>1. elrev' = elrev \ {k} /\ UNCHANGED <<elperm, elcall, eldue, elbox, elhist, elheard, elon, elswitch>>
    BY <1>6 DEF ElRevoked
  <2>2. ElAround'
    BY <1>1, <2>1 DEF ElAround
  <2>3. CASE k \in elpend
    <3>1. Remove({k}, "cancel", [q \in ElToks |-> "policy_changed"])
      BY <1>6, <2>3 DEF ElRevoked
    <3>2. QED BY <1>2, <1>3, <2>1, <2>2, <2>3, <3>1
  <2>4. CASE k \notin elpend
    <3>1. UNCHANGED <<elpend, elout, eldec, elraced>>
      BY <1>6, <2>4 DEF ElRevoked
    <3>2. ElTables'
      BY <1>1, <2>1, <3>1 DEF ElTables, ElAnswers, ElRecords, ElPlaces, ElOuts
    <3>3. QED BY <2>1, <2>2, <3>1, <3>2 DEF ElInv, ElOpen, ElDecided, ElMatch
  <2>5. QED BY <2>3, <2>4
<1>7. ASSUME NEW k \in ElToks, ElTimeout(k) PROVE ElInv'
  <2>1. /\ elcall[k] = "waiting" /\ elbox[k] = "none" /\ eldue' = eldue \cup {k} /\ Told(k, "cancel")
        /\ UNCHANGED <<elperm, elbox, elhist, elon, elrev, elswitch>>
    BY <1>7 DEF ElTimeout
  <2>2. ElAround'
    BY <1>1, <2>1 DEF ElAround
  <2>3. CASE k \in elpend
    <3>1. Remove({k}, "cancel", [q \in ElToks |-> "timed_out"])
      BY <1>7, <2>3 DEF ElTimeout
    <3>2. QED BY <1>2, <1>3, <2>1, <2>2, <2>3, <3>1
  <2>4. CASE k \notin elpend
    <3>1. UNCHANGED <<elpend, elout, eldec, elraced>>
      BY <1>7, <2>4 DEF ElTimeout
    <3>2. /\ elcall' \in [ElToks -> ElPlaces] /\ elcall'[k] = "done" /\ \A q \in ElToks \ {k} : elcall'[q] = elcall[q]
          /\ elheard' \in [ElToks -> ElAnswers \cup {"none"}] /\ elheard'[k] = "cancel"
          /\ \A q \in ElToks \ {k} : elheard'[q] = elheard[q]
      BY <1>1, <2>1 DEF ElTables, Told, ElPlaces, ElAnswers
    <3>3. ElTables'
      BY <1>1, <2>1, <3>1, <3>2 DEF ElTables, ElAnswers, ElRecords, ElPlaces, ElOuts
    <3>4. ElOpen(k) /\ ElDecided(k)
      BY DEF ElInv
    <3>5. ElOpen(k)' /\ ElDecided(k)'
      BY <2>1, <2>4, <3>1, <3>2, <3>4 DEF ElOpen, ElDecided, ElMatch
    <3>6. QED BY <2>1, <2>2, <3>1, <3>2, <3>3, <3>5, ElOne
  <2>5. QED BY <2>3, <2>4
<1>8. ASSUME NEW k \in ElToks, ElCancel(k) PROVE ElInv'
  <2>1. UNCHANGED <<elcall, eldue, elbox, elhist, elheard, elon, elrev, elswitch>>
    BY <1>8 DEF ElCancel
  <2>2. CASE k \in elpend /\ Remove({k}, "cancel", [q \in ElToks |-> "disconnected"]) /\ UNCHANGED elperm
    <3>1. ElAround'
      BY <1>1, <2>1, <2>2 DEF ElAround
    <3>2. QED BY <1>2, <1>3, <2>1, <2>2, <3>1
  <2>3. CASE elperm' = ElWithout(elperm, k) /\ UNCHANGED <<elpend, elout, eldec, elraced>>
    <3>1. elperm' \in Seq(ElToks) /\ Len(elperm') <= Len(elperm) /\ Len(elperm') \in Nat /\ Len(elperm) \in Nat
      BY <1>1, <2>3, WithoutPermit DEF ElAround
    <3>2. Len(elperm') <= ElMaxPermits
      BY <1>1, <3>1, ElAssumption DEF ElAround
    <3>3. ElAround'
      BY <1>1, <2>1, <3>1, <3>2 DEF ElAround
    <3>4. ElTables'
      BY <1>1, <2>1, <2>3 DEF ElTables, ElAnswers, ElRecords, ElPlaces, ElOuts
    <3>5. QED BY <2>1, <2>3, <3>3, <3>4 DEF ElInv, ElOpen, ElDecided, ElMatch
  <2>4. QED BY <1>8, <2>2, <2>3 DEF ElCancel
<1>9. ASSUME NEW k \in ElToks, NEW ans \in {"accept", "decline"}, ElRespond(k, ans) PROVE ElInv'
  <2> DEFINE what == IF ans = "accept" THEN "provided" ELSE "refused"
  <2>1. k \in elpend /\ Remove({k}, ans, [q \in ElToks |-> what])
        /\ UNCHANGED <<elperm, elcall, eldue, elbox, elhist, elheard, elon, elrev, elswitch>>
    BY <1>9 DEF ElRespond
  <2>2. ElAround'
    BY <1>1, <2>1 DEF ElAround
  <2>3. what \in ElRecords \ {"none", "pending"} /\ ElMatch(ans, what) /\ ans \in ElAnswers
    BY <1>9, <1>3
  <2> HIDE DEF what
  <2>4. QED BY <1>2, <2>1, <2>2, <2>3
<1>10. QED BY <1>4, <1>5, <1>6, <1>7, <1>8, <1>9

\* What was decided reaches the history, the waiter and the caller.
LEMMA ElDeliveringStep ==
    ASSUME ElInv, NEW k \in ElToks, ElSettle(k) \/ ElSend(k) \/ ElHear(k)
    PROVE  ElInv'
<1>1. ElAround /\ ElTables /\ ElOpen(k) /\ ElDecided(k)
  BY DEF ElInv
<1>2. CASE ElSettle(k)
  <2>1. /\ elout[k].stage = "history" /\ elhist' = [elhist EXCEPT ![k] = ElSettled(k)]
        /\ elout' = [elout EXCEPT ![k].stage = "send"]
        /\ UNCHANGED <<elperm, elcall, elpend, eldue, elbox, elheard, elon, elrev, elswitch, eldec, elraced>>
    BY <1>2 DEF ElSettle
  <2>2. ElAround'
    BY <1>1, <2>1 DEF ElAround
  <2>3. elout[k] \in ElOuts /\ elhist[k] \in ElRecords
    BY <1>1 DEF ElTables
  <2>4. ElSettled(k) \in ElRecords
    BY <2>3 DEF ElSettled, ElOuts
  <2>5. /\ elhist' \in [ElToks -> ElRecords] /\ elhist'[k] = ElSettled(k) /\ \A q \in ElToks \ {k} : elhist'[q] = elhist[q]
        /\ elout' \in [ElToks -> ElOuts] /\ \A q \in ElToks \ {k} : elout'[q] = elout[q]
        /\ elout'[k].stage = "send" /\ elout'[k].ans = elout[k].ans /\ elout'[k].as = elout[k].as
    BY <1>1, <2>1, <2>3, <2>4 DEF ElTables, ElOuts
  <2>6. ElTables'
    BY <1>1, <2>1, <2>5 DEF ElTables, ElAnswers, ElRecords, ElPlaces, ElOuts
  <2>7. ElOpen(k)' /\ ElDecided(k)'
    BY <1>1, <2>1, <2>5 DEF ElOpen, ElDecided, ElMatch, ElSettled
  <2>8. QED BY <2>1, <2>2, <2>5, <2>6, <2>7, ElOne
<1>3. CASE ElSend(k)
  <2>1. /\ elout[k].stage = "send" /\ elbox' = [elbox EXCEPT ![k] = elout[k].ans]
        /\ elout' = [elout EXCEPT ![k] = NoOut]
        /\ UNCHANGED <<elperm, elcall, elpend, eldue, elhist, elheard, elon, elrev, elswitch, eldec, elraced>>
    BY <1>3 DEF ElSend
  <2>2. ElAround'
    BY <1>1, <2>1 DEF ElAround
  <2>3. elout[k] \in ElOuts /\ elout[k].ans = eldec[k] /\ eldec[k] # "none"
    BY <1>1, <2>1 DEF ElTables, ElOpen, ElDecided
  <2>4. /\ elbox' \in [ElToks -> ElAnswers \cup {"none"}] /\ elbox'[k] = elout[k].ans
        /\ \A q \in ElToks \ {k} : elbox'[q] = elbox[q]
        /\ elout' \in [ElToks -> ElOuts] /\ \A q \in ElToks \ {k} : elout'[q] = elout[q]
        /\ elout'[k].stage = "none"
    BY <1>1, <2>1, <2>3, ElWords DEF ElTables, ElOuts
  <2>5. ElTables'
    BY <1>1, <2>1, <2>4 DEF ElTables, ElAnswers, ElRecords, ElPlaces, ElOuts
  <2>6. ElOpen(k)' /\ ElDecided(k)'
    BY <1>1, <2>1, <2>3, <2>4 DEF ElOpen, ElDecided, ElMatch
  <2>7. QED BY <2>1, <2>2, <2>4, <2>5, <2>6, ElOne
<1>4. CASE ElHear(k)
  <2>1. /\ elcall[k] = "waiting" /\ elbox[k] # "none" /\ Told(k, elbox[k])
        /\ UNCHANGED <<elperm, elpend, eldue, elout, elbox, elhist, elon, elrev, elswitch, eldec, elraced>>
    BY <1>4 DEF ElHear
  <2>2. ElAround'
    BY <1>1, <2>1 DEF ElAround
  <2>3. /\ elcall' \in [ElToks -> ElPlaces] /\ elcall'[k] = "done" /\ \A q \in ElToks \ {k} : elcall'[q] = elcall[q]
        /\ elheard' \in [ElToks -> ElAnswers \cup {"none"}] /\ elheard'[k] = elbox[k]
        /\ \A q \in ElToks \ {k} : elheard'[q] = elheard[q]
    BY <1>1, <2>1 DEF ElTables, Told, ElPlaces
  <2>4. ElTables'
    BY <1>1, <2>1, <2>3 DEF ElTables, ElAnswers, ElRecords, ElPlaces, ElOuts
  <2>5. ElOpen(k)' /\ ElDecided(k)'
    BY <1>1, <2>1, <2>3 DEF ElOpen, ElDecided, ElMatch
  <2>6. QED BY <2>1, <2>2, <2>3, <2>4, <2>5, ElOne
<1>5. QED BY <1>2, <1>3, <1>4

\* Permits expire, deadlines pass, the connection is switched.
LEMMA ElAroundStep ==
    ASSUME ElInv, ElExpire \/ ElSwitch \/ \E k \in ElToks : ElDeadline(k)
    PROVE  ElInv'
<1>1. ElAround /\ ElTables
  BY DEF ElInv
<1>2. UNCHANGED <<elcall, elpend, elout, elbox, elhist, elheard, eldec, elraced>>
  BY DEF ElExpire, ElSwitch, ElDeadline
<1>3. ElAround'
  <2>1. CASE ElExpire
    <3>1. elperm # <<>> /\ elperm' = Tail(elperm) /\ UNCHANGED <<eldue, elon, elrev, elswitch>>
      BY <2>1 DEF ElExpire
    <3>2. elperm' \in Seq(ElToks) /\ Len(elperm') = Len(elperm) - 1 /\ Len(elperm) \in Nat
      BY <1>1, <3>1 DEF ElAround
    <3>3. Len(elperm') <= ElMaxPermits
      BY <1>1, <3>2, ElAssumption DEF ElAround
    <3>4. QED BY <1>1, <3>1, <3>2, <3>3 DEF ElAround
  <2>2. CASE ElSwitch
    <3>1. /\ elswitch < ElSwitches /\ elswitch' = elswitch + 1 /\ elon' = ~elon
          /\ elrev' = IF elon THEN elrev \cup elpend ELSE elrev
          /\ UNCHANGED <<elperm, eldue>>
      BY <2>2 DEF ElSwitch
    <3>2. elswitch' \in 0 .. ElSwitches
      BY <1>1, <3>1, ElAssumption DEF ElAround
    <3>3. elrev' \subseteq ElToks /\ elon' \in BOOLEAN
      BY <1>1, <3>1 DEF ElAround, ElTables
    <3>4. QED BY <1>1, <3>1, <3>2, <3>3 DEF ElAround
  <2>3. CASE \E k \in ElToks : ElDeadline(k)
    BY <1>1, <2>3 DEF ElAround, ElDeadline
  <2>4. QED BY <2>1, <2>2, <2>3
<1>4. ElTables'
  BY <1>1, <1>2 DEF ElTables, ElAnswers, ElRecords, ElPlaces, ElOuts
<1>5. QED BY <1>2, <1>3, <1>4 DEF ElInv, ElOpen, ElDecided, ElMatch

\* Every step of the registry keeps the invariant.
LEMMA ElInductive == ElInv /\ [ElNext]_elVars => ElInv'
<1> SUFFICES ASSUME ElInv, [ElNext]_elVars PROVE ElInv'
  OBVIOUS
<1>1. CASE UNCHANGED elVars
  BY <1>1 DEF elVars, ElInv, ElAround, ElTables, ElOpen, ElDecided, ElMatch, ElAnswers, ElRecords, ElPlaces, ElOuts
<1>2. CASE ElNext
  <2>1. ASSUME NEW k \in ElToks, ElWork(k) PROVE ElInv'
    BY <2>1, ElAskingStep, ElRemovingStep, ElDeliveringStep DEF ElWork
  <2>2. QED BY <1>2, <2>1, ElAskingStep, ElRemovingStep, ElAroundStep DEF ElNext
<1>3. QED BY <1>1, <1>2

\* The registry starts whole.
LEMMA ElStart == ElInit => ElInv
<1> SUFFICES ASSUME ElInit PROVE ElInv
  OBVIOUS
<1>1. ElAround
  <2>1. elperm \in Seq(ElToks) /\ Len(elperm) = 0
    BY DEF ElInit
  <2>2. QED BY <2>1, ElAssumption DEF ElInit, ElAround
<1>2. ElTables
  <2>1. IsFiniteSet({}) /\ Cardinality({}) = 0
    BY FS_EmptySet
  <2>2. elpend \subseteq ElToks /\ IsFiniteSet(elpend) /\ Cardinality(elpend) <= ElMaxPending /\ elraced \subseteq ElToks
    BY <2>1, ElAssumption DEF ElInit
  <2>3. elout \in [ElToks -> ElOuts]
    BY ElWords DEF ElInit
  <2>4. /\ elcall \in [ElToks -> ElPlaces]
        /\ elbox \in [ElToks -> ElAnswers \cup {"none"}] /\ eldec \in [ElToks -> ElAnswers \cup {"none"}]
        /\ elheard \in [ElToks -> ElAnswers \cup {"none"}] /\ elhist \in [ElToks -> ElRecords]
    BY DEF ElInit, ElPlaces, ElRecords
  <2>5. QED BY <2>2, <2>3, <2>4 DEF ElTables
<1>3. ASSUME NEW k \in ElToks PROVE ElOpen(k) /\ ElDecided(k)
  <2>1. elcall[k] = "new" /\ elout[k].stage = "none" /\ elbox[k] = "none" /\ eldec[k] = "none" /\ elheard[k] = "none"
        /\ elhist[k] = "none" /\ elpend = {} /\ elraced = {}
    BY ElWords DEF ElInit
  <2>2. QED BY <2>1 DEF ElOpen, ElDecided
<1>4. QED BY <1>1, <1>2, <1>3 DEF ElInv

\* elicitations.rs: the history the user reads says what the upstream was told, a prompt
\* that has left the queue is closed there, and nobody waits for an answer that cannot come.
THEOREM ElicitationsHold == ElSpec => []ElicitationsSound
<1>1. QED BY ElStart, ElInductive, ElInvMeans, PTL DEF ElSpec

----------------------------------------------------------------------------
(* The registry implements Prompts                                         *)

\* The questions that were put, as Prompts sees them.
ElAsked == {k \in ElToks : k \in elpend \/ eldec[k] # "none"}

\* An answer, once decided, stays; it is only given to what is in the queue, and the
\* caller hears it once, or "cancel".
LEMMA ElPromptStep ==
    ASSUME ElInv, ElInv', [ElNext]_elVars
    PROVE  /\ \A q \in ElToks : q \in elpend /\ eldec'[q] = "none" => q \in elpend'
           /\ \A q \in ElToks : eldec'[q] # eldec[q] => q \in elpend /\ eldec[q] = "none"
           /\ \A q \in ElToks : elheard'[q] # elheard[q] =>
                 elheard[q] = "none" /\ elheard'[q] \in {"cancel", eldec'[q]} \ {"none"}
<1>1. ElTables /\ \A q \in ElToks : ElOpen(q) /\ ElDecided(q)
  BY DEF ElInv
<1>2. ElTables'
  BY DEF ElInv
<1>3. \A q \in ElToks : q \in elpend => eldec[q] = "none"
  BY <1>1 DEF ElOpen
<1>4. \/ UNCHANGED <<elpend, eldec>>
      \/ UNCHANGED eldec /\ \E k : elpend' = elpend \cup {k}
      \/ \E ks \in SUBSET elpend, ans \in ElAnswers : \E as : Remove(ks, ans, as)
  <2>1. CASE UNCHANGED elVars
    BY <2>1 DEF elVars
  <2>2. CASE ElExpire \/ ElSwitch
    BY <2>2 DEF ElExpire, ElSwitch
  <2>3. CASE ElSweep
    <3>1. Remove(Swept, "cancel", Lapsed(Swept)) /\ Swept \in SUBSET elpend
      BY <2>3 DEF ElSweep, Swept
    <3>2. QED BY <3>1, ElWords
  <2>4. ASSUME NEW k \in ElToks,
               ElAsk(k) \/ ElRedeem(k) \/ ElRecord(k) \/ ElSettle(k) \/ ElSend(k) \/ ElHear(k)
                 \/ ElIssue(k) \/ ElDeadline(k) \/ ElDrop(k)
        PROVE  UNCHANGED <<elpend, eldec>>
    BY <2>4 DEF ElAsk, ElRedeem, ElRecord, ElSettle, ElSend, ElHear, ElIssue, ElDeadline, ElDrop
  <2>5. ASSUME NEW k \in ElToks, ElPark(k)
        PROVE  UNCHANGED eldec /\ \E j : elpend' = elpend \/ elpend' = elpend \cup {j}
    BY <2>5 DEF ElPark
  <2>6. ASSUME NEW k \in ElToks,
               \/ ElPublish(k) \/ ElRevoked(k) \/ ElTimer(k) \/ ElTimeout(k) \/ ElCancel(k)
               \/ \E ans \in {"accept", "decline"} : ElRespond(k, ans)
        PROVE  \/ UNCHANGED <<elpend, eldec>>
               \/ k \in elpend /\ \E ans \in ElAnswers : \E as : Remove({k}, ans, as)
    <3>1. CASE ElPublish(k)
      BY <3>1, ElWords DEF ElPublish
    <3>2. CASE ElRevoked(k)
      BY <3>2, ElWords DEF ElRevoked
    <3>3. CASE ElTimer(k)
      BY <3>3, ElWords DEF ElTimer
    <3>4. CASE ElTimeout(k)
      BY <3>4, ElWords DEF ElTimeout
    <3>5. CASE ElCancel(k)
      BY <3>5, ElWords DEF ElCancel
    <3>6. CASE \E ans \in {"accept", "decline"} : ElRespond(k, ans)
      BY <3>6, ElWords DEF ElRespond
    <3>7. QED BY <2>6, <3>1, <3>2, <3>3, <3>4, <3>5, <3>6
  <2>7. ASSUME NEW k \in elpend, \E ans \in ElAnswers : \E as : Remove({k}, ans, as)
        PROVE  \E ks \in SUBSET elpend, ans \in ElAnswers : \E as : Remove(ks, ans, as)
    BY <2>7
  <2>8. QED BY <2>1, <2>2, <2>3, <2>4, <2>5, <2>6, <2>7 DEF ElNext, ElWork
<1>5. /\ \A q \in ElToks : q \in elpend /\ eldec'[q] = "none" => q \in elpend'
      /\ \A q \in ElToks : eldec'[q] # eldec[q] => q \in elpend /\ eldec[q] = "none"
  <2>1. CASE UNCHANGED eldec /\ (UNCHANGED elpend \/ \E k : elpend' = elpend \cup {k})
    BY <2>1
  <2>2. ASSUME NEW ks \in SUBSET elpend, NEW ans \in ElAnswers, NEW as, Remove(ks, ans, as)
        PROVE  /\ \A q \in ElToks : q \in elpend /\ eldec'[q] = "none" => q \in elpend'
               /\ \A q \in ElToks : eldec'[q] # eldec[q] => q \in elpend /\ eldec[q] = "none"
    <3>1. elpend' = elpend \ ks /\ ans # "none"
      BY <2>2, ElWords DEF Remove
    <3>2. \A q \in ElToks : eldec'[q] = IF q \in ks THEN ans ELSE eldec[q]
      BY <2>2 DEF Remove
    <3>3. QED BY <1>3, <3>1, <3>2
  <2>3. QED BY <1>4, <2>1, <2>2
<1>6. \/ UNCHANGED elheard
      \/ \E k \in ElToks : Told(k, "cancel") /\ elcall[k] \in {"issued", "allowed", "redeemed", "recorded", "waiting"}
      \/ \E k \in ElToks : Told(k, elbox[k]) /\ elcall[k] = "waiting" /\ elbox[k] # "none" /\ UNCHANGED eldec
  <2>1. CASE UNCHANGED elVars
    BY <2>1 DEF elVars
  <2>2. CASE ElExpire \/ ElSwitch \/ ElSweep
    BY <2>2 DEF ElExpire, ElSwitch, ElSweep
  <2>3. ASSUME NEW k \in ElToks,
               \/ ElRecord(k) \/ ElSettle(k) \/ ElSend(k) \/ ElIssue(k) \/ ElDeadline(k) \/ ElDrop(k)
               \/ ElRevoked(k) \/ ElTimer(k) \/ ElCancel(k)
               \/ \E ans \in {"accept", "decline"} : ElRespond(k, ans)
        PROVE  UNCHANGED elheard
    BY <2>3 DEF ElRecord, ElSettle, ElSend, ElIssue, ElDeadline, ElDrop, ElRevoked, ElTimer, ElCancel, ElRespond
  <2>4. ASSUME NEW k \in ElToks, ElAsk(k) \/ ElRedeem(k) \/ ElPark(k) \/ ElPublish(k) \/ ElTimeout(k)
        PROVE  UNCHANGED elheard \/ (Told(k, "cancel") /\ elcall[k] \in {"issued", "allowed", "redeemed", "recorded", "waiting"})
    BY <2>4 DEF ElAsk, ElRedeem, ElPark, ElPublish, ElTimeout
  <2>5. ASSUME NEW k \in ElToks, ElHear(k)
        PROVE  Told(k, elbox[k]) /\ elcall[k] = "waiting" /\ elbox[k] # "none" /\ UNCHANGED eldec
    BY <2>5 DEF ElHear
  <2>6. QED BY <2>1, <2>2, <2>3, <2>4, <2>5 DEF ElNext, ElWork
<1>7. \A q \in ElToks : elheard'[q] # elheard[q] =>
         elheard[q] = "none" /\ elheard'[q] \in {"cancel", eldec'[q]} \ {"none"}
  <2>1. \A k \in ElToks : elcall[k] # "done" => elheard[k] = "none"
    BY <1>1 DEF ElDecided
  <2>2. \A k \in ElToks : elbox[k] # "none" => elbox[k] = eldec[k]
    BY <1>1 DEF ElDecided
  <2>3. ASSUME NEW k \in ElToks, NEW what, Told(k, what)
        PROVE  \A q \in ElToks : elheard'[q] = IF q = k THEN what ELSE elheard[q]
    BY <1>1, <2>3 DEF Told, ElTables
  <2>4. QED BY <1>6, <2>1, <2>2, <2>3
<1>8. QED BY <1>5, <1>7

\* elicitations.rs as Prompts: a question is put once, decided once and answered once,
\* and answered with the user's words only if they are the user's words.
THEOREM ElicitationsArePrompts == ElSpec => ElKeepsPromise
<1>1. ElInit => ElPrompts!Init
  <2>1. ASSUME ElInit PROVE ElAsked = {} /\ [k \in ElToks |-> elheard[k]] = [k \in ElToks |-> "none"]
    BY <2>1 DEF ElInit, ElAsked
  <2>2. QED BY <2>1 DEF ElInit, ElAsked, ElPrompts!Init
<1>2. ElInv /\ ElInv' /\ [ElNext]_elVars => [ElPrompts!Next]_(ElPrompts!promptVars)
  <2> SUFFICES ASSUME ElInv, ElInv', [ElNext]_elVars PROVE ElPrompts!Next
    OBVIOUS
  <2>1. /\ \A q \in ElToks : q \in elpend /\ eldec'[q] = "none" => q \in elpend'
        /\ \A q \in ElToks : eldec'[q] # eldec[q] => q \in elpend /\ eldec[q] = "none"
        /\ \A q \in ElToks : elheard'[q] # elheard[q] =>
              elheard[q] = "none" /\ elheard'[q] \in {"cancel", eldec'[q]} \ {"none"}
    BY ElPromptStep
  <2>2. eldec' \in [ElToks -> ElAnswers \cup {"none"}] /\ ElAnswers = ElPrompts!Answers
    BY DEF ElInv, ElTables, ElAnswers, ElPrompts!Answers
  <2>3. ElAsked \subseteq ElAsked'
    BY <2>1 DEF ElAsked
  <2>4. ASSUME NEW q \in ElToks, eldec'[q] # eldec[q]
        PROVE  eldec[q] = "none" /\ q \in ElAsked' /\ eldec'[q] \in ElPrompts!Answers
    BY <2>1, <2>2, <2>4 DEF ElAsked
  <2>5. QED BY <2>1, <2>2, <2>3, <2>4 DEF ElAsked, ElPrompts!Next
<1>3. QED BY <1>1, <1>2, ElStart, ElInductive, PTL DEF ElSpec, ElKeepsPromise, ElPrompts!Spec

----------------------------------------------------------------------------
(* The calls of an MCP session                                             *)

\* A call as it can be.
CaPcs == {"none", "start", "initing", "ready", "calling", "closing", "asking", "ending",
          "done", "cancelled", "dropped"}
CaRecs == [pc : CaPcs, id : CaIds \cup {"none"}, round : 0 .. CaRounds, sess : BOOLEAN,
           res : {"none", "result", "failed", "input"}, left : 0 .. CaPrompts,
           term : BOOLEAN, fwd : BOOLEAN,
           sig : [by : {"none", "cancel", "replaced"}, at : CaPcs]]
CaEntries == [st : {"none", "live", "cancelled"}, owner : CaCalls \cup {"none"},
              ups : SUBSET (CaCalls \X Nat \X BOOLEAN)]

\* The state has its shape, and a call that began has an id.
CaShape ==
    /\ cacall \in [CaCalls -> CaRecs] /\ caact \in [CaIds -> CaEntries]
    /\ caopen \subseteq CaCalls \X Nat /\ carun \subseteq CaCalls \X Nat
    /\ calost \subseteq CaCalls \X Nat /\ cajobs \subseteq CaCalls \X Nat \X BOOLEAN
    /\ \A k \in CaCalls : cacall[k].pc # "none" => cacall[k].id \in CaIds

\* The request a call has at the server, as the table has it.
Item(k) == <<k, cacall[k].round, cacall[k].sess>>

\* A call under way: it is asked of only as long as no refusal was forwarded; it knows
\* the session it has at the server; the table has the request it waits for; and when
\* it was cancelled there, the request is passed on or has been.
CaBook(k) ==
    /\ cacall[k].pc = "asking" => ~cacall[k].fwd /\ cacall[k].left # 0
    /\ cacall[k].pc \in {"ready", "calling", "closing"} /\ Sess(k) \in caopen =>
           cacall[k].sess \/ Sess(k) \in calost
    /\ cacall[k].pc = "calling" /\ caact[cacall[k].id].owner = k =>
           Item(k) \in caact[cacall[k].id].ups
    /\ cacall[k].pc = "calling" /\ cacall[k].sig = [by |-> "cancel", at |-> "calling"] =>
           \/ Item(k) \in cajobs
           \/ Sess(k) \notin carun /\ (Sess(k) \in caopen => Sess(k) \in calost)

\* An entry of the table names a call under its id that has not ended by itself.
CaOwned(i) ==
    caact[i].owner \in CaCalls =>
        /\ caact[i].st # "none" /\ cacall[caact[i].owner].id = i
        /\ cacall[caact[i].owner].pc \notin {"none", "done", "cancelled"}

\* A session that is open belongs to a round that still has to close it.
CaCloses(s) ==
    \/ s \in calost
    \/ cacall[s[1]].round = s[2] /\ cacall[s[1]].pc \in {"initing", "ready", "calling", "closing"}
    \/ <<s[1], s[2], TRUE>> \in cajobs

\* A request the server works on is waited for.
CaWaited(s) ==
    \/ s \in calost
    \/ cacall[s[1]].round = s[2] /\ cacall[s[1]].pc = "calling"
    \/ <<s[1], s[2], TRUE>> \in cajobs \/ <<s[1], s[2], FALSE>> \in cajobs

\* The inductive invariant.
CaInv ==
    /\ CaShape
    /\ \A k \in CaCalls : CaBook(k)
    /\ \A i \in CaIds : CaOwned(i)
    /\ \A s \in caopen : CaCloses(s)
    /\ \A s \in carun : CaWaited(s)

\* The words of the model that are compared by name.
LEMMA CaWords ==
    /\ CaFaults \subseteq {"drop", "dup", "close", "init"} /\ CaRounds \in Nat \ {0} /\ CaPrompts \in Nat
    /\ "none" \notin CaCalls /\ "none" \notin CaIds
BY CaAssumption

\* What a step of one call does to the table: other calls keep what they have there.
CaTabled(k) ==
    /\ caact' \in [CaIds -> CaEntries]
    /\ \A i \in CaIds :
          \/ caact'[i].owner = "none"
          \/ /\ caact'[i].owner = caact[i].owner /\ caact'[i].st = caact[i].st
             /\ \A j \in caact[i].ups : j[1] # k => j \in caact'[i].ups

\* What a signal keeps of a call.
CaSame(x) ==
    /\ cacall'[x].pc = cacall[x].pc /\ cacall'[x].id = cacall[x].id
    /\ cacall'[x].round = cacall[x].round /\ cacall'[x].sess = cacall[x].sess
    /\ cacall'[x].fwd = cacall[x].fwd /\ cacall'[x].left = cacall[x].left

\* One call becomes another; the rest stays, but for a signal that a dropped sender is.
CaTurn(k, c) ==
    /\ cacall' \in [CaCalls -> CaRecs] /\ cacall'[k] = c
    /\ \A x \in CaCalls : x # k =>
         /\ CaSame(x)
         /\ cacall'[x].sig = cacall[x].sig \/ cacall'[x].sig.by = "replaced"

\* That is what a step of a call does, with its entry removed or another's taken, or not.
LEMMA CaTurns ==
    ASSUME CaInv, NEW k \in CaCalls, NEW c \in CaRecs, NEW n \in CaIds,
           cacall' = [cacall EXCEPT ![k] = c] \/ cacall' = [SenderGone(n) EXCEPT ![k] = c]
    PROVE  CaTurn(k, c)
<1>1. cacall \in [CaCalls -> CaRecs]
  BY DEF CaInv, CaShape
<1>2. /\ SenderGone(n) \in [CaCalls -> CaRecs]
      /\ \A x \in CaCalls : \/ SenderGone(n)[x] = cacall[x]
                            \/ SenderGone(n)[x] = [cacall[x] EXCEPT !.sig = [by |-> "replaced", at |-> cacall[x].pc]]
  <2>1. ASSUME NEW x \in CaCalls
        PROVE  [cacall[x] EXCEPT !.sig = [by |-> "replaced", at |-> cacall[x].pc]] \in CaRecs
    <3> DEFINE g == [by |-> "replaced", at |-> cacall[x].pc]
    <3>1. g \in [by : {"none", "cancel", "replaced"}, at : CaPcs]
      BY <1>1 DEF CaRecs
    <3> HIDE DEF g
    <3>2. [cacall[x] EXCEPT !.sig = g] \in CaRecs
      BY <1>1, <3>1 DEF CaRecs
    <3>3. QED BY <3>2 DEF g
  <2>2. QED BY <1>1, <2>1 DEF SenderGone
<1>3. ASSUME NEW x \in CaCalls, x # k
      PROVE  \/ cacall'[x] = cacall[x]
             \/ cacall'[x] = [cacall[x] EXCEPT !.sig = [by |-> "replaced", at |-> cacall[x].pc]]
  BY <1>1, <1>2, <1>3
<1>4. cacall' \in [CaCalls -> CaRecs] /\ cacall'[k] = c
  BY <1>1, <1>2
<1>5. ASSUME NEW x \in CaCalls, x # k
      PROVE  CaSame(x) /\ (cacall'[x].sig = cacall[x].sig \/ cacall'[x].sig.by = "replaced")
  <2>1. cacall[x] \in CaRecs
    BY <1>1
  <2>2. CASE cacall'[x] = cacall[x]
    BY <2>1, <2>2 DEF CaSame
  <2>3. CASE cacall'[x] = [cacall[x] EXCEPT !.sig = [by |-> "replaced", at |-> cacall[x].pc]]
    <3> DEFINE d == cacall'[x]
               g == [by |-> "replaced", at |-> cacall[x].pc]
    <3>1. d = [cacall[x] EXCEPT !.sig = g]
      BY <2>3
    <3>2. g.by = "replaced"
      OBVIOUS
    <3> HIDE DEF d, g
    <3>3. d.sig = g
      BY <2>1, <3>1 DEF CaRecs
    <3>4. /\ d.pc = cacall[x].pc /\ d.id = cacall[x].id /\ d.round = cacall[x].round
          /\ d.sess = cacall[x].sess /\ d.fwd = cacall[x].fwd /\ d.left = cacall[x].left
      BY <2>1, <3>1 DEF CaRecs
    <3>5. QED BY <3>2, <3>3, <3>4 DEF CaSame, d
  <2>4. QED BY <1>3, <1>5, <2>2, <2>3
<1>6. QED BY <1>4, <1>5 DEF CaTurn

\* What a step of one call does to the rest: it takes nothing from the other calls, it
\* may give up its entry, and what it leaves at the server it accounts for.
CaMove(k, c) ==
    /\ c \in CaRecs /\ c.id = cacall[k].id /\ c.id \in CaIds /\ c.pc # "none"
    /\ CaTurn(k, c)
    /\ cajobs' = cajobs
    /\ calost \subseteq calost' /\ calost' \subseteq CaCalls \X Nat
    /\ CaTabled(k)
    /\ c.pc \in {"done", "cancelled"} => caact'[c.id].owner = "none"
    /\ caopen' \subseteq caopen \cup {Sess(k)} /\ carun' \subseteq carun \cup {Sess(k)}
    /\ Sess(k) \in caopen' =>
          \/ Sess(k) \in calost'
          \/ c.round = cacall[k].round /\ c.pc \in {"initing", "ready", "calling", "closing"}
          \/ <<k, cacall[k].round, TRUE>> \in cajobs
    /\ Sess(k) \in carun' =>
          \/ Sess(k) \in calost'
          \/ c.round = cacall[k].round /\ c.pc = "calling"
          \/ <<k, cacall[k].round, TRUE>> \in cajobs \/ <<k, cacall[k].round, FALSE>> \in cajobs

\* A call moves: the invariant stays, when it does for that call.
LEMMA CaMoves ==
    ASSUME CaInv, NEW k \in CaCalls, NEW c, CaMove(k, c), CaBook(k)'
    PROVE  CaInv'
<1>1. cacall \in [CaCalls -> CaRecs] /\ caact \in [CaIds -> CaEntries]
  BY DEF CaInv, CaShape
<1>2. /\ cacall'[k] = c
      /\ \A q \in CaCalls : q # k =>
           CaSame(q) /\ (cacall'[q].sig = cacall[q].sig \/ cacall'[q].sig.by = "replaced")
  BY DEF CaMove, CaTurn
<1>3. Sess(k) \in CaCalls \X Nat
  BY <1>1, CaWords DEF CaRecs, Sess
<1>4. CaShape'
  <2>1. cacall' \in [CaCalls -> CaRecs]
    BY DEF CaMove, CaTurn
  <2>2. \A q \in CaCalls : cacall'[q].pc # "none" => cacall'[q].id \in CaIds
    BY <1>2 DEF CaMove, CaInv, CaShape, CaSame
  <2>3. caopen' \subseteq CaCalls \X Nat /\ carun' \subseteq CaCalls \X Nat
    BY <1>3 DEF CaMove, CaInv, CaShape
  <2>4. cajobs' \subseteq CaCalls \X Nat \X BOOLEAN
    BY DEF CaMove, CaInv, CaShape
  <2>5. QED BY <2>1, <2>2, <2>3, <2>4 DEF CaMove, CaTabled, CaShape
<1>5. ASSUME NEW q \in CaCalls, q # k PROVE CaBook(q)'
  <2>1. CaSame(q) /\ (cacall'[q].sig = cacall[q].sig \/ cacall'[q].sig.by = "replaced")
    BY <1>2, <1>5
  <2>2. Sess(q)' = Sess(q) /\ Item(q)' = Item(q) /\ Sess(q) # Sess(k)
    BY <1>5, <2>1 DEF Sess, Item, CaSame
  <2>3. CaBook(q)
    BY DEF CaInv
  <2>4. (cacall[q].pc = "asking" => ~cacall[q].fwd /\ cacall[q].left # 0)'
    BY <2>1, <2>3 DEF CaBook, CaSame
  <2>5. cacall[q].pc \in {"ready", "calling", "closing"} /\ Sess(q) \in caopen' =>
           cacall[q].sess \/ Sess(q) \in calost'
    BY <2>2, <2>3 DEF CaBook, CaMove
  <2>6. cacall[q].pc = "calling" /\ cacall[q].sig = [by |-> "cancel", at |-> "calling"] =>
           \/ Item(q) \in cajobs'
           \/ Sess(q) \notin carun' /\ (Sess(q) \in caopen' => Sess(q) \in calost')
    BY <2>2, <2>3 DEF CaBook, CaMove
  <2>7. cacall[q].pc = "calling" /\ caact'[cacall[q].id].owner = q =>
           Item(q) \in caact'[cacall[q].id].ups
    <3>1. SUFFICES ASSUME cacall[q].pc = "calling", caact'[cacall[q].id].owner = q
                   PROVE  Item(q) \in caact'[cacall[q].id].ups
      OBVIOUS
    <3>2. cacall[q].id \in CaIds
      BY <3>1 DEF CaInv, CaShape
    <3>3. /\ caact[cacall[q].id].owner = q
          /\ \A j \in caact[cacall[q].id].ups : j[1] # k => j \in caact'[cacall[q].id].ups
      BY <3>1, <3>2, CaWords DEF CaMove, CaTabled
    <3>4. Item(q) \in caact[cacall[q].id].ups /\ Item(q)[1] = q
      BY <2>3, <3>1, <3>3 DEF CaBook, Item
    <3>5. QED BY <1>5, <3>3, <3>4
  <2>8. cacall'[q].sig = [by |-> "cancel", at |-> "calling"] => cacall'[q].sig = cacall[q].sig
    BY <2>1
  <2>9. QED BY <2>1, <2>2, <2>4, <2>5, <2>6, <2>7, <2>8 DEF CaBook, CaSame
<1>6. ASSUME NEW i \in CaIds PROVE CaOwned(i)'
  <2>1. SUFFICES ASSUME caact'[i].owner \in CaCalls
                 PROVE  /\ caact'[i].st # "none" /\ cacall'[caact'[i].owner].id = i
                        /\ cacall'[caact'[i].owner].pc \notin {"none", "done", "cancelled"}
    BY DEF CaOwned
  <2>2. caact'[i].owner = caact[i].owner /\ caact'[i].st = caact[i].st
    BY <2>1, CaWords DEF CaMove, CaTabled
  <2>3. /\ caact[i].st # "none" /\ cacall[caact[i].owner].id = i
        /\ cacall[caact[i].owner].pc \notin {"none", "done", "cancelled"}
    BY <2>1, <2>2 DEF CaInv, CaOwned
  <2>4. CASE caact[i].owner = k
    BY <1>2, <2>1, <2>2, <2>3, <2>4, CaWords DEF CaMove
  <2>5. CASE caact[i].owner # k
    BY <1>2, <2>1, <2>2, <2>3, <2>5 DEF CaSame
  <2>6. QED BY <2>4, <2>5
<1>7. ASSUME NEW s \in caopen' PROVE CaCloses(s)'
  <2>1. CASE s = Sess(k)
    BY <1>2, <1>7, <2>1 DEF CaMove, CaCloses, Sess
  <2>2. CASE s # Sess(k)
    <3>1. s \in caopen /\ s = <<s[1], s[2]>> /\ s[1] \in CaCalls
      BY <1>7, <2>2 DEF CaMove, CaInv, CaShape
    <3>2. CaCloses(s)
      BY <3>1 DEF CaInv
    <3>3. CASE s[1] = k
      BY <2>2, <3>1, <3>2, <3>3 DEF CaCloses, CaMove, Sess
    <3>4. CASE s[1] # k
      BY <1>2, <3>1, <3>2, <3>4 DEF CaCloses, CaMove, CaSame
    <3>5. QED BY <3>3, <3>4
  <2>3. QED BY <2>1, <2>2
<1>8. ASSUME NEW s \in carun' PROVE CaWaited(s)'
  <2>1. CASE s = Sess(k)
    BY <1>2, <1>8, <2>1 DEF CaMove, CaWaited, Sess
  <2>2. CASE s # Sess(k)
    <3>1. s \in carun /\ s = <<s[1], s[2]>> /\ s[1] \in CaCalls
      BY <1>8, <2>2 DEF CaMove, CaInv, CaShape
    <3>2. CaWaited(s)
      BY <3>1 DEF CaInv
    <3>3. CASE s[1] = k
      BY <2>2, <3>1, <3>2, <3>3 DEF CaWaited, CaMove, Sess
    <3>4. CASE s[1] # k
      BY <1>2, <3>1, <3>2, <3>4 DEF CaWaited, CaMove, CaSame
    <3>5. QED BY <3>3, <3>4
  <2>3. QED BY <2>1, <2>2
<1>9. QED BY <1>4, <1>5, <1>6, <1>7, <1>8 DEF CaInv

\* Recording, clearing and giving up touch the items of the call itself.
LEMMA CaTables ==
    ASSUME CaInv, NEW k \in CaCalls, cacall[k].id \in CaIds,
           NEW s \in CaCalls \X Nat \X BOOLEAN, s[1] = k
    PROVE  /\ caact' = caact \/ caact' = Clear(k, s) => CaTabled(k)
           /\ caact' = Record(k, s) =>
                 /\ CaTabled(k)
                 /\ caact'[cacall[k].id].st # "none" => s \in caact'[cacall[k].id].ups
           /\ caact' = [caact EXCEPT ![cacall[k].id] = CaNoEntry] => CaTabled(k) /\ caact'[cacall[k].id].owner = "none"
<1> DEFINE n == cacall[k].id
           more == [caact[n] EXCEPT !.ups = @ \cup {s}]
           less == [caact[n] EXCEPT !.ups = @ \ {s}]
<1>1. caact \in [CaIds -> CaEntries] /\ n \in CaIds
  BY DEF CaInv, CaShape
<1>2. caact[n] \in CaEntries /\ CaNoEntry \in CaEntries /\ CaNoEntry.owner = "none"
  BY <1>1 DEF CaEntries, CaNoEntry
<1>3. /\ more \in CaEntries /\ more.owner = caact[n].owner /\ more.st = caact[n].st
      /\ more.ups = caact[n].ups \cup {s}
  BY <1>2 DEF CaEntries
<1>4. /\ less \in CaEntries /\ less.owner = caact[n].owner /\ less.st = caact[n].st
      /\ less.ups = caact[n].ups \ {s}
  BY <1>2 DEF CaEntries
<1>5. Record(k, s) = IF caact[n].st = "none" THEN caact ELSE [caact EXCEPT ![n] = more]
  BY DEF Record
<1>6. Clear(k, s) = IF caact[n].st = "none" THEN caact ELSE [caact EXCEPT ![n] = less]
  BY DEF Clear
<1> HIDE DEF n, more, less
<1>8. caact' = caact => CaTabled(k)
  BY <1>1 DEF CaTabled
<1>9. caact' = [caact EXCEPT ![n] = less] => CaTabled(k)
  <2>1. SUFFICES ASSUME caact' = [caact EXCEPT ![n] = less] PROVE CaTabled(k)
    OBVIOUS
  <2>2. \A i \in CaIds : caact'[i] = IF i = n THEN less ELSE caact[i]
    BY <1>1, <2>1
  <2>3. QED BY <1>1, <1>4, <2>1, <2>2 DEF CaTabled
<1>10. caact' = [caact EXCEPT ![n] = more] => CaTabled(k) /\ s \in caact'[n].ups
  <2>1. SUFFICES ASSUME caact' = [caact EXCEPT ![n] = more] PROVE CaTabled(k) /\ s \in caact'[n].ups
    OBVIOUS
  <2>2. \A i \in CaIds : caact'[i] = IF i = n THEN more ELSE caact[i]
    BY <1>1, <2>1
  <2>3. QED BY <1>1, <1>3, <2>1, <2>2 DEF CaTabled
<1>11. caact' = [caact EXCEPT ![n] = CaNoEntry] => CaTabled(k) /\ caact'[n].owner = "none"
  <2>1. SUFFICES ASSUME caact' = [caact EXCEPT ![n] = CaNoEntry]
                 PROVE  CaTabled(k) /\ caact'[n].owner = "none"
    OBVIOUS
  <2>2. \A i \in CaIds : caact'[i] = IF i = n THEN CaNoEntry ELSE caact[i]
    BY <1>1, <2>1
  <2>3. QED BY <1>1, <1>2, <2>1, <2>2 DEF CaTabled
<1>12. caact' = Record(k, s) => CaTabled(k) /\ (caact'[n].st # "none" => s \in caact'[n].ups)
  BY <1>5, <1>8, <1>10
<1>13. caact' = Clear(k, s) => CaTabled(k)
  BY <1>6, <1>8, <1>9
<1>14. QED BY <1>8, <1>11, <1>12, <1>13 DEF n

\* What a call at one of its steps is, and that it keeps its shape when it moves on.
LEMMA CaAt ==
    ASSUME CaInv, NEW k \in CaCalls, cacall[k].pc # "none"
    PROVE  /\ cacall[k] \in CaRecs /\ cacall[k].id \in CaIds
           /\ cacall[k].round \in Nat /\ Sess(k) \in CaCalls \X Nat
           /\ \A b \in BOOLEAN : <<k, cacall[k].round, b>> \in CaCalls \X Nat \X BOOLEAN
           /\ Left(k) \subseteq CaCalls \X Nat
           /\ \A pc \in CaPcs : [cacall[k] EXCEPT !.pc = pc] \in CaRecs
           /\ \A res \in {"none", "result", "failed", "input"}, n \in 0 .. CaPrompts :
                 /\ [cacall[k] EXCEPT !.pc = "closing", !.res = res] \in CaRecs
                 /\ [cacall[k] EXCEPT !.pc = "closing", !.res = res, !.left = n] \in CaRecs
           /\ \A b \in BOOLEAN : [cacall[k] EXCEPT !.pc = "ready", !.sess = b] \in CaRecs
           /\ \A pc \in {"done", "cancelled", "dropped"} :
                 [NoCall EXCEPT !.pc = pc, !.id = cacall[k].id] \in CaRecs
<1>1. cacall[k] \in CaRecs /\ cacall[k].id \in CaIds
  BY DEF CaInv, CaShape
<1>2. cacall[k].round \in Nat /\ Sess(k) \in CaCalls \X Nat
  BY <1>1, CaWords DEF CaRecs, Sess
<1>3. \A b \in BOOLEAN : <<k, cacall[k].round, b>> \in CaCalls \X Nat \X BOOLEAN
  BY <1>2
<1>4. Left(k) \subseteq CaCalls \X Nat
  BY <1>2 DEF Left
<1>5. \A pc \in CaPcs : [cacall[k] EXCEPT !.pc = pc] \in CaRecs
  BY <1>1 DEF CaRecs
<1>6. \A res \in {"none", "result", "failed", "input"}, n \in 0 .. CaPrompts :
                 /\ [cacall[k] EXCEPT !.pc = "closing", !.res = res] \in CaRecs
                 /\ [cacall[k] EXCEPT !.pc = "closing", !.res = res, !.left = n] \in CaRecs
  BY <1>1 DEF CaRecs, CaPcs
<1>7. \A b \in BOOLEAN : [cacall[k] EXCEPT !.pc = "ready", !.sess = b] \in CaRecs
  BY <1>1 DEF CaRecs, CaPcs
<1>8. \A pc \in {"done", "cancelled", "dropped"} :
                 [NoCall EXCEPT !.pc = pc, !.id = cacall[k].id] \in CaRecs
  <2>1. NoCall \in CaRecs
    <3>1. NoSignal \in [by : {"none", "cancel", "replaced"}, at : CaPcs]
      BY DEF NoSignal, CaPcs
    <3>2. 0 \in 0 .. CaRounds /\ 0 \in 0 .. CaPrompts
      BY CaWords
    <3>3. QED BY <3>1, <3>2 DEF NoCall, CaRecs, CaPcs
  <2>2. QED BY <1>1, <2>1 DEF CaRecs, CaPcs
<1>9. QED BY <1>1, <1>2, <1>3, <1>4, <1>5, <1>6, <1>7, <1>8

\* What a call is once its input was sought, or its round is over.
LEMMA CaRounding ==
    ASSUME CaInv, NEW k \in CaCalls, cacall[k].pc # "none",
           NEW d \in CaRecs, d.id = cacall[k].id
    PROVE  /\ NextRound(d) \in CaRecs /\ NextRound(d).id = d.id
           /\ NextRound(d).pc \in {"start", "ending"}
           /\ \A c \in AfterRound(d) :
                 /\ c \in CaRecs /\ c.id = d.id /\ c.pc \in {"start", "ending", "asking"}
                 /\ c.pc = "asking" => ~c.fwd /\ c.left # 0
<1>1. CaRounds \in Nat /\ d.round \in 0 .. CaRounds
  BY CaWords DEF CaRecs
<1>3. d.round # CaRounds => NextRound(d) \in CaRecs /\ NextRound(d).id = d.id /\ NextRound(d).pc = "start"
  <2>1. SUFFICES ASSUME d.round # CaRounds
                 PROVE  NextRound(d) \in CaRecs /\ NextRound(d).id = d.id /\ NextRound(d).pc = "start"
    OBVIOUS
  <2>2. d.round + 1 \in 0 .. CaRounds /\ 0 \in 0 .. CaPrompts
    BY <1>1, <2>1, CaWords
  <2>3. NextRound(d) = [d EXCEPT !.pc = "start", !.round = @ + 1, !.res = "none", !.sess = FALSE,
                                 !.fwd = d.term, !.term = FALSE, !.left = 0]
    BY <2>1 DEF NextRound
  <2>4. d.id \in CaIds \cup {"none"} /\ d.term \in BOOLEAN
        /\ d.sig \in [by : {"none", "cancel", "replaced"}, at : CaPcs]
    BY DEF CaRecs
  <2>5. NextRound(d) = [pc |-> "start", id |-> d.id, round |-> d.round + 1, sess |-> FALSE,
                        res |-> "none", left |-> 0, term |-> FALSE, fwd |-> d.term, sig |-> d.sig]
    BY <2>3 DEF CaRecs
  <2>6. "start" \in CaPcs
    BY DEF CaPcs
  <2>7. QED BY <2>2, <2>4, <2>5, <2>6 DEF CaRecs
<1>4. NextRound(d) \in CaRecs /\ NextRound(d).id = d.id /\ NextRound(d).pc \in {"start", "ending"}
  <2>1. d.round = CaRounds => NextRound(d) \in CaRecs /\ NextRound(d).id = d.id /\ NextRound(d).pc = "ending"
    BY DEF NextRound, CaRecs, CaPcs
  <2>2. QED BY <1>3, <2>1
<1>5. /\ [d EXCEPT !.pc = "ending"] \in CaRecs /\ [d EXCEPT !.pc = "ending"].id = d.id
      /\ [d EXCEPT !.pc = "ending"].pc = "ending"
      /\ [d EXCEPT !.pc = "asking"] \in CaRecs /\ [d EXCEPT !.pc = "asking"].id = d.id
      /\ [d EXCEPT !.pc = "asking"].pc = "asking"
      /\ [d EXCEPT !.pc = "asking"].fwd = d.fwd /\ [d EXCEPT !.pc = "asking"].left = d.left
  BY DEF CaRecs, CaPcs
<1>6. ASSUME NEW c \in AfterRound(d)
      PROVE  /\ c \in CaRecs /\ c.id = d.id /\ c.pc \in {"start", "ending", "asking"}
             /\ c.pc = "asking" => ~c.fwd /\ c.left # 0
  <2>1. \/ c = [d EXCEPT !.pc = "ending"] \/ c = NextRound(d)
        \/ c = [d EXCEPT !.pc = "asking"] /\ ~d.fwd /\ d.left # 0
    BY <1>6 DEF AfterRound, WantsInput
  <2>2. QED BY <1>4, <1>5, <2>1
<1>7. QED BY <1>4, <1>6

\* The first state.
LEMMA CaStart == CaInit => CaInv
<1> SUFFICES ASSUME CaInit PROVE CaInv
  OBVIOUS
<1>1. NoCall \in CaRecs /\ NoCall.pc = "none"
  <2>1. NoSignal \in [by : {"none", "cancel", "replaced"}, at : CaPcs]
    BY DEF NoSignal, CaPcs
  <2>2. 0 \in 0 .. CaRounds /\ 0 \in 0 .. CaPrompts
    BY CaWords
  <2>3. QED BY <2>1, <2>2 DEF NoCall, CaRecs, CaPcs
<1>2. CaNoEntry \in CaEntries /\ CaNoEntry.owner \notin CaCalls
  BY CaWords DEF CaNoEntry, CaEntries
<1>3. CaShape
  BY <1>1, <1>2 DEF CaInit, CaShape
<1>4. \A k \in CaCalls : CaBook(k)
  BY <1>1 DEF CaInit, CaBook
<1>5. \A i \in CaIds : CaOwned(i)
  BY <1>2 DEF CaInit, CaOwned
<1>6. QED BY <1>3, <1>4, <1>5 DEF CaInit, CaInv

\* What a call has at the server, by where it is.
LEMMA CaHas ==
    ASSUME CaInv, NEW k \in CaCalls
    PROVE  /\ Sess(k) \in caopen =>
                 \/ Sess(k) \in calost \/ <<k, cacall[k].round, TRUE>> \in cajobs
                 \/ cacall[k].pc \in {"initing", "ready", "calling", "closing"}
           /\ Sess(k) \in carun =>
                 \/ Sess(k) \in calost \/ cacall[k].pc = "calling"
                 \/ <<k, cacall[k].round, TRUE>> \in cajobs \/ <<k, cacall[k].round, FALSE>> \in cajobs
           /\ calost \subseteq CaCalls \X Nat
BY DEF CaInv, CaShape, CaCloses, CaWaited, Sess

\* A step that ends the round, the call or its wait for the user and leaves the server
\* alone.
LEMMA CaLeaves ==
    ASSUME CaInv, NEW k \in CaCalls, NEW c \in CaRecs, cacall[k].pc # "none",
           c.id = cacall[k].id, c.pc \in {"start", "ending", "asking", "done"},
           c.pc = "asking" => ~c.fwd /\ c.left # 0,
           CaTurn(k, c),
           (caact' = caact /\ c.pc # "done") \/ caact' = [caact EXCEPT ![cacall[k].id] = CaNoEntry],
           UNCHANGED cajobs, calost \subseteq calost', calost' \subseteq CaCalls \X Nat,
           caopen' \subseteq caopen, carun' \subseteq carun,
           Sess(k) \in caopen' => cacall[k].pc \in {"start", "asking", "ending"} \/ Sess(k) \in calost',
           Sess(k) \in carun' => cacall[k].pc # "calling"
    PROVE  CaInv'
<1>1. cacall[k] \in CaRecs /\ cacall[k].id \in CaIds
  BY CaAt
<1>2. CaTabled(k) /\ (c.pc = "done" => caact'[c.id].owner = "none")
  BY CaTables, CaAt
<1>3. CaMove(k, c)
  BY <1>1, <1>2, CaHas DEF CaMove
<1>4. cacall'[k] = c
  BY DEF CaTurn
<1>5. CaBook(k)'
  BY <1>4 DEF CaBook
<1>6. QED BY <1>3, <1>5, CaMoves

\* Where a call leaves the broker's own steps or the user: no such name, after its
\* input, refused, at the end.
LEMMA CaQuiet ==
    ASSUME CaInv, NEW k \in CaCalls,
           CaUnbound(k) \/ CaInput(k) \/ CaInputRefused(k) \/ CaFinish(k) \/ CaClose(k)
    PROVE  CaInv'
<1>1. CASE CaUnbound(k) \/ CaInputRefused(k)
  <2>1. cacall[k].pc \in {"start", "asking"}
        /\ cacall' = [cacall EXCEPT ![k] = [cacall[k] EXCEPT !.pc = "ending"]]
        /\ UNCHANGED <<caact, caopen, carun, cajobs, calost>>
    BY <1>1 DEF CaUnbound, CaInputRefused, At, Go
  <2>2. "ending" \in CaPcs
    BY DEF CaPcs
  <2>3. [cacall[k] EXCEPT !.pc = "ending"] \in CaRecs
    BY <2>1, <2>2, CaAt
  <2>4. [cacall[k] EXCEPT !.pc = "ending"].pc = "ending"
        /\ [cacall[k] EXCEPT !.pc = "ending"].id = cacall[k].id
    <3>1. cacall[k] \in CaRecs
      BY <2>1, CaAt
    <3>2. QED BY <3>1 DEF CaRecs
  <2>5. CaTurn(k, [cacall[k] EXCEPT !.pc = "ending"])
    BY <2>1, <2>3, CaAt, CaTurns
  <2>6. QED BY <2>1, <2>3, <2>4, <2>5, CaLeaves, CaHas
<1>2. CASE CaInput(k)
  <2>1. PICK t \in BOOLEAN :
           cacall' = [cacall EXCEPT ![k] =
              IF [cacall[k] EXCEPT !.left = @ - 1, !.term = @ \/ t].left = 0
              THEN NextRound([cacall[k] EXCEPT !.left = @ - 1, !.term = @ \/ t])
              ELSE [cacall[k] EXCEPT !.left = @ - 1, !.term = @ \/ t]]
    BY <1>2 DEF CaInput
  <2> DEFINE d == [cacall[k] EXCEPT !.left = @ - 1, !.term = @ \/ t]
             c == IF d.left = 0 THEN NextRound(d) ELSE d
  <2>2. cacall[k].pc = "asking" /\ UNCHANGED <<caact, caopen, carun, cajobs, calost>>
    BY <1>2 DEF CaInput, At
  <2>3. cacall[k] \in CaRecs /\ ~cacall[k].fwd /\ cacall[k].left # 0
    BY <2>2, CaAt DEF CaInv, CaBook
  <2>4. cacall[k].left - 1 \in 0 .. CaPrompts /\ (cacall[k].term \/ t) \in BOOLEAN
    BY <2>3, CaWords DEF CaRecs
  <2>5. d \in CaRecs /\ d.id = cacall[k].id /\ d.pc = "asking" /\ d.fwd = cacall[k].fwd
    <3> HIDE <2>1
    <3>1. d = [cacall[k] EXCEPT !.left = cacall[k].left - 1, !.term = cacall[k].term \/ t]
      BY <2>3 DEF CaRecs
    <3> HIDE DEF d
    <3>2. QED BY <2>2, <2>3, <2>4, <3>1 DEF CaRecs
  <2>6. cacall' = [cacall EXCEPT ![k] = c]
    BY <2>1
  <2> HIDE DEF d
  <2>7. c \in CaRecs /\ c.id = cacall[k].id /\ c.pc \in {"start", "ending", "asking"}
        /\ (c.pc = "asking" => ~c.fwd /\ c.left # 0)
    BY <2>2, <2>3, <2>5, CaRounding
  <2> HIDE DEF c
  <2>8. CaTurn(k, c)
    BY <2>2, <2>6, <2>7, CaAt, CaTurns
  <2>9. QED BY <2>2, <2>7, <2>8, CaLeaves, CaHas
<1>3. CASE CaFinish(k)
  <2> DEFINE c == [NoCall EXCEPT !.pc = "done", !.id = cacall[k].id]
  <2>1. cacall[k].pc = "ending" /\ cacall' = [SenderGone(cacall[k].id) EXCEPT ![k] = c]
        /\ caact' = [caact EXCEPT ![cacall[k].id] = CaNoEntry]
        /\ UNCHANGED <<caopen, carun, cajobs, calost>>
    BY <1>3 DEF CaFinish, Unregister
  <2>2. c \in CaRecs /\ c.pc = "done" /\ c.id = cacall[k].id
    BY <2>1, CaAt DEF NoCall
  <2> HIDE DEF c
  <2>3. CaTurn(k, c)
    BY <2>1, <2>2, CaAt, CaTurns
  <2>4. QED BY <2>1, <2>2, <2>3, CaLeaves, CaHas
<1>4. CASE CaClose(k)
  <2>1. PICK c \in AfterRound(cacall[k]) : cacall' = [cacall EXCEPT ![k] = c]
    BY <1>4 DEF CaClose
  <2>2. cacall[k].pc = "closing" /\ UNCHANGED <<caact, carun, cajobs>>
    BY <1>4 DEF CaClose, At
  <2>3. c \in CaRecs /\ c.id = cacall[k].id /\ c.pc \in {"start", "ending", "asking"}
        /\ (c.pc = "asking" => ~c.fwd /\ c.left # 0)
    <3>1. cacall[k] \in CaRecs /\ cacall[k].pc # "none"
      BY <2>2, CaAt
    <3>2. QED BY <2>1, <3>1, CaRounding
  <2>4. /\ caopen' \subseteq caopen /\ calost \subseteq calost'
        /\ calost' \subseteq calost \cup Left(k)
    BY <1>4 DEF CaClose
  <2>5. calost' \subseteq CaCalls \X Nat
    BY <2>2, <2>4, CaAt, CaHas
  <2>6. Sess(k) \in caopen' => Sess(k) \in calost'
    <3>1. Sess(k) \in caopen => cacall[k].sess \/ Sess(k) \in calost
      BY <2>2 DEF CaInv, CaBook
    <3>2. CASE caopen' = IF cacall[k].sess THEN caopen \ {Sess(k)} ELSE caopen
      BY <2>4, <3>1, <3>2
    <3>3. CASE calost' = calost \cup Left(k) /\ caopen' = caopen
      BY <3>3 DEF Left
    <3>4. QED BY <1>4, <3>2, <3>3 DEF CaClose
  <2>7. CaTurn(k, c)
    BY <2>1, <2>2, <2>3, CaAt, CaTurns
  <2>8. QED BY <2>2, <2>3, <2>4, <2>5, <2>6, <2>7, CaLeaves
<1>5. QED BY <1>1, <1>2, <1>3, <1>4

\* The broker opens a session for a round, and hears of it.
LEMMA CaOpening ==
    ASSUME CaInv, NEW k \in CaCalls, CaInitialize(k) \/ CaInitialized(k)
    PROVE  CaInv'
<1> DEFINE s == <<k, cacall[k].round, FALSE>>
<1>1. cacall[k].pc \in {"start", "initing"}
  BY DEF CaInitialize, CaInitialized, At
<1>2. cacall[k] \in CaRecs /\ cacall[k].id \in CaIds /\ s \in CaCalls \X Nat \X BOOLEAN /\ s[1] = k
      /\ Left(k) \subseteq CaCalls \X Nat
  BY <1>1, CaAt
<1>3. CASE CaInitialize(k)
  <2> DEFINE c == [cacall[k] EXCEPT !.pc = "initing"]
  <2>1. cacall' = [cacall EXCEPT ![k] = c] /\ caact' = Record(k, s)
        /\ caopen' \subseteq caopen \cup {Sess(k)} /\ UNCHANGED <<carun, cajobs, calost>>
        /\ cacall[k].pc = "start"
    BY <1>3 DEF CaInitialize, Go, At
  <2>2. c \in CaRecs /\ c.pc = "initing" /\ c.id = cacall[k].id /\ c.round = cacall[k].round
    BY <1>2 DEF CaRecs, CaPcs
  <2> HIDE DEF c, s
  <2>3. CaTabled(k)
    BY <1>2, <2>1, CaTables
  <2>4. CaMove(k, c)
    BY <1>2, <2>1, <2>2, <2>3, CaHas, CaTurns DEF CaMove
  <2>5. cacall'[k] = c
    BY <2>1 DEF CaInv, CaShape
  <2>6. CaBook(k)'
    BY <2>2, <2>5 DEF CaBook
  <2>7. QED BY <2>4, <2>6, CaMoves
<1>4. CASE CaInitialized(k) /\ UNCHANGED calost /\ cacall' = [cacall EXCEPT ![k].pc = "ready", ![k].sess = Sess(k) \in caopen]
  <2> DEFINE b == Sess(k) \in caopen
             c == [cacall[k] EXCEPT !.pc = "ready", !.sess = b]
  <2>1. cacall' = [cacall EXCEPT ![k] = c] /\ caact' = Clear(k, s)
        /\ UNCHANGED <<caopen, carun, cajobs, calost>> /\ cacall[k].pc = "initing"
    BY <1>4 DEF CaInitialized, At
  <2>2. c \in CaRecs /\ c.pc = "ready" /\ c.id = cacall[k].id /\ c.round = cacall[k].round
        /\ c.sess = b
    <3>1. b \in BOOLEAN
      OBVIOUS
    <3> HIDE DEF b
    <3>2. c \in CaRecs
      BY <1>1, <3>1, CaAt
    <3>3. QED BY <1>2, <3>1, <3>2 DEF CaRecs
  <2> HIDE DEF c, s
  <2>3. CaTabled(k)
    BY <1>2, <2>1, CaTables
  <2>4. CaMove(k, c)
    BY <1>2, <2>1, <2>2, <2>3, CaHas, CaTurns DEF CaMove
  <2>5. cacall'[k] = c
    BY <2>1 DEF CaInv, CaShape
  <2>6. CaBook(k)'
    BY <2>1, <2>2, <2>5 DEF CaBook, Sess
  <2>7. QED BY <2>4, <2>6, CaMoves
<1>5. CASE CaInitialized(k) /\ calost' = calost \cup Left(k)
             /\ cacall' = [cacall EXCEPT ![k].pc = "closing", ![k].res = "failed"]
  <2> DEFINE c == [cacall[k] EXCEPT !.pc = "closing", !.res = "failed"]
  <2>1. cacall' = [cacall EXCEPT ![k] = c] /\ caact' = Clear(k, s)
        /\ UNCHANGED <<caopen, carun, cajobs>> /\ cacall[k].pc = "initing"
    BY <1>5 DEF CaInitialized, At
  <2>2. c \in CaRecs /\ c.pc = "closing" /\ c.id = cacall[k].id /\ c.round = cacall[k].round
    BY <1>2 DEF CaRecs, CaPcs
  <2> HIDE DEF c, s
  <2>3. CaTabled(k)
    BY <1>2, <2>1, CaTables
  <2>4. CaMove(k, c)
    BY <1>2, <1>5, <2>1, <2>2, <2>3, CaHas, CaTurns DEF CaMove
  <2>5. cacall'[k] = c
    BY <2>1 DEF CaInv, CaShape
  <2>6. Sess(k)' = Sess(k) /\ (Sess(k) \in caopen => Sess(k) \in calost')
    BY <1>5, <2>2, <2>5 DEF Sess, Left
  <2>7. CaBook(k)'
    BY <2>1, <2>2, <2>5, <2>6 DEF CaBook
  <2>8. QED BY <2>4, <2>7, CaMoves
<1>6. QED BY <1>3, <1>4, <1>5 DEF CaInitialized

\* The request of a round goes out, and its answer comes, or the time is up.
LEMMA CaAsking ==
    ASSUME CaInv, NEW k \in CaCalls, CaRequest(k) \/ CaReply(k) \/ CaBudget(k)
    PROVE  CaInv'
<1>1. cacall[k].pc \in {"ready", "initing", "calling", "asking"}
  BY DEF CaRequest, CaReply, CaBudget, At
<1>2. cacall[k] \in CaRecs /\ cacall[k].id \in CaIds /\ Left(k) \subseteq CaCalls \X Nat
      /\ Item(k) \in CaCalls \X Nat \X BOOLEAN /\ Item(k)[1] = k
  <2>1. cacall[k] \in CaRecs /\ cacall[k].id \in CaIds /\ Left(k) \subseteq CaCalls \X Nat
    BY <1>1, CaAt
  <2>2. cacall[k].sess \in BOOLEAN
    BY <2>1 DEF CaRecs
  <2>3. <<k, cacall[k].round, cacall[k].sess>> \in CaCalls \X Nat \X BOOLEAN
    BY <1>1, <2>2, CaAt
  <2>4. QED BY <2>1, <2>3 DEF Item
<1>3. CASE CaRequest(k)
  <2> DEFINE c == [cacall[k] EXCEPT !.pc = "calling"]
  <2>1. cacall' = [cacall EXCEPT ![k] = c] /\ caact' = Record(k, Item(k))
        /\ carun' = carun \cup {Sess(k)} /\ UNCHANGED <<caopen, cajobs, calost>>
        /\ cacall[k].pc = "ready"
        /\ (cacall[k].sig = NoSignal \/ cacall[k].sig.at = "ready")
    BY <1>3 DEF CaRequest, Go, At, Item
  <2>2. c \in CaRecs /\ c.pc = "calling" /\ c.id = cacall[k].id /\ c.round = cacall[k].round
        /\ c.sess = cacall[k].sess /\ c.sig = cacall[k].sig
    BY <1>2 DEF CaRecs, CaPcs
  <2> HIDE DEF c
  <2>3. CaTabled(k) /\ (caact'[cacall[k].id].owner = k => Item(k) \in caact'[cacall[k].id].ups)
    <3>1. CaTabled(k) /\ (caact'[cacall[k].id].st # "none" => Item(k) \in caact'[cacall[k].id].ups)
      BY <1>2, <2>1, CaTables
    <3>2. caact'[cacall[k].id].owner = k => caact'[cacall[k].id].st # "none"
      BY <1>2, <3>1, CaWords DEF CaTabled, CaInv, CaOwned
    <3>3. QED BY <3>1, <3>2
  <2>4. CaMove(k, c)
    BY <1>2, <2>1, <2>2, <2>3, CaHas, CaTurns DEF CaMove
  <2>5. cacall'[k] = c
    BY <2>1 DEF CaInv, CaShape
  <2>6. Sess(k)' = Sess(k) /\ Item(k)' = Item(k)
    BY <2>2, <2>5 DEF Sess, Item
  <2>7. CaBook(k)
    BY DEF CaInv
  <2>8. c.sig # [by |-> "cancel", at |-> "calling"]
    BY <2>1, <2>2 DEF NoSignal
  <2>9. CaBook(k)'
    BY <2>1, <2>2, <2>3, <2>5, <2>6, <2>7, <2>8 DEF CaBook
  <2>10. QED BY <2>4, <2>9, CaMoves
<1>4. ASSUME NEW c \in CaRecs, c.pc = "closing", c.id = cacall[k].id, c.round = cacall[k].round,
             c.sess = cacall[k].sess, cacall' = [cacall EXCEPT ![k] = c],
             caact' = caact \/ caact' = Clear(k, Item(k)), UNCHANGED <<caopen, cajobs>>,
             carun' = carun \ {Sess(k)},
             (cacall[k].pc = "calling" /\ calost' = calost) \/ calost' = calost \cup Left(k)
      PROVE  CaInv'
  <2>1. CaTabled(k)
    BY <1>2, <1>4, CaTables
  <2>2. calost \subseteq calost' /\ calost' \subseteq CaCalls \X Nat
    BY <1>2, <1>4, CaHas
  <2>3. CaMove(k, c)
    BY <1>2, <1>4, <2>1, <2>2, CaHas, CaTurns DEF CaMove
  <2>4. cacall'[k] = c
    BY <1>4 DEF CaInv, CaShape
  <2>5. Sess(k)' = Sess(k)
    BY <1>4, <2>4 DEF Sess
  <2>6. Sess(k) \in caopen => cacall[k].sess \/ Sess(k) \in calost'
    <3>1. CaBook(k)
      BY DEF CaInv
    <3>2. QED BY <1>4, <3>1 DEF CaBook, Left
  <2>7. CaBook(k)'
    BY <1>4, <2>4, <2>5, <2>6 DEF CaBook
  <2>8. QED BY <2>3, <2>7, CaMoves
<1>5. CASE CaReply(k)
  <2>1. PICK res \in {"result", "failed"} \cup {"input"}, n \in 0 .. CaPrompts :
           cacall' = [cacall EXCEPT ![k].pc = "closing", ![k].res = res, ![k].left = n]
    BY <1>5 DEF CaReply
  <2> DEFINE c == [cacall[k] EXCEPT !.pc = "closing", !.res = res, !.left = n]
  <2>2. caact' = Clear(k, Item(k)) /\ UNCHANGED <<caopen, cajobs, calost>>
        /\ carun' = carun \ {Sess(k)} /\ cacall[k].pc = "calling"
    BY <1>5 DEF CaReply, At, Item
  <2>3. c \in CaRecs /\ c.pc = "closing" /\ c.id = cacall[k].id /\ c.round = cacall[k].round
        /\ c.sess = cacall[k].sess
    BY <1>2 DEF CaRecs, CaPcs
  <2>4. cacall' = [cacall EXCEPT ![k] = c]
    BY <2>1
  <2> HIDE DEF c
  <2>5. QED BY <1>4, <2>2, <2>3, <2>4
<1>6. CASE CaBudget(k) /\ cacall[k].pc # "asking"
  <2> DEFINE c == [cacall[k] EXCEPT !.pc = "closing", !.res = "failed"]
  <2>1. cacall' = [cacall EXCEPT ![k] = c] /\ UNCHANGED <<caact, caopen, cajobs>>
        /\ carun' = carun \ {Sess(k)}
        /\ ((cacall[k].pc = "calling" /\ calost' = calost) \/ calost' = calost \cup Left(k))
    BY <1>6 DEF CaBudget, At
  <2>2. c \in CaRecs /\ c.pc = "closing" /\ c.id = cacall[k].id /\ c.round = cacall[k].round
        /\ c.sess = cacall[k].sess
    BY <1>2 DEF CaRecs, CaPcs
  <2> HIDE DEF c
  <2>3. QED BY <1>4, <2>1, <2>2
<1>7. CASE CaBudget(k) /\ cacall[k].pc = "asking"
  <2> DEFINE c == [cacall[k] EXCEPT !.pc = "ending"]
  <2>1. cacall' = [cacall EXCEPT ![k] = c] /\ UNCHANGED <<caact, caopen, cajobs>>
        /\ carun' = carun \ {Sess(k)} /\ calost' = calost
    BY <1>7 DEF CaBudget, At, Go
  <2>2. c \in CaRecs /\ c.pc = "ending" /\ c.id = cacall[k].id
    BY <1>2 DEF CaRecs, CaPcs
  <2> HIDE DEF c
  <2>3. CaTurn(k, c)
    BY <1>2, <2>1, <2>2, CaTurns
  <2>4. QED BY <1>7, <2>1, <2>2, <2>3, CaLeaves, CaHas
<1>8. QED BY <1>3, <1>5, <1>6, <1>7

\* A call ends by its cancellation, or because its client goes away.
LEMMA CaEnding ==
    ASSUME CaInv, NEW k \in CaCalls, CaCancelled(k) \/ CaDrop(k)
    PROVE  CaInv'
<1>1. cacall[k].pc \notin Over /\ cacall[k].pc # "none"
  BY DEF CaCancelled, CaDrop, Running, Over
<1>2. cacall[k] \in CaRecs /\ cacall[k].id \in CaIds /\ Left(k) \subseteq CaCalls \X Nat
  BY <1>1, CaAt
<1>3. ASSUME NEW c \in CaRecs, c.id = cacall[k].id, c.pc \in {"cancelled", "dropped"},
             CaTurn(k, c), UNCHANGED <<caopen, carun, cajobs>>,
             \/ c.pc = "dropped" /\ caact' = caact
             \/ caact' = [caact EXCEPT ![cacall[k].id] = CaNoEntry],
             calost' = calost \cup Left(k)
             \/ (calost' = calost /\ (Sess(k) \in caopen => Sess(k) \in calost \/ <<k, cacall[k].round, TRUE>> \in cajobs)
                 /\ (Sess(k) \in carun => \/ Sess(k) \in calost \/ <<k, cacall[k].round, TRUE>> \in cajobs
                                          \/ <<k, cacall[k].round, FALSE>> \in cajobs))
      PROVE  CaInv'
  <2>1. CaTabled(k) /\ (c.pc = "cancelled" => caact'[c.id].owner = "none")
    BY <1>1, <1>2, <1>3, CaTables, CaAt
  <2>2. calost \subseteq calost' /\ calost' \subseteq CaCalls \X Nat
    BY <1>2, <1>3, CaHas
  <2>3. Sess(k) \in caopen => Sess(k) \in calost' \/ <<k, cacall[k].round, TRUE>> \in cajobs
    BY <1>3 DEF Left
  <2>4. Sess(k) \in carun => \/ Sess(k) \in calost' \/ <<k, cacall[k].round, TRUE>> \in cajobs
                             \/ <<k, cacall[k].round, FALSE>> \in cajobs
    BY <1>3 DEF Left
  <2>5. CaMove(k, c)
    BY <1>2, <1>3, <2>1, <2>2, <2>3, <2>4 DEF CaMove
  <2>6. cacall'[k] = c
    BY <1>3 DEF CaTurn
  <2>7. CaBook(k)'
    BY <1>3, <2>6 DEF CaBook
  <2>8. QED BY <2>5, <2>7, CaMoves
<1>4. CASE CaDrop(k)
  <2> DEFINE c == [NoCall EXCEPT !.pc = "dropped", !.id = cacall[k].id]
  <2>1. cacall' = [cacall EXCEPT ![k] = c] /\ UNCHANGED <<caact, caopen, carun, cajobs>>
        /\ calost' = calost \cup Left(k)
    BY <1>4 DEF CaDrop
  <2>2. c \in CaRecs /\ c.pc = "dropped" /\ c.id = cacall[k].id
    BY <1>1, CaAt DEF NoCall
  <2> HIDE DEF c
  <2>3. CaTurn(k, c)
    BY <1>2, <2>1, <2>2, CaTurns
  <2>4. QED BY <1>3, <2>1, <2>2, <2>3
<1>5. CASE CaCancelled(k)
  <2> DEFINE c == [NoCall EXCEPT !.pc = "cancelled", !.id = cacall[k].id]
  <2>0. cacall' = [SenderGone(cacall[k].id) EXCEPT ![k] = c]
    BY <1>5 DEF CaCancelled, Unregister
  <2>2. c \in CaRecs /\ c.pc = "cancelled" /\ c.id = cacall[k].id
    BY <1>1, CaAt DEF NoCall
  <2>1. CaTurn(k, c) /\ UNCHANGED <<caopen, carun, cajobs>>
        /\ caact' = [caact EXCEPT ![cacall[k].id] = CaNoEntry] /\ cacall[k].pc # "ending"
    <3>1. UNCHANGED <<caopen, carun, cajobs>>
          /\ caact' = [caact EXCEPT ![cacall[k].id] = CaNoEntry] /\ cacall[k].pc # "ending"
      BY <1>5 DEF CaCancelled, Unregister
    <3> HIDE DEF c
    <3>2. QED BY <1>2, <2>0, <2>2, <3>1, CaTurns
  <2>3. CASE cacall[k].sig # [by |-> "cancel", at |-> "calling"] \/ Blind(cacall[k].pc)
    <3>1. calost' = calost \cup Left(k)
      BY <1>5, <2>3 DEF CaCancelled
    <3> HIDE DEF c
    <3>2. QED BY <1>3, <2>1, <2>2, <3>1
  <2>4. CASE cacall[k].sig = [by |-> "cancel", at |-> "calling"] /\ ~Blind(cacall[k].pc)
    <3>1. calost' = calost
      BY <1>5, <2>4 DEF CaCancelled
    <3>2. CaBook(k)
      BY DEF CaInv
    <3>3. cacall[k].sess \in BOOLEAN
      BY <1>2 DEF CaRecs
    <3>4. CASE cacall[k].pc = "calling"
      <4>3. /\ Sess(k) \in caopen => Sess(k) \in calost \/ <<k, cacall[k].round, TRUE>> \in cajobs
            /\ Sess(k) \in carun => \/ <<k, cacall[k].round, TRUE>> \in cajobs
                                    \/ <<k, cacall[k].round, FALSE>> \in cajobs
        <5>1. CASE cacall[k].sess
          <6>1. Item(k) = <<k, cacall[k].round, TRUE>>
            BY <3>3, <5>1 DEF Item
          <6>2. QED BY <2>4, <3>2, <3>4, <6>1 DEF CaBook
        <5>2. CASE ~cacall[k].sess
          <6>1. Item(k) = <<k, cacall[k].round, FALSE>>
            BY <3>3, <5>2 DEF Item
          <6>2. QED BY <2>4, <3>2, <3>4, <5>2, <6>1 DEF CaBook
        <5>3. QED BY <5>1, <5>2
      <4> HIDE DEF c
      <4>4. QED BY <1>3, <2>1, <2>2, <3>1, <4>3
    <3>5. CASE cacall[k].pc # "calling"
      <4>1. cacall[k].pc \notin {"initing", "ready", "calling", "closing"}
        BY <2>4, <3>5 DEF Blind
      <4> HIDE DEF c
      <4>2. QED BY <1>3, <2>1, <2>2, <3>1, <4>1, CaHas
    <3>6. QED BY <3>4, <3>5
  <2>5. QED BY <2>3, <2>4
<1>6. QED BY <1>4, <1>5

\* A call begins, under an id that may be another's.
LEMMA CaBeginning ==
    ASSUME CaInv, NEW k \in CaCalls, NEW i \in CaIds, CaBegin(k, i)
    PROVE  CaInv'
<1> DEFINE c == [NoCall EXCEPT !.pc = "start", !.id = i, !.round = 1]
           e == [st |-> "live", owner |-> k, ups |-> {}]
<1>1. /\ cacall[k].pc = "none" /\ caact' = [caact EXCEPT ![i] = e]
      /\ UNCHANGED <<caopen, carun, cajobs, calost>>
      /\ cacall' = [SenderGone(i) EXCEPT ![k] = c]
  BY DEF CaBegin
<1>2. c \in CaRecs /\ c.pc = "start" /\ c.id = i
  <2>1. NoSignal \in [by : {"none", "cancel", "replaced"}, at : CaPcs]
    BY DEF NoSignal, CaPcs
  <2>2. 1 \in 0 .. CaRounds /\ 0 \in 0 .. CaPrompts
    BY CaWords
  <2>3. NoCall \in CaRecs
    <3>1. 0 \in 0 .. CaRounds
      BY CaWords
    <3>2. QED BY <2>1, <2>2, <3>1 DEF NoCall, CaRecs, CaPcs
  <2>4. QED BY <2>2, <2>3 DEF CaRecs, CaPcs
<1>3. e \in CaEntries /\ e.owner = k /\ e.st = "live"
  BY DEF CaEntries
<1> HIDE DEF c, e
<1>3a. CaTurn(k, c)
  BY <1>1, <1>2, CaTurns
<1>4. cacall'[k] = c /\ cacall' \in [CaCalls -> CaRecs]
  BY <1>3a DEF CaTurn
<1>5. ASSUME NEW x \in CaCalls, x # k
      PROVE  /\ cacall'[x] \in CaRecs /\ CaSame(x)
             /\ cacall'[x].sig = cacall[x].sig \/ cacall'[x].sig.by = "replaced"
  BY <1>3a, <1>4, <1>5 DEF CaTurn
<1>6. \A j \in CaIds : caact'[j] = IF j = i THEN e ELSE caact[j]
  BY <1>1 DEF CaInv, CaShape
<1>7. CaShape'
  <2>1. cacall' \in [CaCalls -> CaRecs]
    BY <1>4
  <2>2. caact' \in [CaIds -> CaEntries]
    BY <1>1, <1>3 DEF CaInv, CaShape
  <2>3. \A x \in CaCalls : cacall'[x].pc # "none" => cacall'[x].id \in CaIds
    BY <1>2, <1>4, <1>5 DEF CaInv, CaShape, CaSame
  <2>4. QED BY <1>1, <2>1, <2>2, <2>3 DEF CaInv, CaShape
<1>8. ASSUME NEW x \in CaCalls PROVE CaBook(x)'
  <2>1. CASE x = k
    BY <1>2, <1>4, <2>1 DEF CaBook
  <2>2. CASE x # k
    <3>1. CaSame(x) /\ CaBook(x)
      BY <1>5, <2>2 DEF CaInv
    <3>2. Sess(x)' = Sess(x) /\ Item(x)' = Item(x)
      BY <3>1 DEF CaSame, Sess, Item
    <3>3. cacall[x].pc = "calling" => cacall[x].id \in CaIds
      BY DEF CaInv, CaShape
    <3>4. cacall'[x].sig = [by |-> "cancel", at |-> "calling"] => cacall'[x].sig = cacall[x].sig
      BY <1>5, <2>2
    <3>5. cacall[x].pc = "calling" /\ caact'[cacall[x].id].owner = x => Item(x) \in caact'[cacall[x].id].ups
      BY <1>3, <1>6, <2>2, <3>1, <3>3 DEF CaBook
    <3>6. QED BY <1>1, <3>1, <3>2, <3>4, <3>5 DEF CaBook, CaSame
  <2>3. QED BY <2>1, <2>2
<1>9. ASSUME NEW j \in CaIds PROVE CaOwned(j)'
  <2>1. CASE j = i
    BY <1>2, <1>3, <1>4, <1>6, <2>1 DEF CaOwned
  <2>2. CASE j # i
    <3>1. caact'[j] = caact[j] /\ CaOwned(j)
      BY <1>6, <2>2 DEF CaInv
    <3>2. caact[j].owner # k
      BY <1>1, <3>1 DEF CaOwned
    <3>3. QED BY <1>5, <3>1, <3>2 DEF CaOwned, CaSame
  <2>3. QED BY <2>1, <2>2
<1>10. \A s \in caopen \cup carun : s[1] \in CaCalls
  BY DEF CaInv, CaShape
<1>11. \A s \in caopen' : CaCloses(s)'
  <2>1. SUFFICES ASSUME NEW s \in caopen PROVE CaCloses(s)'
    BY <1>1
  <2>2. CaCloses(s) /\ s[1] \in CaCalls
    BY <1>10 DEF CaInv
  <2>3. CASE s[1] = k
    BY <1>1, <2>2, <2>3 DEF CaCloses
  <2>4. CASE s[1] # k
    BY <1>1, <1>5, <2>2, <2>4 DEF CaCloses, CaSame
  <2>5. QED BY <2>3, <2>4
<1>12. \A s \in carun' : CaWaited(s)'
  <2>1. SUFFICES ASSUME NEW s \in carun PROVE CaWaited(s)'
    BY <1>1
  <2>2. CaWaited(s) /\ s[1] \in CaCalls
    BY <1>10 DEF CaInv
  <2>3. CASE s[1] = k
    BY <1>1, <2>2, <2>3 DEF CaWaited
  <2>4. CASE s[1] # k
    BY <1>1, <1>5, <2>2, <2>4 DEF CaWaited, CaSame
  <2>5. QED BY <2>3, <2>4
<1>13. QED BY <1>7, <1>8, <1>9, <1>11, <1>12 DEF CaInv

\* The client cancels a request: what the table has of it is going to be passed on.
LEMMA CaCancelling ==
    ASSUME CaInv, NEW i \in CaIds, CaCancel(i)
    PROVE  CaInv'
<1> DEFINE e == [caact[i] EXCEPT !.st = "cancelled"]
<1>1. /\ caact[i].st # "none" /\ caact' = [caact EXCEPT ![i] = e]
      /\ cajobs' = cajobs \cup caact[i].ups /\ UNCHANGED <<caopen, carun, calost>>
      /\ cacall' = [k \in CaCalls |->
           IF k = caact[i].owner /\ Running(k) /\ cacall[k].sig = NoSignal
           THEN [cacall[k] EXCEPT !.sig = [by |-> "cancel", at |-> cacall[k].pc]] ELSE cacall[k]]
  BY DEF CaCancel
<1>2. caact[i] \in CaEntries
  BY DEF CaInv, CaShape
<1>3. e \in CaEntries /\ e.owner = caact[i].owner /\ e.ups = caact[i].ups /\ e.st # "none"
  BY <1>2 DEF CaEntries
<1> HIDE DEF e
<1>4. ASSUME NEW x \in CaCalls
      PROVE  /\ cacall'[x] \in CaRecs /\ CaSame(x)
             /\ cacall'[x].sig = cacall[x].sig \/ x = caact[i].owner
  <2>1. cacall[x] \in CaRecs
    BY DEF CaInv, CaShape
  <2>2. \/ cacall'[x] = cacall[x]
        \/ x = caact[i].owner /\ cacall'[x] = [cacall[x] EXCEPT !.sig = [by |-> "cancel", at |-> cacall[x].pc]]
    BY <1>1
  <2>3. CASE cacall'[x] = cacall[x]
    BY <2>1, <2>3 DEF CaSame
  <2>4. CASE x = caact[i].owner /\ cacall'[x] = [cacall[x] EXCEPT !.sig = [by |-> "cancel", at |-> cacall[x].pc]]
    <3> DEFINE d == cacall'[x]
               g == [by |-> "cancel", at |-> cacall[x].pc]
    <3>1. d = [cacall[x] EXCEPT !.sig = g]
      BY <2>4
    <3>2. g \in [by : {"none", "cancel", "replaced"}, at : CaPcs] /\ g.by = "cancel"
      BY <2>1 DEF CaRecs
    <3> HIDE DEF d, g
    <3>3. d \in CaRecs /\ d.sig = g
      BY <2>1, <3>1, <3>2 DEF CaRecs
    <3>4. /\ d.pc = cacall[x].pc /\ d.id = cacall[x].id /\ d.round = cacall[x].round
          /\ d.sess = cacall[x].sess /\ d.fwd = cacall[x].fwd /\ d.left = cacall[x].left
      BY <2>1, <3>1 DEF CaRecs
    <3>5. QED BY <2>4, <3>2, <3>3, <3>4 DEF CaSame, d
  <2>5. QED BY <2>2, <2>3, <2>4
<1>5. \A j \in CaIds : caact'[j] = IF j = i THEN e ELSE caact[j]
  BY <1>1 DEF CaInv, CaShape
<1>6. CaShape'
  <2>1. cacall' \in [CaCalls -> CaRecs]
    BY <1>1, <1>4
  <2>2. caact' \in [CaIds -> CaEntries]
    BY <1>1, <1>3 DEF CaInv, CaShape
  <2>3. \A x \in CaCalls : cacall'[x].pc # "none" => cacall'[x].id \in CaIds
    BY <1>4 DEF CaInv, CaShape, CaSame
  <2>4. cajobs' \subseteq CaCalls \X Nat \X BOOLEAN
    BY <1>1, <1>2 DEF CaInv, CaShape, CaEntries
  <2>5. QED BY <1>1, <2>1, <2>2, <2>3, <2>4 DEF CaInv, CaShape
<1>7. ASSUME NEW x \in CaCalls PROVE CaBook(x)'
  <2>1. CaSame(x) /\ CaBook(x)
    BY <1>4 DEF CaInv
  <2>2. Sess(x)' = Sess(x) /\ Item(x)' = Item(x)
    BY <2>1 DEF CaSame, Sess, Item
  <2>3. cacall[x].pc = "calling" => cacall[x].id \in CaIds
    BY DEF CaInv, CaShape
  <2>4. cacall[x].pc = "calling" /\ caact'[cacall[x].id].owner = x => Item(x) \in caact'[cacall[x].id].ups
    BY <1>3, <1>5, <2>1, <2>3 DEF CaBook
  <2>5. cacall[x].pc = "calling" /\ x = caact[i].owner => Item(x) \in cajobs'
    <3>1. x = caact[i].owner => cacall[x].id = i
      BY DEF CaInv, CaOwned
    <3>2. QED BY <1>1, <2>1, <3>1 DEF CaBook
  <2>6. cacall[x].pc = "calling" /\ cacall'[x].sig = [by |-> "cancel", at |-> "calling"] =>
           \/ Item(x) \in cajobs'
           \/ Sess(x) \notin carun /\ (Sess(x) \in caopen => Sess(x) \in calost)
    BY <1>1, <1>4, <2>1, <2>5 DEF CaBook
  <2>7. QED BY <1>1, <2>1, <2>2, <2>4, <2>6 DEF CaBook, CaSame
<1>8. ASSUME NEW j \in CaIds PROVE CaOwned(j)'
  <2>1. caact'[j].owner = caact[j].owner /\ (caact[j].st # "none" => caact'[j].st # "none") /\ CaOwned(j)
    BY <1>3, <1>5 DEF CaInv
  <2>2. QED BY <1>4, <2>1 DEF CaOwned, CaSame
<1>9. \A s \in caopen \cup carun : s[1] \in CaCalls
  BY DEF CaInv, CaShape
<1>10. \A s \in caopen' : CaCloses(s)'
  BY <1>1, <1>4, <1>9 DEF CaInv, CaCloses, CaSame
<1>11. \A s \in carun' : CaWaited(s)'
  BY <1>1, <1>4, <1>9 DEF CaInv, CaWaited, CaSame
<1>12. QED BY <1>6, <1>7, <1>8, <1>10, <1>11 DEF CaInv

\* What a cancellation had of the call reaches the server.
LEMMA CaForwarding ==
    ASSUME CaInv, NEW s \in cajobs, CaForward(s)
    PROVE  CaInv'
<1>1. s \in CaCalls \X Nat \X BOOLEAN
  BY DEF CaInv, CaShape
<1>2. PICK k \in CaCalls, r \in Nat, b \in BOOLEAN : s = <<k, r, b>>
  BY <1>1
<1>3. /\ cajobs' = cajobs \ {<<k, r, b>>} /\ carun' = carun \ {<<k, r>>}
      /\ caopen' = IF b THEN caopen \ {<<k, r>>} ELSE caopen
      /\ UNCHANGED <<cacall, caact, calost>>
  BY <1>2 DEF CaForward
<1>4. CaShape'
  BY <1>3 DEF CaInv, CaShape
<1>5. ASSUME NEW x \in CaCalls PROVE CaBook(x)'
  <2>1. CaBook(x) /\ Sess(x)' = Sess(x) /\ Item(x)' = Item(x) /\ caopen' \subseteq caopen
    BY <1>3 DEF CaInv, Sess, Item
  <2>2. cacall[x].pc = "calling" /\ cacall[x].sig = [by |-> "cancel", at |-> "calling"] =>
           \/ Item(x) \in cajobs'
           \/ Sess(x) \notin carun' /\ (Sess(x) \in caopen' => Sess(x) \in calost)
    <3>1. CASE Item(x) # <<k, r, b>>
      BY <1>3, <2>1, <3>1 DEF CaBook
    <3>2. CASE Item(x) = <<k, r, b>>
      <4>1. x = k /\ cacall[x].round = r /\ cacall[x].sess = b
        BY <3>2 DEF Item
      <4>2. Sess(x) \notin carun'
        BY <1>3, <4>1 DEF Sess
      <4>3. CASE b
        BY <1>3, <4>1, <4>2, <4>3 DEF Sess
      <4>4. CASE ~b
        <5>1. ~cacall[x].sess
          BY <4>1, <4>4
        <5>2. QED BY <1>3, <2>1, <4>2, <5>1 DEF CaBook
      <4>5. QED BY <4>3, <4>4
    <3>3. QED BY <3>1, <3>2
  <2>3. QED BY <1>3, <2>1, <2>2 DEF CaBook
<1>6. \A j \in CaIds : CaOwned(j)'
  BY <1>3 DEF CaInv, CaOwned
<1>7. ASSUME NEW q \in caopen' PROVE CaCloses(q)'
  <2>1. q \in caopen /\ q = <<q[1], q[2]>> /\ CaCloses(q)
    BY <1>3, <1>7 DEF CaInv, CaShape
  <2>2. <<q[1], q[2], TRUE>> # <<k, r, b>>
    <3>1. SUFFICES ASSUME q[1] = k, q[2] = r, b PROVE FALSE
      OBVIOUS
    <3>2. QED BY <1>3, <1>7, <2>1, <3>1
  <2>3. QED BY <1>3, <2>1, <2>2 DEF CaCloses
<1>8. ASSUME NEW q \in carun' PROVE CaWaited(q)'
  <2>1. q \in carun /\ q = <<q[1], q[2]>> /\ CaWaited(q) /\ ~(q[1] = k /\ q[2] = r)
    BY <1>3, <1>8 DEF CaInv, CaShape
  <2>2. QED BY <1>3, <2>1 DEF CaWaited
<1>9. QED BY <1>4, <1>5, <1>6, <1>7, <1>8 DEF CaInv

\* The invariant is inductive.
LEMMA CaInductive == CaInv /\ [CaNext]_caVars => CaInv'
<1> SUFFICES ASSUME CaInv, [CaNext]_caVars PROVE CaInv'
  OBVIOUS
<1>1. ASSUME NEW k \in CaCalls, CaOwn(k) \/ CaOthers(k) PROVE CaInv'
  BY <1>1, CaQuiet, CaOpening, CaAsking, CaEnding DEF CaOwn, CaOthers
<1>2. CASE UNCHANGED caVars
  BY <1>2 DEF caVars, CaInv, CaShape, CaBook, CaOwned, CaCloses, CaWaited, Sess, Item
<1>3. QED BY <1>1, <1>2, CaBeginning, CaCancelling, CaForwarding DEF CaNext

\* A call never asks past a refusal, and leaves behind at the server neither a session
\* nor a request that nobody ends, unless it was lost to everybody: upstream_operation
\* and cancel_active_request, for any calls, ids, rounds and faults.
THEOREM McpCallsHold == CaSpec => []McpCallsSound
<1>1. CaInv => McpCallsSound
  <2> SUFFICES ASSUME CaInv PROVE McpCallsSound
    OBVIOUS
  <2>1. CaTypeOK
    BY CaWords DEF CaInv, CaShape, CaOwned, CaTypeOK, CaRecs
  <2>2. CaNoOrphan
    <3>1. SUFFICES ASSUME NEW s \in caopen, CaCloses(s)
                   PROVE  \/ s \in calost
                          \/ Running(s[1]) /\ cacall[s[1]].round = s[2] /\ cacall[s[1]].pc # "ending"
                          \/ <<s[1], s[2], TRUE>> \in cajobs
      BY DEF CaInv, CaNoOrphan
    <3>2. QED BY <3>1 DEF CaCloses, Running, Over
  <2>3. CaNoNagging
    BY DEF CaInv, CaBook, CaNoNagging
  <2>4. CaStopped
    <3>1. SUFFICES ASSUME NEW s \in carun, CaWaited(s)
                   PROVE  \/ Running(s[1]) \/ s \in calost
                          \/ \E b \in BOOLEAN : <<s[1], s[2], b>> \in cajobs
      BY DEF CaInv, CaStopped
    <3>2. QED BY <3>1 DEF CaWaited, Running, Over
  <2>5. QED BY <2>1, <2>2, <2>3, <2>4 DEF McpCallsSound
<1>2. QED BY <1>1, CaStart, CaInductive, PTL DEF CaSpec

----------------------------------------------------------------------------
(* The surface an MCP session shows                                        *)

\* What a connection can be, and what a surface says of some.
McEvery == {"off", "native", "open", "curated"}
McBinds == McConns \X McEvery

McCats == [disc : BOOLEAN, gen : Nat, pub : SUBSET McBinds, errs : SUBSET McConns,
           brok : BOOLEAN, raced : BOOLEAN]
McViews == [kind : {"none", "tools", "res"}, names : SUBSET McBinds, errs : SUBSET McConns,
            raced : BOOLEAN, calm : BOOLEAN, hears : BOOLEAN, ghost : BOOLEAN]
McSessions == [st : {"none", "new", "open", "gone"}, init : BOOLEAN, stream : BOOLEAN,
               nat : SUBSET McBinds, cat : McCats,
               tools : [some : BOOLEAN, names : SUBSET McBinds], told : BOOLEAN, view : McViews]
McAsks == [pc : {"idle", "fetch", "ensure", "discover", "answer"}, s : McSess \cup {"none"},
           kind : {"none", "tools", "status", "call", "res"}, cat : McCats,
           nat : SUBSET McBinds, lst : SUBSET McBinds, ok : BOOLEAN, lgen : Nat,
           calm : BOOLEAN, hears : BOOLEAN, news : BOOLEAN]

\* Of the connections it knows of, a catalog binds the upstream servers there are.
McCurrent(cat, w) ==
    \A b \in McBinds : b[1] \notin cat.errs => (b \in cat.pub <=> b \in Upstream(Bindings(w)))

\* A catalog of the broker's generation is current, and so is a listing, until the
\* next change.
McTrue(cat, w, p, d) ==
    cat.disc /\ ~cat.raced /\ ~cat.brok /\ cat.gen = p /\ ~d => McCurrent(cat, w)
McListed(lst, k, w, p, d) == k = p /\ ~d => lst = Bindings(w)

\* The same of a view.
McTruth(k, w) == IF k = "tools" THEN Bindings(w) ELSE Resources(Bindings(w))
McAcc(v, w) ==
    \A b \in McBinds : b[1] \notin v.errs => (b \in v.names <=> b \in McTruth(v.kind, w))

McSettled(p, d, g, t) == ~d /\ p = g /\ t = "wait"

\* The catalog a session keeps, and what its client was shown.
McKeeps(x, w, p, d, g, t) ==
    /\ x.cat.gen <= g
    /\ x.cat.disc => x.st = "open" /\ (x.cat.gen = g \/ t = "stored")
    /\ McTrue(x.cat, w, p, d)
McShows(x, w, p, d, g, t) ==
    /\ ~x.view.ghost
    /\ x.view.kind # "none" => x.st = "open"
    /\ x.view.hears => x.init /\ x.stream
    /\ x.view.calm => McSettled(p, d, g, t)
    /\ x.view.kind # "none" /\ x.view.calm /\ ~x.view.raced => McAcc(x.view, w)
    /\ McSettled(p, d, g, t) /\ x.view.kind = "tools" /\ x.view.hears /\ ~x.view.raced =>
          McAcc(x.view, w) \/ x.told

\* What a request knows of its session and of the world: it heard of every change
\* its client listens for ...
McHears(q, x, p, d, g, t) ==
    /\ x.st \in {"open", "gone"}
    /\ q.calm => McSettled(p, d, g, t) /\ q.kind \in {"tools", "res"}
    /\ q.hears => q.kind = "tools"
    /\ q.hears /\ x.st = "open" => x.init /\ x.stream
    /\ q.hears /\ x.st = "open" /\ McSettled(p, d, g, t) => q.calm \/ q.news

\* ... and its catalog and its listing are of their generations.
McHolds(q, w, p, d, g) ==
    /\ q.cat.gen <= g /\ McTrue(q.cat, w, p, d)
    /\ q.pc = "ensure" /\ q.ok =>
          q.lgen <= p /\ q.cat.gen <= q.lgen /\ McListed(q.lst, q.lgen, w, p, d)
    /\ q.pc \in {"ensure", "discover", "answer"} /\ q.ok /\ q.calm /\ q.kind = "tools" =>
          q.nat = Native(Bindings(w))
    /\ q.pc = "discover" =>
          /\ q.ok /\ ~q.cat.disc /\ ~q.cat.brok
          /\ ~q.cat.raced => McListed(q.lst, q.cat.gen, w, p, d)
    /\ q.pc \in {"discover", "answer"} /\ q.calm => q.cat.gen = g
    /\ q.pc = "answer" =>
          /\ q.cat.disc
          /\ q.kind = "tools" /\ q.ok /\ ~q.cat.brok => q.cat.pub \subseteq q.lst

\* A discovery under way for the generation its session is of is of the host's.
McFits(q, x, g, t) ==
    q.pc = "discover" /\ x.st = "open" /\ q.cat.gen = x.cat.gen => q.cat.gen = g \/ t = "stored"

\* What lies around the sessions and the requests, and their types.
McAround ==
    /\ mcworld \in [McConns -> McEvery] /\ mcdirty \in BOOLEAN
    /\ mcpub \in Nat /\ mcgen \in Nat /\ mcgen <= mcpub /\ mcpub <= McMaxGen
    /\ mcdirty => mcpub < McMaxGen
    /\ mctask \in {"wait", "stored"}
McTables ==
    /\ mcsess \in [McSess -> McSessions]
    /\ mcreq \in [McReqs -> McAsks]
    /\ \A r \in McReqs : mcreq[r].pc # "idle" => mcreq[r].s \in McSess /\ mcreq[r].kind # "none"

\* The order of recency names each open session once.
McNames(seq, open) ==
    /\ seq \in Seq(McSess)
    /\ \A s \in McSess : s \in open <=> \E i \in 1 .. Len(seq) : seq[i] = s
    /\ \A i, j \in 1 .. Len(seq) : seq[i] = seq[j] => i = j
McOpen(sess) == {s \in McSess : sess[s].st = "open"}
McOrder == McNames(mcseen, McOpen(mcsess)) /\ Len(mcseen) <= McLimit

McEach ==
    \A s \in McSess : /\ McKeeps(mcsess[s], mcworld, mcpub, mcdirty, mcgen, mctask)
                      /\ McShows(mcsess[s], mcworld, mcpub, mcdirty, mcgen, mctask)
McAll ==
    \A r \in McReqs : mcreq[r].pc # "idle" =>
        LET q == mcreq[r] x == mcsess[q.s] IN
        /\ McHears(q, x, mcpub, mcdirty, mcgen, mctask)
        /\ McHolds(q, mcworld, mcpub, mcdirty, mcgen)
        /\ McFits(q, x, mcgen, mctask)

\* The inductive invariant of the catalogs.
McInv == McAround /\ McTables /\ McOrder /\ McEach /\ McAll

\* The surfaces of the world are surfaces.
LEMMA McSurfaces ==
    ASSUME NEW w \in [McConns -> McEvery]
    PROVE  /\ Bindings(w) \in SUBSET McBinds
           /\ Native(Bindings(w)) \in SUBSET McBinds
           /\ Upstream(Bindings(w)) \in SUBSET McBinds
           /\ Resources(Bindings(w)) \in SUBSET McBinds
<1>1. Bindings(w) \in SUBSET McBinds
  BY DEF Bindings, McBinds
<1>2. QED BY <1>1 DEF Native, Upstream, Resources

\* An empty catalog.
LEMMA McEmpty ==
    ASSUME NEW g \in Nat
    PROVE  /\ EmptyCat(g) \in McCats
           /\ EmptyCat(g).gen = g /\ ~EmptyCat(g).disc /\ ~EmptyCat(g).brok
<1>1. QED BY DEF EmptyCat, McCats

\* A catalog that is trimmed to a listing.
LEMMA McKept ==
    ASSUME NEW cat \in McCats, NEW lst \in SUBSET McBinds
    PROVE  /\ Kept(cat, lst) \in McCats
           /\ Kept(cat, lst).gen = cat.gen /\ Kept(cat, lst).disc = cat.disc
           /\ Kept(cat, lst).brok = cat.brok /\ Kept(cat, lst).raced = cat.raced
           /\ Kept(cat, lst).pub = cat.pub \cap Upstream(lst)
           /\ Kept(cat, lst).errs = {c \in cat.errs : \E b \in Upstream(lst) : b[1] = c}
<1>1. /\ cat.pub \in SUBSET McBinds /\ cat.errs \in SUBSET McConns
      /\ cat.disc \in BOOLEAN /\ cat.brok \in BOOLEAN /\ cat.raced \in BOOLEAN /\ cat.gen \in Nat
  BY DEF McCats
<1> DEFINE pub == cat.pub \cap Upstream(lst)
           errs == {c \in cat.errs : \E b \in Upstream(lst) : b[1] = c}
<1>2. pub \in SUBSET McBinds /\ errs \in SUBSET McConns
  BY <1>1
<1>3. Kept(cat, lst) = [cat EXCEPT !.pub = pub, !.errs = errs]
  BY DEF Kept
<1> HIDE DEF pub, errs
<1>4. /\ Kept(cat, lst) \in McCats
      /\ Kept(cat, lst).gen = cat.gen /\ Kept(cat, lst).disc = cat.disc
      /\ Kept(cat, lst).brok = cat.brok /\ Kept(cat, lst).raced = cat.raced
      /\ Kept(cat, lst).pub = pub /\ Kept(cat, lst).errs = errs
  BY <1>1, <1>2, <1>3 DEF McCats
<1>5. QED BY <1>4 DEF pub, errs

\* A catalog that was discovered.
LEMMA McFound ==
    ASSUME NEW cat \in McCats, NEW lst \in SUBSET McBinds, NEW errs \in SUBSET McConns
    PROVE  /\ Discovered(cat, lst, errs) \in McCats
           /\ Discovered(cat, lst, errs).gen = cat.gen /\ Discovered(cat, lst, errs).disc
           /\ Discovered(cat, lst, errs).brok = cat.brok
           /\ Discovered(cat, lst, errs).raced = cat.raced
           /\ Discovered(cat, lst, errs).errs = errs
           /\ Discovered(cat, lst, errs).pub = {b \in Upstream(lst) : b[1] \notin errs}
<1>1. /\ cat.disc \in BOOLEAN /\ cat.brok \in BOOLEAN /\ cat.raced \in BOOLEAN /\ cat.gen \in Nat
  BY DEF McCats
<1> DEFINE pub == {b \in Upstream(lst) : b[1] \notin errs}
<1>2. pub \in SUBSET McBinds
  BY DEF Upstream
<1>3. Discovered(cat, lst, errs) = [cat EXCEPT !.disc = TRUE, !.errs = errs, !.pub = pub]
  BY DEF Discovered
<1> HIDE DEF pub
<1>4. /\ Discovered(cat, lst, errs) \in McCats
      /\ Discovered(cat, lst, errs).gen = cat.gen /\ Discovered(cat, lst, errs).disc = TRUE
      /\ Discovered(cat, lst, errs).brok = cat.brok
      /\ Discovered(cat, lst, errs).raced = cat.raced
      /\ Discovered(cat, lst, errs).errs = errs /\ Discovered(cat, lst, errs).pub = pub
  BY <1>1, <1>2, <1>3 DEF McCats
<1>5. QED BY <1>4 DEF pub

\* A listing that could not be had.
LEMMA McUnlisted ==
    ASSUME mcgen \in Nat
    PROVE  /\ Unlisted \in McCats
           /\ Unlisted.gen = mcgen /\ Unlisted.disc /\ Unlisted.brok
<1>1. QED BY DEF Unlisted, EmptyCat, McCats

\* A listing of a new generation, to be asked.
LEMMA McToAsk ==
    ASSUME NEW g \in Nat, NEW late \in BOOLEAN
    PROVE  LET c == [EmptyCat(g) EXCEPT !.raced = late] IN
           c \in McCats /\ c.gen = g /\ ~c.disc /\ ~c.brok /\ c.raced = late
<1>1. QED BY DEF EmptyCat, McCats

\* What is answered: nothing, or what the catalog says.
LEMMA McViewed ==
    ASSUME NEW q \in McAsks, NEW names \in SUBSET McBinds, q.kind \in {"tools", "res"}
    PROVE  /\ View(q, names) \in McViews
           /\ q.cat.brok \/ ~q.ok => View(q, names) = NoView
           /\ ~q.cat.brok /\ q.ok =>
                 /\ View(q, names).kind = q.kind /\ View(q, names).names = names
                 /\ View(q, names).errs = q.cat.errs
                 /\ View(q, names).raced = q.cat.raced
                 /\ View(q, names).calm = q.calm /\ View(q, names).hears = q.hears
                 /\ View(q, names).ghost = (q.kind = "tools" /\ ~(q.cat.pub \subseteq q.lst))
<1>1. /\ q.cat.errs \in SUBSET McConns /\ q.cat.raced \in BOOLEAN
      /\ q.calm \in BOOLEAN /\ q.hears \in BOOLEAN
  BY DEF McAsks, McCats
<1>2. NoView \in McViews
  BY DEF NoView, McViews
<1>3. CASE q.cat.brok \/ ~q.ok
  BY <1>2, <1>3 DEF View
<1>4. CASE ~q.cat.brok /\ q.ok
  <2> DEFINE ghost == q.kind = "tools" /\ ~(q.cat.pub \subseteq q.lst)
  <2>1. ghost \in BOOLEAN
    OBVIOUS
  <2>2. View(q, names) = [kind |-> q.kind, names |-> names, errs |-> q.cat.errs,
                          raced |-> q.cat.raced, calm |-> q.calm, hears |-> q.hears,
                          ghost |-> ghost]
    BY <1>4 DEF View
  <2> HIDE DEF ghost
  <2>3. /\ View(q, names) \in McViews
        /\ View(q, names).kind = q.kind /\ View(q, names).names = names
        /\ View(q, names).errs = q.cat.errs
        /\ View(q, names).raced = q.cat.raced
        /\ View(q, names).calm = q.calm /\ View(q, names).hears = q.hears
        /\ View(q, names).ghost = ghost
    BY <1>1, <2>1, <2>2 DEF McViews
  <2>4. QED BY <1>4, <2>3 DEF ghost
<1>5. QED BY <1>3, <1>4

\* The invariant says what the properties ask.
LEMMA McInvMeans == McInv => McpCatalogSound
<1> SUFFICES ASSUME McInv PROVE McpCatalogSound
  OBVIOUS
<1>1. mcworld \in [McConns -> McEvery] /\ Bindings(mcworld) \in SUBSET McBinds
      /\ Resources(Bindings(mcworld)) \in SUBSET McBinds
  BY McSurfaces DEF McInv, McAround
<1>2. McTypeOK
  <2>1. DOMAIN mcseen = 1 .. Len(mcseen) /\ \A i \in DOMAIN mcseen : mcseen[i] \in McSess
    BY DEF McInv, McOrder, McNames
  <2>2. {mcseen[i] : i \in DOMAIN mcseen} = {s \in McSess : Live(s)}
    BY <2>1 DEF McInv, McOrder, McNames, McOpen, Live
  <2>3. \A s \in McSess : mcsess[s].cat.gen <= mcgen
    BY DEF McInv, McEach, McKeeps
  <2>4. QED BY <2>1, <2>2, <2>3 DEF McInv, McOrder, McNames, McAround, McTypeOK
<1>3. ASSUME NEW s \in McSess, NEW k, k = mcsess[s].view.kind, McAcc(mcsess[s].view, mcworld)
      PROVE  Accurate(mcsess[s].view, k)
  <2> DEFINE v == mcsess[s].view
  <2>1. v.names \in SUBSET McBinds
    BY DEF McInv, McTables, McSessions, McViews
  <2>2. Truth(k) = McTruth(v.kind, mcworld) /\ Truth(k) \in SUBSET McBinds
    BY <1>1, <1>3 DEF Truth, McTruth
  <2>3. McAcc(v, mcworld)
    BY <1>3
  <2> HIDE DEF v
  <2>4. Accurate(v, k)
    BY <2>1, <2>2, <2>3 DEF McAcc, Accurate
  <2>5. QED BY <2>4 DEF v
<1>4. \A s \in McSess : McShows(mcsess[s], mcworld, mcpub, mcdirty, mcgen, mctask)
  BY DEF McInv, McEach
<1>5. McCalmCurrent
  <2> SUFFICES ASSUME NEW s \in McSess, mcsess[s].view.kind # "none",
                      mcsess[s].view.calm, ~mcsess[s].view.raced
               PROVE  Accurate(mcsess[s].view, mcsess[s].view.kind)
    BY DEF McCalmCurrent
  <2>1. McAcc(mcsess[s].view, mcworld)
    BY <1>4 DEF McShows
  <2>2. QED BY <1>3, <2>1
<1>6. McClientKnows
  <2> SUFFICES ASSUME NEW s \in McSess, Settled, mcsess[s].view.kind = "tools",
                      mcsess[s].view.hears, ~mcsess[s].view.raced
               PROVE  Accurate(mcsess[s].view, "tools") \/ mcsess[s].told
    BY DEF McClientKnows
  <2>1. McAcc(mcsess[s].view, mcworld) \/ mcsess[s].told
    BY <1>4 DEF McShows, Settled, McSettled
  <2>2. QED BY <1>3, <2>1
<1>7. McNoGhost
  BY <1>4 DEF McShows, McNoGhost
<1>8. QED BY <1>2, <1>5, <1>6, <1>7 DEF McpCatalogSound

\* It holds at the start.
LEMMA McStarts == McInit => McInv
<1> SUFFICES ASSUME McInit PROVE McInv
  OBVIOUS
<1> USE McAssumption
<1>1. McAround
  <2>1. mcworld \in [McConns -> McEvery]
    BY DEF McInit, McEvery
  <2>2. McMaxGen \in Nat /\ 0 <= McMaxGen
    OBVIOUS
  <2>3. mcdirty \in BOOLEAN /\ ~mcdirty /\ mcpub = 0 /\ mcgen = 0 /\ mctask = "wait"
    BY DEF McInit
  <2>4. QED BY <2>1, <2>2, <2>3 DEF McAround
<1>2. EmptyCat(0) \in McCats /\ EmptyCat(0).gen = 0 /\ ~EmptyCat(0).disc
  BY McEmpty
<1>3. NoSession \in McSessions /\ NoSession.st = "none" /\ NoSession.cat = EmptyCat(0)
      /\ NoSession.view = NoView
  BY <1>2 DEF NoSession, McSessions, NoView, McViews, NoNames
<1>4. McNoReq \in McAsks /\ McNoReq.pc = "idle"
  BY <1>2 DEF McNoReq, McAsks
<1>5. McTables
  BY <1>3, <1>4 DEF McInit, McTables
<1>6. McOrder
  <2>1. mcseen = <<>> /\ <<>> \in Seq(McSess) /\ Len(mcseen) = 0 /\ McLimit \in Nat
    BY DEF McInit
  <2>2. \A s \in McSess : mcsess[s].st = "none"
    BY <1>3 DEF McInit
  <2>3. QED BY <2>1, <2>2 DEF McOrder, McNames, McOpen
<1>7. McEach
  <2> SUFFICES ASSUME NEW s \in McSess
               PROVE  /\ McKeeps(mcsess[s], mcworld, mcpub, mcdirty, mcgen, mctask)
                      /\ McShows(mcsess[s], mcworld, mcpub, mcdirty, mcgen, mctask)
    BY DEF McEach
  <2>1. mcsess[s] = NoSession /\ mcgen = 0
    BY DEF McInit
  <2>2. McKeeps(mcsess[s], mcworld, mcpub, mcdirty, mcgen, mctask)
    BY <1>2, <1>3, <2>1 DEF McKeeps, McTrue
  <2>3. NoView.kind = "none" /\ ~NoView.ghost /\ ~NoView.hears /\ ~NoView.calm
    BY DEF NoView
  <2>4. QED BY <1>3, <2>1, <2>2, <2>3 DEF McShows
<1>8. McAll
  BY <1>4 DEF McInit, McAll
<1>9. QED BY <1>1, <1>5, <1>6, <1>7, <1>8 DEF McInv

\* What a session may become under its requests: it opens, it goes, or it stays of
\* its generation and listens no less.
McLike(x, y) ==
    \/ x.st \in {"none", "new"}
    \/ x.st \in {"open", "gone"} /\ y.st = "gone"
    \/ y.st = x.st /\ (x.init => y.init) /\ (x.stream => y.stream) /\ y.cat.gen = x.cat.gen

\* A request knows no less of a session like its own.
LEMMA McStays ==
    ASSUME NEW q, NEW x, NEW y, NEW p, NEW d, NEW g, NEW t,
           McLike(x, y), McHears(q, x, p, d, g, t), McFits(q, x, g, t)
    PROVE  McHears(q, y, p, d, g, t) /\ McFits(q, y, g, t)
<1>1. x.st \in {"open", "gone"}
  BY DEF McHears
<1>2. CASE y.st = "gone"
  BY <1>2 DEF McHears, McFits
<1>3. CASE y.st = x.st /\ (x.init => y.init) /\ (x.stream => y.stream) /\ y.cat.gen = x.cat.gen
  BY <1>1, <1>3 DEF McHears, McFits
<1>4. QED BY <1>1, <1>2, <1>3 DEF McLike

\* A step that leaves the world alone: the sessions it makes keep and show what holds,
\* and so do the requests it makes know.
LEMMA McStep ==
    ASSUME McInv, UNCHANGED <<mcworld, mcdirty, mcpub, mcgen, mctask>>,
           McTables', McOrder',
           \A s \in McSess :
               \/ mcsess'[s] = mcsess[s]
               \/ /\ McLike(mcsess[s], mcsess'[s])
                  /\ McKeeps(mcsess'[s], mcworld, mcpub, mcdirty, mcgen, mctask)
                  /\ McShows(mcsess'[s], mcworld, mcpub, mcdirty, mcgen, mctask),
           \A r \in McReqs :
               \/ mcreq'[r] = mcreq[r]
               \/ mcreq'[r].pc = "idle"
               \/ /\ mcreq[r].pc # "idle" /\ mcreq'[r].s = mcreq[r].s
                  /\ \A x : McHears(mcreq[r], x, mcpub, mcdirty, mcgen, mctask)
                            => McHears(mcreq'[r], x, mcpub, mcdirty, mcgen, mctask)
                  /\ McHolds(mcreq'[r], mcworld, mcpub, mcdirty, mcgen)
                  /\ McFits(mcreq'[r], mcsess'[mcreq[r].s], mcgen, mctask)
               \/ LET q == mcreq'[r] x == mcsess'[q.s] IN
                  /\ McHears(q, x, mcpub, mcdirty, mcgen, mctask)
                  /\ McHolds(q, mcworld, mcpub, mcdirty, mcgen)
                  /\ McFits(q, x, mcgen, mctask)
    PROVE  McInv'
<1>1. McAround'
  BY DEF McInv, McAround
<1>2. ASSUME NEW s \in McSess
      PROVE  /\ McLike(mcsess[s], mcsess'[s])
             /\ McKeeps(mcsess'[s], mcworld, mcpub, mcdirty, mcgen, mctask)
             /\ McShows(mcsess'[s], mcworld, mcpub, mcdirty, mcgen, mctask)
  <2>1. CASE mcsess'[s] = mcsess[s]
    BY <2>1 DEF McInv, McEach, McLike
  <2>2. QED BY <2>1
<1>3. McEach'
  BY <1>2 DEF McEach
<1>4. ASSUME NEW r \in McReqs, mcreq'[r].pc # "idle"
      PROVE  LET q == mcreq'[r] x == mcsess'[q.s] IN
             /\ McHears(q, x, mcpub, mcdirty, mcgen, mctask)
             /\ McHolds(q, mcworld, mcpub, mcdirty, mcgen)
             /\ McFits(q, x, mcgen, mctask)
  <2>1. ASSUME mcreq[r].pc # "idle"
        PROVE  /\ McHears(mcreq[r], mcsess'[mcreq[r].s], mcpub, mcdirty, mcgen, mctask)
               /\ McHolds(mcreq[r], mcworld, mcpub, mcdirty, mcgen)
               /\ McFits(mcreq[r], mcsess'[mcreq[r].s], mcgen, mctask)
    <3>1. mcreq[r].s \in McSess
      BY <2>1 DEF McInv, McTables
    <3>2. /\ McHears(mcreq[r], mcsess[mcreq[r].s], mcpub, mcdirty, mcgen, mctask)
          /\ McHolds(mcreq[r], mcworld, mcpub, mcdirty, mcgen)
          /\ McFits(mcreq[r], mcsess[mcreq[r].s], mcgen, mctask)
      BY <2>1 DEF McInv, McAll
    <3>3. McLike(mcsess[mcreq[r].s], mcsess'[mcreq[r].s])
      BY <1>2, <3>1
    <3>4. QED BY <3>2, <3>3, McStays
  <2>2. CASE mcreq'[r] = mcreq[r]
    BY <1>4, <2>1, <2>2
  <2>3. QED BY <1>4, <2>1, <2>2
<1>5. McAll'
  BY <1>4 DEF McAll
<1>6. QED BY <1>1, <1>3, <1>5 DEF McInv

\* A session that is seen for the first time comes last.
LEMMA McPush ==
    ASSUME NEW seq, NEW open, McNames(seq, open), NEW s \in McSess, s \notin open
    PROVE  McNames(Append(seq, s), open \cup {s}) /\ Len(Append(seq, s)) = Len(seq) + 1
<1> DEFINE m == Len(seq)
           new == Append(seq, s)
<1>1. seq \in Seq(McSess) /\ m \in Nat /\ \A i \in 1 .. m : seq[i] \in McSess /\ seq[i] # s
  BY DEF McNames
<1>2. /\ new \in Seq(McSess) /\ Len(new) = m + 1
      /\ \A i \in 1 .. m : new[i] = seq[i]
      /\ new[m + 1] = s
  BY <1>1, AppendProperties
<1>3. \A x \in McSess : x \in open <=> \E i \in 1 .. m : seq[i] = x
  BY DEF McNames
<1>4. \A i, j \in 1 .. m : seq[i] = seq[j] => i = j
  BY DEF McNames
<1> HIDE DEF m, new
<1>5. 1 .. (m + 1) = (1 .. m) \cup {m + 1} /\ m + 1 \notin 1 .. m
  BY <1>1
<1>6. ASSUME NEW x \in McSess
      PROVE  x \in open \cup {s} <=> \E i \in 1 .. (m + 1) : new[i] = x
  BY <1>1, <1>2, <1>3, <1>5
<1>7. ASSUME NEW i \in 1 .. (m + 1), NEW j \in 1 .. (m + 1), new[i] = new[j]
      PROVE  i = j
  BY <1>1, <1>2, <1>4, <1>5, <1>7
<1>8. McNames(new, open \cup {s})
  BY <1>2, <1>6, <1>7 DEF McNames
<1>9. QED BY <1>2, <1>8 DEF m, new

\* A session that is taken out of the order leaves the others as they were.
LEMMA McDrop ==
    ASSUME NEW seq, NEW open, McNames(seq, open), NEW at \in 1 .. Len(seq)
    PROVE  LET new == SubSeq(seq, 1, at - 1) \o SubSeq(seq, at + 1, Len(seq)) IN
           McNames(new, open \ {seq[at]}) /\ Len(new) = Len(seq) - 1
<1> DEFINE m == Len(seq)
           a == SubSeq(seq, 1, at - 1)
           b == SubSeq(seq, at + 1, m)
           new == a \o b
           out == seq[at]
<1>1. /\ seq \in Seq(McSess) /\ m \in Nat /\ at \in Nat /\ 1 <= at /\ at <= m
      /\ \A i \in 1 .. m : seq[i] \in McSess
  BY DEF McNames
<1>2. /\ a \in Seq(McSess) /\ Len(a) = at - 1
      /\ \A i \in 1 .. at - 1 : a[i] = seq[i]
  BY <1>1, SubSeqProperties
<1>3. /\ b \in Seq(McSess) /\ Len(b) = m - at
      /\ \A i \in 1 .. m - at : b[i] = seq[at + i]
  BY <1>1, SubSeqProperties
<1> HIDE DEF a, b
<1>4. /\ new \in Seq(McSess) /\ Len(new) = Len(a) + Len(b)
      /\ \A i \in 1 .. Len(a) + Len(b) : new[i] = IF i <= Len(a) THEN a[i] ELSE b[i - Len(a)]
  BY <1>2, <1>3, ConcatProperties
<1>5. \A x \in McSess : x \in open <=> \E i \in 1 .. m : seq[i] = x
  BY DEF McNames
<1>6. \A i, j \in 1 .. m : seq[i] = seq[j] => i = j
  BY DEF McNames
<1> DEFINE from(i) == IF i < at THEN i ELSE i + 1
<1> HIDE DEF m, a, b, new
<1>7. Len(new) = m - 1
  BY <1>1, <1>2, <1>3, <1>4
<1>8. ASSUME NEW i \in 1 .. m - 1
      PROVE  new[i] = seq[from(i)] /\ from(i) \in 1 .. m /\ from(i) # at
  <2>1. i \in Nat /\ 1 <= i /\ i <= m - 1
    BY <1>1
  <2>2. CASE i < at
    <3>1. i \in 1 .. Len(a) + Len(b) /\ i <= Len(a) /\ i \in 1 .. at - 1
      BY <1>1, <1>2, <1>3, <2>1, <2>2
    <3>2. new[i] = seq[i]
      BY <1>2, <1>4, <3>1
    <3>3. QED BY <1>1, <2>1, <2>2, <3>2
  <2>3. CASE ~(i < at)
    <3>1. i - Len(a) \in 1 .. Len(b) /\ i \in 1 .. Len(a) + Len(b) /\ ~(i <= Len(a))
      BY <1>1, <1>2, <1>3, <2>1, <2>3
    <3>2. new[i] = b[i - Len(a)]
      BY <1>4, <3>1
    <3>3. b[i - Len(a)] = seq[at + (i - Len(a))] /\ at + (i - Len(a)) = i + 1
      BY <1>1, <1>2, <1>3, <3>1
    <3>4. QED BY <1>1, <2>1, <2>3, <3>2, <3>3
  <2>4. QED BY <2>2, <2>3
<1>9. ASSUME NEW k \in 1 .. m, k # at
      PROVE  \E i \in 1 .. m - 1 : from(i) = k
  <2>1. CASE k < at
    <3>1. k \in 1 .. m - 1 /\ from(k) = k
      BY <1>1, <2>1
    <3>2. QED BY <3>1
  <2>2. CASE ~(k < at)
    <3>1. k - 1 \in 1 .. m - 1 /\ from(k - 1) = k
      BY <1>1, <1>9, <2>2
    <3>2. QED BY <3>1
  <2>3. QED BY <2>1, <2>2
<1>10. ASSUME NEW i \in 1 .. m - 1, NEW j \in 1 .. m - 1, from(i) = from(j)
       PROVE  i = j
  BY <1>1, <1>10
<1> HIDE DEF from
<1>11. ASSUME NEW x \in McSess
       PROVE  x \in open \ {out} <=> \E i \in 1 .. m - 1 : new[i] = x
  <2>1. ASSUME x \in open, x # out PROVE \E i \in 1 .. m - 1 : new[i] = x
    <3>1. PICK k \in 1 .. m : seq[k] = x
      BY <1>5, <2>1
    <3>2. k # at
      BY <2>1, <3>1
    <3>3. PICK i \in 1 .. m - 1 : from(i) = k
      BY <1>9, <3>2
    <3>4. QED BY <1>8, <3>1, <3>3
  <2>2. ASSUME NEW i \in 1 .. m - 1, new[i] = x PROVE x \in open /\ x # out
    <3>1. seq[from(i)] = x /\ from(i) \in 1 .. m /\ from(i) # at
      BY <1>8, <2>2
    <3>2. at \in 1 .. m
      BY <1>1
    <3>3. QED BY <1>5, <1>6, <3>1, <3>2
  <2>3. QED BY <2>1, <2>2
<1>12. ASSUME NEW i \in 1 .. m - 1, NEW j \in 1 .. m - 1, new[i] = new[j]
       PROVE  i = j
  <2>1. from(i) = from(j)
    BY <1>6, <1>8, <1>12
  <2>2. QED BY <1>10, <2>1
<1>13. McNames(new, open \ {out})
  BY <1>4, <1>7, <1>11, <1>12 DEF McNames
<1>14. QED BY <1>7, <1>13 DEF new, a, b, m

\* The session seen least recently goes first.
LEMMA McPop ==
    ASSUME NEW seq, NEW open, McNames(seq, open), Len(seq) >= 1
    PROVE  /\ Head(seq) \in McSess /\ Head(seq) \in open
           /\ McNames(Tail(seq), open \ {Head(seq)})
           /\ Len(Tail(seq)) = Len(seq) - 1
<1> DEFINE m == Len(seq)
           new == Tail(seq)
<1>1. seq \in Seq(McSess) /\ m \in Nat /\ m >= 1 /\ \A i \in 1 .. m : seq[i] \in McSess
  BY DEF McNames
<1>2. /\ Head(seq) = seq[1] /\ new \in Seq(McSess) /\ Len(new) = m - 1
      /\ \A i \in 1 .. m - 1 : new[i] = seq[i + 1]
  BY <1>1
<1>3. \A x \in McSess : x \in open <=> \E i \in 1 .. m : seq[i] = x
  BY DEF McNames
<1>4. \A i, j \in 1 .. m : seq[i] = seq[j] => i = j
  BY DEF McNames
<1> HIDE DEF m, new
<1>5. 1 \in 1 .. m /\ \A i \in 1 .. m - 1 : i + 1 \in 1 .. m /\ i + 1 # 1
  BY <1>1
<1>6. Head(seq) \in McSess /\ Head(seq) \in open
  BY <1>1, <1>2, <1>3, <1>5
<1>7. ASSUME NEW x \in McSess
      PROVE  x \in open \ {Head(seq)} <=> \E i \in 1 .. m - 1 : new[i] = x
  <2>1. ASSUME x \in open, x # Head(seq) PROVE \E i \in 1 .. m - 1 : new[i] = x
    <3>1. PICK k \in 1 .. m : seq[k] = x
      BY <1>3, <2>1
    <3>2. k # 1
      BY <1>2, <2>1, <3>1
    <3>3. k - 1 \in 1 .. m - 1 /\ (k - 1) + 1 = k
      BY <1>1, <3>2
    <3>4. QED BY <1>2, <3>1, <3>3
  <2>2. ASSUME NEW i \in 1 .. m - 1, new[i] = x PROVE x \in open /\ x # Head(seq)
    BY <1>2, <1>3, <1>4, <1>5, <2>2
  <2>3. QED BY <2>1, <2>2
<1>8. ASSUME NEW i \in 1 .. m - 1, NEW j \in 1 .. m - 1, new[i] = new[j]
      PROVE  i = j
  <2>1. i + 1 = j + 1
    BY <1>2, <1>4, <1>5, <1>8
  <2>2. QED BY <1>1, <2>1
<1>9. McNames(new, open \ {Head(seq)})
  BY <1>2, <1>7, <1>8 DEF McNames
<1>10. QED BY <1>2, <1>6, <1>9 DEF new, m

\* An open session has its place; it leaves it, or takes the last.
LEMMA McSeen ==
    ASSUME McOrder, NEW s \in McSess, Live(s)
    PROVE  /\ McNames(Without(s), McOpen(mcsess) \ {s})
           /\ Len(Without(s)) = Len(mcseen) - 1
           /\ McNames(Seen(s), McOpen(mcsess)) /\ Len(Seen(s)) = Len(mcseen)
<1> DEFINE at == CHOOSE i \in DOMAIN mcseen : mcseen[i] = s
           open == McOpen(mcsess)
<1>1. McNames(mcseen, open) /\ s \in open
  BY DEF McOrder, McOpen, Live
<1>2. DOMAIN mcseen = 1 .. Len(mcseen) /\ Len(mcseen) \in Nat
  BY <1>1 DEF McNames
<1>3. \E i \in 1 .. Len(mcseen) : mcseen[i] = s
  BY <1>1 DEF McNames
<1>4. at \in 1 .. Len(mcseen) /\ mcseen[at] = s
  BY <1>2, <1>3
<1>5. Without(s) = SubSeq(mcseen, 1, at - 1) \o SubSeq(mcseen, at + 1, Len(mcseen))
  BY DEF Without
<1> HIDE DEF at, open
<1>6. McNames(Without(s), open \ {s}) /\ Len(Without(s)) = Len(mcseen) - 1
  <2> DEFINE new == SubSeq(mcseen, 1, at - 1) \o SubSeq(mcseen, at + 1, Len(mcseen))
  <2>1. McNames(new, open \ {mcseen[at]}) /\ Len(new) = Len(mcseen) - 1
    BY <1>1, <1>4, McDrop
  <2>2. QED BY <1>4, <1>5, <2>1
<1>7. McNames(Seen(s), (open \ {s}) \cup {s}) /\ Len(Seen(s)) = (Len(mcseen) - 1) + 1
  BY <1>6, McPush DEF Seen
<1>8. McNames(Seen(s), open)
  <2>1. \A x : x \in (open \ {s}) \cup {s} <=> x \in open
    BY <1>1
  <2>2. QED BY <1>7, <2>1 DEF McNames
<1>9. QED BY <1>2, <1>6, <1>7, <1>8 DEF open

\* The order depends on which sessions are open only.
LEMMA McSameNames ==
    ASSUME NEW seq, NEW a, NEW b, McNames(seq, a), \A s \in McSess : s \in a <=> s \in b
    PROVE  McNames(seq, b)
<1>1. QED BY DEF McNames

\* One session changes.
LEMMA McOneSession ==
    ASSUME McInv, UNCHANGED <<mcworld, mcdirty, mcpub, mcgen, mctask, mcreq>>,
           NEW s \in McSess, NEW y \in McSessions, mcsess' = [mcsess EXCEPT ![s] = y],
           McOrder', McLike(mcsess[s], y),
           McKeeps(y, mcworld, mcpub, mcdirty, mcgen, mctask),
           McShows(y, mcworld, mcpub, mcdirty, mcgen, mctask)
    PROVE  McInv'
<1>1. mcsess \in [McSess -> McSessions]
  BY DEF McInv, McTables
<1>2. mcsess' \in [McSess -> McSessions] /\ mcsess'[s] = y
      /\ \A x \in McSess : x # s => mcsess'[x] = mcsess[x]
  BY <1>1
<1>3. McTables'
  BY <1>2 DEF McInv, McTables
<1>4. \A x \in McSess :
          \/ mcsess'[x] = mcsess[x]
          \/ /\ McLike(mcsess[x], mcsess'[x])
             /\ McKeeps(mcsess'[x], mcworld, mcpub, mcdirty, mcgen, mctask)
             /\ McShows(mcsess'[x], mcworld, mcpub, mcdirty, mcgen, mctask)
  BY <1>2
<1>5. \A r \in McReqs : mcreq'[r] = mcreq[r]
  OBVIOUS
<1>6. QED BY <1>3, <1>4, <1>5, McStep

\* What a session is, field by field.
LEMMA McFields ==
    ASSUME McInv, NEW s \in McSess
    PROVE  /\ mcsess[s] \in McSessions
           /\ mcsess[s].cat \in McCats /\ mcsess[s].view \in McViews
           /\ McKeeps(mcsess[s], mcworld, mcpub, mcdirty, mcgen, mctask)
           /\ McShows(mcsess[s], mcworld, mcpub, mcdirty, mcgen, mctask)
<1>1. mcsess[s] \in McSessions
  BY DEF McInv, McTables
<1>2. mcsess[s].cat \in McCats /\ mcsess[s].view \in McViews
  BY <1>1 DEF McSessions
<1>3. QED BY <1>1, <1>2 DEF McInv, McEach

\* A session is initialised.
LEMMA McKeepsInitialize ==
    ASSUME McInv, NEW s \in McSess, McInitialize(s)
    PROVE  McInv'
<1> DEFINE x == mcsess[s]
           c == EmptyCat(mcgen)
           y == [x EXCEPT !.st = "new", !.cat = c]
<1>1. /\ x \in McSessions
      /\ McKeeps(x, mcworld, mcpub, mcdirty, mcgen, mctask)
      /\ McShows(x, mcworld, mcpub, mcdirty, mcgen, mctask)
  BY McFields
<1>2. x.st = "none" /\ mcgen \in Nat
  BY DEF McInitialize, McInv, McAround
<1>3. c \in McCats /\ c.gen = mcgen /\ ~c.disc
  BY <1>2, McEmpty
<1>4. mcsess' = [mcsess EXCEPT ![s] = y]
  BY DEF McInitialize
<1> HIDE DEF x, c
<1>5. /\ y \in McSessions /\ y.st = "new" /\ y.cat = c /\ y.view = x.view
      /\ y.init = x.init /\ y.stream = x.stream /\ y.told = x.told
  BY <1>1, <1>3 DEF McSessions
<1> HIDE DEF y
<1>6. McLike(x, y)
  BY <1>2 DEF McLike
<1>7. McKeeps(y, mcworld, mcpub, mcdirty, mcgen, mctask)
  BY <1>2, <1>3, <1>5 DEF McKeeps, McTrue
<1>8. McShows(y, mcworld, mcpub, mcdirty, mcgen, mctask)
  BY <1>1, <1>2, <1>5 DEF McShows
<1>9. McOrder'
  <2>1. \A z \in McSess : mcsess'[z].st = "open" <=> mcsess[z].st = "open"
    <3>1. mcsess \in [McSess -> McSessions]
      BY DEF McInv, McTables
    <3>2. mcsess'[s] = y /\ \A z \in McSess : z # s => mcsess'[z] = mcsess[z]
      BY <1>4, <3>1
    <3>3. QED BY <1>2, <1>5, <3>2 DEF x
  <2>2. McNames(mcseen, McOpen(mcsess')) /\ mcseen' = mcseen
    BY <2>1, McSameNames DEF McOpen, McInv, McOrder, McInitialize
  <2>3. QED BY <2>2 DEF McInv, McOrder
<1>10. QED BY <1>4, <1>5, <1>6, <1>7, <1>8, <1>9, McOneSession DEF McInitialize, x

\* A session that is gone.
LEMMA McGone ==
    ASSUME NEW x, NEW w, NEW p, NEW d, NEW g \in Nat, NEW t
    PROVE  /\ Gone(x) \in McSessions /\ Gone(x).st = "gone"
           /\ McKeeps(Gone(x), w, p, d, g, t) /\ McShows(Gone(x), w, p, d, g, t)
<1>1. EmptyCat(0) \in McCats /\ EmptyCat(0).gen = 0 /\ ~EmptyCat(0).disc
  BY McEmpty
<1>2. NoSession \in McSessions /\ NoSession.cat = EmptyCat(0) /\ NoSession.view = NoView
  BY <1>1 DEF NoSession, McSessions, NoView, McViews, NoNames
<1>3. /\ Gone(x) \in McSessions /\ Gone(x).st = "gone"
      /\ Gone(x).cat = EmptyCat(0) /\ Gone(x).view = NoView
  BY <1>2 DEF Gone, McSessions
<1>4. McKeeps(Gone(x), w, p, d, g, t)
  BY <1>1, <1>3 DEF McKeeps, McTrue
<1>5. NoView.kind = "none" /\ ~NoView.ghost /\ ~NoView.hears /\ ~NoView.calm
  BY DEF NoView
<1>6. McShows(Gone(x), w, p, d, g, t)
  BY <1>3, <1>5 DEF McShows
<1>7. QED BY <1>3, <1>4, <1>6

\* A session takes its place in the store, another's when the store is full.
LEMMA McKeepsInsert ==
    ASSUME McInv, NEW s \in McSess, McInsert(s)
    PROVE  McInv'
<1> DEFINE x == mcsess[s]
           y == [x EXCEPT !.st = "open"]
<1> USE McAssumption
<1>1. /\ x \in McSessions
      /\ McKeeps(x, mcworld, mcpub, mcdirty, mcgen, mctask)
      /\ McShows(x, mcworld, mcpub, mcdirty, mcgen, mctask)
  BY McFields
<1>2. x.st = "new" /\ mcgen \in Nat /\ McLimit \in Nat /\ McLimit >= 1
  BY DEF McInsert, McInv, McAround
<1>3. mcsess \in [McSess -> McSessions]
  BY DEF McInv, McTables
<1>4. McNames(mcseen, McOpen(mcsess)) /\ Len(mcseen) <= McLimit /\ s \notin McOpen(mcsess)
      /\ Len(mcseen) \in Nat
  BY <1>2 DEF McInv, McOrder, McOpen, McNames
<1> HIDE DEF x
<1>5. /\ y \in McSessions /\ y.st = "open" /\ y.cat = x.cat /\ y.view = x.view
      /\ y.init = x.init /\ y.stream = x.stream /\ y.told = x.told
  BY <1>1 DEF McSessions
<1>6. McLike(x, y) /\ McKeeps(y, mcworld, mcpub, mcdirty, mcgen, mctask)
      /\ McShows(y, mcworld, mcpub, mcdirty, mcgen, mctask)
  BY <1>1, <1>2, <1>5 DEF McLike, McKeeps, McShows, McTrue
<1>7. CASE Len(mcseen) >= McLimit
  <2> DEFINE h == Head(mcseen)
             z == Gone(mcsess[h])
  <2>1. /\ h \in McSess /\ h \in McOpen(mcsess) /\ h # s
        /\ McNames(Tail(mcseen), McOpen(mcsess) \ {h})
        /\ Len(Tail(mcseen)) = Len(mcseen) - 1
    BY <1>2, <1>4, <1>7, McPop
  <2>2. /\ z \in McSessions /\ z.st = "gone"
        /\ McKeeps(z, mcworld, mcpub, mcdirty, mcgen, mctask)
        /\ McShows(z, mcworld, mcpub, mcdirty, mcgen, mctask)
    BY <1>2, McGone
  <2>3. mcsess' = [mcsess EXCEPT ![s] = y, ![h] = z] /\ mcseen' = Append(Tail(mcseen), s)
    BY <1>3, <1>7, <2>1 DEF McInsert, x
  <2>4. mcsess[h].st = "open"
    BY <2>1 DEF McOpen
  <2> HIDE DEF h, z, y
  <2>5. /\ mcsess' \in [McSess -> McSessions] /\ mcsess'[s] = y /\ mcsess'[h] = z
        /\ \A v \in McSess : v # s /\ v # h => mcsess'[v] = mcsess[v]
    BY <1>3, <1>5, <2>1, <2>2, <2>3
  <2>6. McLike(mcsess[h], z)
    BY <2>2, <2>4 DEF McLike
  <2>7. McTables'
    BY <2>5 DEF McInv, McTables, McInsert
  <2>8. McOrder'
    <3>1. s \notin McOpen(mcsess) \ {h}
      BY <1>4
    <3>2. McNames(mcseen', (McOpen(mcsess) \ {h}) \cup {s})
          /\ Len(mcseen') = Len(Tail(mcseen)) + 1
      BY <2>1, <2>3, <3>1, McPush
    <3>3. \A v \in McSess : v \in (McOpen(mcsess) \ {h}) \cup {s} <=> v \in McOpen(mcsess')
      BY <1>5, <2>1, <2>2, <2>5 DEF McOpen
    <3>4. McNames(mcseen', McOpen(mcsess'))
      BY <3>2, <3>3, McSameNames
    <3>5. Len(mcseen') <= McLimit
      BY <1>2, <1>4, <2>1, <3>2
    <3>6. QED BY <3>4, <3>5 DEF McOrder
  <2>9. \A v \in McSess :
            \/ mcsess'[v] = mcsess[v]
            \/ /\ McLike(mcsess[v], mcsess'[v])
               /\ McKeeps(mcsess'[v], mcworld, mcpub, mcdirty, mcgen, mctask)
               /\ McShows(mcsess'[v], mcworld, mcpub, mcdirty, mcgen, mctask)
    BY <1>6, <2>2, <2>5, <2>6 DEF x
  <2>10. QED BY <2>7, <2>8, <2>9, McStep DEF McInsert
<1>8. CASE ~(Len(mcseen) >= McLimit)
  <2>1. mcsess' = [mcsess EXCEPT ![s] = y] /\ mcseen' = Append(mcseen, s)
    BY <1>8 DEF McInsert, x
  <2> HIDE DEF y
  <2>2. /\ mcsess'[s] = y
        /\ \A v \in McSess : v # s => mcsess'[v] = mcsess[v]
    BY <1>3, <2>1
  <2>3. McNames(mcseen', McOpen(mcsess) \cup {s}) /\ Len(mcseen') = Len(mcseen) + 1
    BY <1>4, <2>1, McPush
  <2>4. \A v \in McSess : v \in McOpen(mcsess) \cup {s} <=> v \in McOpen(mcsess')
    BY <1>5, <2>2 DEF McOpen
  <2>5. McNames(mcseen', McOpen(mcsess'))
    BY <2>3, <2>4, McSameNames
  <2>6. McOrder'
    BY <1>2, <1>4, <1>8, <2>3, <2>5 DEF McOrder
  <2>7. QED BY <1>5, <1>6, <2>1, <2>6, McOneSession DEF McInsert, x
<1>9. QED BY <1>7, <1>8

\* A session is given up.
LEMMA McKeepsRemove ==
    ASSUME McInv, NEW s \in McSess, McRemove(s)
    PROVE  McInv'
<1> DEFINE y == Gone(mcsess[s])
<1>1. mcgen \in Nat /\ mcsess[s].st = "open"
  BY DEF McRemove, Live, McInv, McAround
<1>2. /\ y \in McSessions /\ y.st = "gone"
      /\ McKeeps(y, mcworld, mcpub, mcdirty, mcgen, mctask)
      /\ McShows(y, mcworld, mcpub, mcdirty, mcgen, mctask)
  BY <1>1, McGone
<1>3. mcsess' = [mcsess EXCEPT ![s] = y] /\ mcseen' = Without(s)
  BY DEF McRemove
<1> HIDE DEF y
<1>4. McLike(mcsess[s], y)
  BY <1>1, <1>2 DEF McLike
<1>5. mcsess \in [McSess -> McSessions]
  BY DEF McInv, McTables
<1>6. mcsess'[s] = y /\ \A v \in McSess : v # s => mcsess'[v] = mcsess[v]
  BY <1>3, <1>5
<1>7. McOrder'
  <2>1. McNames(mcseen', McOpen(mcsess) \ {s}) /\ Len(mcseen') = Len(mcseen) - 1
    BY <1>3, McSeen DEF McInv, McRemove
  <2>2. \A v \in McSess : v \in McOpen(mcsess) \ {s} <=> v \in McOpen(mcsess')
    BY <1>2, <1>6 DEF McOpen
  <2>3. McNames(mcseen', McOpen(mcsess'))
    BY <2>1, <2>2, McSameNames
  <2>4. Len(mcseen) \in Nat /\ Len(mcseen) <= McLimit /\ McLimit \in Nat
    BY McAssumption DEF McInv, McOrder, McNames
  <2>5. QED BY <2>1, <2>3, <2>4 DEF McOrder
<1>8. QED BY <1>2, <1>3, <1>4, <1>7, McOneSession DEF McRemove

\* A session says that it is ready, or listens.
LEMMA McKeepsListening ==
    ASSUME McInv, NEW s \in McSess, McInitialized(s) \/ McStream(s)
    PROVE  McInv'
<1> DEFINE x == mcsess[s]
           y == IF McInitialized(s) THEN [x EXCEPT !.init = TRUE] ELSE [x EXCEPT !.stream = TRUE]
<1>1. /\ x \in McSessions
      /\ McKeeps(x, mcworld, mcpub, mcdirty, mcgen, mctask)
      /\ McShows(x, mcworld, mcpub, mcdirty, mcgen, mctask)
  BY McFields
<1>2. /\ x.st = "open" /\ Live(s) /\ mcseen' = Seen(s)
      /\ UNCHANGED <<mcworld, mcdirty, mcpub, mcgen, mctask, mcreq>>
  BY DEF McInitialized, McStream, Live
<1>3. mcsess' = [mcsess EXCEPT ![s] = y]
  BY DEF McInitialized, McStream
<1>4. mcsess \in [McSess -> McSessions]
  BY DEF McInv, McTables
<1> HIDE DEF x
<1>5. /\ y \in McSessions /\ y.st = x.st /\ y.cat = x.cat /\ y.view = x.view /\ y.told = x.told
      /\ (x.init => y.init) /\ (x.stream => y.stream)
  BY <1>1 DEF McSessions
<1> HIDE DEF y
<1>6. McLike(x, y) /\ McKeeps(y, mcworld, mcpub, mcdirty, mcgen, mctask)
      /\ McShows(y, mcworld, mcpub, mcdirty, mcgen, mctask)
  BY <1>1, <1>2, <1>5 DEF McLike, McKeeps, McShows, McTrue
<1>7. McOrder'
  <2>1. mcsess'[s] = y /\ \A v \in McSess : v # s => mcsess'[v] = mcsess[v]
    BY <1>3, <1>4
  <2>2. \A v \in McSess : v \in McOpen(mcsess) <=> v \in McOpen(mcsess')
    BY <1>5, <2>1 DEF McOpen, x
  <2>3. McNames(mcseen', McOpen(mcsess)) /\ Len(mcseen') = Len(mcseen)
    BY <1>2, McSeen DEF McInv
  <2>4. McNames(mcseen', McOpen(mcsess'))
    BY <2>2, <2>3, McSameNames
  <2>5. QED BY <2>3, <2>4 DEF McOrder, McInv
<1>8. QED BY <1>2, <1>3, <1>5, <1>6, <1>7, McOneSession DEF x

\* One request changes, and at most one session, which stays open and of its generation.
LEMMA McOneRequest ==
    ASSUME McInv, UNCHANGED <<mcworld, mcdirty, mcpub, mcgen, mctask>>,
           NEW r \in McReqs, NEW q \in McAsks, mcreq' = [mcreq EXCEPT ![r] = q],
           NEW s \in McSess, NEW y,
           \/ mcsess' = mcsess
           \/ /\ mcsess' = [mcsess EXCEPT ![s] = y]
              /\ y \in McSessions /\ mcsess[s].st = "open" /\ y.st = "open"
              /\ y.init = mcsess[s].init /\ y.stream = mcsess[s].stream
              /\ y.cat.gen = mcsess[s].cat.gen
              /\ McKeeps(y, mcworld, mcpub, mcdirty, mcgen, mctask)
              /\ McShows(y, mcworld, mcpub, mcdirty, mcgen, mctask),
           McNames(mcseen', McOpen(mcsess)), Len(mcseen') <= McLimit,
           \/ q.pc = "idle"
           \/ /\ mcreq[r].pc # "idle" /\ q.s = mcreq[r].s /\ q.kind = mcreq[r].kind
              /\ q.calm = mcreq[r].calm /\ q.hears = mcreq[r].hears /\ q.news = mcreq[r].news
              /\ McHolds(q, mcworld, mcpub, mcdirty, mcgen)
              /\ McFits(q, mcsess'[q.s], mcgen, mctask)
           \/ /\ q.s \in McSess /\ q.kind # "none" /\ mcsess' = mcsess
              /\ McHears(q, mcsess[q.s], mcpub, mcdirty, mcgen, mctask)
              /\ McHolds(q, mcworld, mcpub, mcdirty, mcgen)
              /\ McFits(q, mcsess[q.s], mcgen, mctask)
    PROVE  McInv'
<1>1. mcsess \in [McSess -> McSessions] /\ mcreq \in [McReqs -> McAsks]
      /\ \A v \in McReqs : mcreq[v].pc # "idle" => mcreq[v].s \in McSess /\ mcreq[v].kind # "none"
  BY DEF McInv, McTables
<1>2. /\ mcsess' \in [McSess -> McSessions]
      /\ \A v \in McSess :
            \/ mcsess'[v] = mcsess[v]
            \/ /\ v = s /\ mcsess'[v] = y
               /\ y \in McSessions /\ mcsess[s].st = "open" /\ y.st = "open"
               /\ y.init = mcsess[s].init /\ y.stream = mcsess[s].stream
               /\ y.cat.gen = mcsess[s].cat.gen
               /\ McKeeps(y, mcworld, mcpub, mcdirty, mcgen, mctask)
               /\ McShows(y, mcworld, mcpub, mcdirty, mcgen, mctask)
  <2>1. CASE mcsess' = mcsess
    BY <1>1, <2>1
  <2>2. CASE mcsess' # mcsess
    BY <1>1, <2>2
  <2>3. QED BY <2>1, <2>2
<1>3. /\ mcreq' \in [McReqs -> McAsks] /\ mcreq'[r] = q
      /\ \A v \in McReqs : v # r => mcreq'[v] = mcreq[v]
  BY <1>1
<1>4. q.pc # "idle" => q.s \in McSess /\ q.kind # "none"
  BY <1>1
<1>5. McTables'
  BY <1>1, <1>2, <1>3, <1>4 DEF McTables
<1>6. McOrder'
  <2>1. \A v \in McSess : v \in McOpen(mcsess) <=> v \in McOpen(mcsess')
    BY <1>2 DEF McOpen
  <2>2. McNames(mcseen', McOpen(mcsess'))
    BY <2>1, McSameNames
  <2>3. QED BY <2>2 DEF McOrder
<1>7. \A v \in McSess :
          \/ mcsess'[v] = mcsess[v]
          \/ /\ McLike(mcsess[v], mcsess'[v])
             /\ McKeeps(mcsess'[v], mcworld, mcpub, mcdirty, mcgen, mctask)
             /\ McShows(mcsess'[v], mcworld, mcpub, mcdirty, mcgen, mctask)
  BY <1>2 DEF McLike
<1>8. \A v \in McReqs :
          \/ mcreq'[v] = mcreq[v]
          \/ mcreq'[v].pc = "idle"
          \/ /\ mcreq[v].pc # "idle" /\ mcreq'[v].s = mcreq[v].s
             /\ \A x : McHears(mcreq[v], x, mcpub, mcdirty, mcgen, mctask)
                       => McHears(mcreq'[v], x, mcpub, mcdirty, mcgen, mctask)
             /\ McHolds(mcreq'[v], mcworld, mcpub, mcdirty, mcgen)
             /\ McFits(mcreq'[v], mcsess'[mcreq[v].s], mcgen, mctask)
          \/ LET k == mcreq'[v] x == mcsess'[k.s] IN
             /\ McHears(k, x, mcpub, mcdirty, mcgen, mctask)
             /\ McHolds(k, mcworld, mcpub, mcdirty, mcgen)
             /\ McFits(k, x, mcgen, mctask)
  <2> SUFFICES ASSUME NEW v \in McReqs
               PROVE  \/ mcreq'[v] = mcreq[v]
                      \/ mcreq'[v].pc = "idle"
                      \/ /\ mcreq[v].pc # "idle" /\ mcreq'[v].s = mcreq[v].s
                         /\ \A x : McHears(mcreq[v], x, mcpub, mcdirty, mcgen, mctask)
                                   => McHears(mcreq'[v], x, mcpub, mcdirty, mcgen, mctask)
                         /\ McHolds(mcreq'[v], mcworld, mcpub, mcdirty, mcgen)
                         /\ McFits(mcreq'[v], mcsess'[mcreq[v].s], mcgen, mctask)
                      \/ LET k == mcreq'[v] x == mcsess'[k.s] IN
                         /\ McHears(k, x, mcpub, mcdirty, mcgen, mctask)
                         /\ McHolds(k, mcworld, mcpub, mcdirty, mcgen)
                         /\ McFits(k, x, mcgen, mctask)
    OBVIOUS
  <2>1. CASE v # r
    BY <1>3, <2>1
  <2>2. CASE v = r
    <3>1. CASE q.pc = "idle"
      BY <1>3, <2>2, <3>1
    <3>2. CASE /\ mcreq[r].pc # "idle" /\ q.s = mcreq[r].s /\ q.kind = mcreq[r].kind
               /\ q.calm = mcreq[r].calm /\ q.hears = mcreq[r].hears /\ q.news = mcreq[r].news
               /\ McHolds(q, mcworld, mcpub, mcdirty, mcgen)
               /\ McFits(q, mcsess'[q.s], mcgen, mctask)
      <4>1. \A x : McHears(mcreq[r], x, mcpub, mcdirty, mcgen, mctask)
                   => McHears(q, x, mcpub, mcdirty, mcgen, mctask)
        BY <3>2 DEF McHears
      <4>2. QED BY <1>3, <2>2, <3>2, <4>1
    <3>3. CASE /\ q.s \in McSess /\ q.kind # "none" /\ mcsess' = mcsess
               /\ McHears(q, mcsess[q.s], mcpub, mcdirty, mcgen, mctask)
               /\ McHolds(q, mcworld, mcpub, mcdirty, mcgen)
               /\ McFits(q, mcsess[q.s], mcgen, mctask)
      BY <1>3, <2>2, <3>3
    <3>4. QED BY <3>1, <3>2, <3>3
  <2>3. QED BY <2>1, <2>2
<1>9. QED BY <1>5, <1>6, <1>7, <1>8, McStep

\* A session and a request of it, as the invariant has them.
LEMMA McAtWork ==
    ASSUME McInv, NEW r \in McReqs, mcreq[r].pc # "idle"
    PROVE  LET q == mcreq[r] x == mcsess[q.s] IN
           /\ q \in McAsks /\ q.s \in McSess /\ q.kind # "none"
           /\ q.cat \in McCats /\ q.nat \in SUBSET McBinds /\ q.lst \in SUBSET McBinds
           /\ x \in McSessions /\ x.cat \in McCats /\ x.view \in McViews
           /\ McKeeps(x, mcworld, mcpub, mcdirty, mcgen, mctask)
           /\ McShows(x, mcworld, mcpub, mcdirty, mcgen, mctask)
           /\ McHears(q, x, mcpub, mcdirty, mcgen, mctask)
           /\ McHolds(q, mcworld, mcpub, mcdirty, mcgen)
           /\ McFits(q, x, mcgen, mctask)
<1>1. mcreq[r] \in McAsks /\ mcreq[r].s \in McSess /\ mcreq[r].kind # "none"
  BY DEF McInv, McTables
<1>2. mcreq[r].cat \in McCats /\ mcreq[r].nat \in SUBSET McBinds /\ mcreq[r].lst \in SUBSET McBinds
  BY <1>1 DEF McAsks
<1>3. QED BY <1>1, <1>2, McFields DEF McInv, McAll

\* The world and the order, in a step that leaves both alone.
LEMMA McQuiet ==
    ASSUME McInv
    PROVE  /\ mcworld \in [McConns -> McEvery] /\ mcdirty \in BOOLEAN
           /\ mcpub \in Nat /\ mcgen \in Nat /\ mcgen <= mcpub
           /\ mcsess \in [McSess -> McSessions] /\ mcreq \in [McReqs -> McAsks]
           /\ McNames(mcseen, McOpen(mcsess)) /\ Len(mcseen) <= McLimit
<1>1. QED BY DEF McInv, McAround, McTables, McOrder

\* A session that was just seen keeps its place in the order of the open ones.
LEMMA McTouched ==
    ASSUME McInv, NEW s \in McSess, mcseen' = mcseen \/ (Live(s) /\ mcseen' = Seen(s))
    PROVE  McNames(mcseen', McOpen(mcsess)) /\ Len(mcseen') <= McLimit
<1>1. CASE mcseen' = mcseen
  BY <1>1, McQuiet
<1>2. CASE Live(s) /\ mcseen' = Seen(s)
  <2>1. McOrder
    BY DEF McInv
  <2>2. QED BY <1>2, <2>1, McSeen, McQuiet
<1>3. QED BY <1>1, <1>2

\* A request begins.
LEMMA McKeepsBegin ==
    ASSUME McInv, NEW r \in McReqs, NEW s \in McSess, NEW k \in McKinds, McBegin(r, s, k)
    PROVE  McInv'
<1> DEFINE x == mcsess[s]
           calm == k \in {"tools", "res"} /\ Settled
           hears == k = "tools" /\ x.init /\ x.stream
           pc == IF k = "res" /\ x.cat.disc THEN "answer" ELSE "fetch"
           q == [pc |-> pc, s |-> s, kind |-> k, cat |-> x.cat, nat |-> x.nat, lst |-> {},
                 ok |-> TRUE, lgen |-> 0, calm |-> calm, hears |-> hears, news |-> FALSE]
<1>1. /\ x \in McSessions /\ x.cat \in McCats
      /\ McKeeps(x, mcworld, mcpub, mcdirty, mcgen, mctask)
  BY McFields
<1>2. x.st = "open" /\ Live(s) /\ mcreq[r].pc = "idle"
  BY DEF McBegin, Live
<1>3. k \in {"tools", "status", "call", "res"}
  BY McAssumption
<1>4. x.nat \in SUBSET McBinds /\ x.init \in BOOLEAN /\ x.stream \in BOOLEAN
  BY <1>1 DEF McSessions
<1>5. calm \in BOOLEAN /\ hears \in BOOLEAN /\ pc \in {"fetch", "answer"}
  OBVIOUS
<1>6. /\ mcreq' = [mcreq EXCEPT ![r] = q] /\ mcseen' = Seen(s) /\ mcsess' = mcsess
      /\ UNCHANGED <<mcworld, mcdirty, mcpub, mcgen, mctask>>
  BY DEF McBegin
<1>7. calm => McSettled(mcpub, mcdirty, mcgen, mctask) /\ k \in {"tools", "res"}
  BY DEF Settled, McSettled
<1>8. McSettled(mcpub, mcdirty, mcgen, mctask) /\ k = "tools" => calm
  BY DEF Settled, McSettled
<1>9. pc = "answer" => k = "res" /\ x.cat.disc
  OBVIOUS
<1>10. hears => k = "tools" /\ x.init /\ x.stream
  OBVIOUS
<1> HIDE DEF calm, hears, pc, x
<1>11. /\ q \in McAsks /\ q.pc = pc /\ q.s = s /\ q.kind = k /\ q.cat = x.cat /\ q.ok
       /\ q.calm = calm /\ q.hears = hears
  BY <1>1, <1>3, <1>4, <1>5 DEF McAsks
<1> HIDE DEF q
<1>12. McHears(q, x, mcpub, mcdirty, mcgen, mctask)
  BY <1>2, <1>7, <1>8, <1>10, <1>11 DEF McHears
<1>13. McHolds(q, mcworld, mcpub, mcdirty, mcgen)
  <2>1. q.cat.gen <= mcgen /\ McTrue(q.cat, mcworld, mcpub, mcdirty)
    BY <1>1, <1>11 DEF McKeeps
  <2>2. q.pc = "answer" => q.kind = "res" /\ q.cat.disc /\ (q.calm => q.cat.gen = mcgen)
    BY <1>1, <1>7, <1>9, <1>11 DEF McKeeps, McSettled
  <2>3. QED BY <1>5, <1>11, <2>1, <2>2 DEF McHolds
<1>14. McFits(q, x, mcgen, mctask)
  BY <1>5, <1>11 DEF McFits
<1>15. McNames(mcseen', McOpen(mcsess)) /\ Len(mcseen') <= McLimit
  BY <1>2, <1>6, McSeen, McQuiet DEF McInv
<1>16. q.s \in McSess /\ q.kind # "none" /\ x = mcsess[q.s]
  BY <1>3, <1>11 DEF x
<1>17. QED BY <1>6, <1>11, <1>12, <1>13, <1>14, <1>15, <1>16, McOneRequest

\* The connections are listed.
LEMMA McKeepsFetch ==
    ASSUME McInv, NEW r \in McReqs, McFetch(r)
    PROVE  McInv'
<1> DEFINE q == mcreq[r]
           s == q.s
           x == mcsess[s]
           lst == Bindings(mcworld)
           nat == IF q.kind = "res" THEN q.nat ELSE Native(lst)
           q1 == [q EXCEPT !.pc = "ensure", !.lst = lst, !.lgen = mcpub, !.nat = nat]
           q2 == [q EXCEPT !.pc = "ensure", !.ok = FALSE]
           y == [x EXCEPT !.nat = nat]
<1>1. q.pc = "fetch" /\ UNCHANGED <<mcworld, mcdirty, mcpub, mcgen, mctask>>
  BY DEF McFetch
<1>2. /\ q \in McAsks /\ s \in McSess /\ q.kind # "none"
      /\ q.cat \in McCats /\ q.nat \in SUBSET McBinds
      /\ x \in McSessions
      /\ McKeeps(x, mcworld, mcpub, mcdirty, mcgen, mctask)
      /\ McShows(x, mcworld, mcpub, mcdirty, mcgen, mctask)
      /\ McHolds(q, mcworld, mcpub, mcdirty, mcgen)
  BY <1>1, McAtWork
<1>3. /\ mcpub \in Nat /\ mcgen \in Nat /\ mcgen <= mcpub /\ mcreq \in [McReqs -> McAsks]
      /\ mcsess \in [McSess -> McSessions]
      /\ lst \in SUBSET McBinds /\ nat \in SUBSET McBinds
  BY <1>2, McQuiet, McSurfaces
<1>4. McNames(mcseen', McOpen(mcsess)) /\ Len(mcseen') <= McLimit
  <2>1. mcseen' = mcseen \/ (Live(s) /\ mcseen' = Seen(s))
    BY DEF McFetch, PutNative, Touch
  <2>2. QED BY <1>2, <2>1, McTouched
<1>5. CASE /\ mcreq' = [mcreq EXCEPT ![r].pc = "ensure", ![r].lst = lst, ![r].lgen = mcpub,
                                     ![r].nat = IF q.kind = "res" THEN @ ELSE Native(lst)]
           /\ IF q.kind = "res" THEN UNCHANGED <<mcsess, mcseen>> ELSE PutNative(s, Native(lst))
  <2>1. mcreq' = [mcreq EXCEPT ![r] = q1]
    BY <1>3, <1>5
  <2>2. mcsess' = mcsess \/ (x.st = "open" /\ mcsess' = [mcsess EXCEPT ![s] = y])
    BY <1>5 DEF PutNative, Live
  <2>3. q.kind = "tools" => nat = Native(lst)
    OBVIOUS
  <2> HIDE DEF nat, q, x, s
  <2>4. /\ q1 \in McAsks /\ q1.pc = "ensure" /\ q1.s = q.s /\ q1.kind = q.kind
        /\ q1.cat = q.cat /\ q1.nat = nat /\ q1.lst = lst /\ q1.lgen = mcpub
        /\ q1.ok = q.ok /\ q1.calm = q.calm /\ q1.hears = q.hears /\ q1.news = q.news
    BY <1>2, <1>3 DEF McAsks
  <2>5. /\ y \in McSessions /\ y.st = x.st /\ y.cat = x.cat /\ y.view = x.view
        /\ y.told = x.told /\ y.init = x.init /\ y.stream = x.stream
    BY <1>2, <1>3 DEF McSessions
  <2> HIDE DEF q1, y
  <2>6. McKeeps(y, mcworld, mcpub, mcdirty, mcgen, mctask)
        /\ McShows(y, mcworld, mcpub, mcdirty, mcgen, mctask)
    BY <1>2, <2>5 DEF McKeeps, McShows, McTrue
  <2>7. McHolds(q1, mcworld, mcpub, mcdirty, mcgen)
    <3>1. q1.cat.gen <= mcgen /\ McTrue(q1.cat, mcworld, mcpub, mcdirty)
      BY <1>2, <2>4 DEF McHolds
    <3>2. q1.cat.gen <= q1.lgen /\ q1.lgen <= mcpub
      BY <1>2, <1>3, <2>4, <3>1 DEF McCats
    <3>3. McListed(q1.lst, q1.lgen, mcworld, mcpub, mcdirty)
      BY <2>4 DEF McListed
    <3>4. q1.kind = "tools" => q1.nat = Native(Bindings(mcworld))
      BY <2>3, <2>4
    <3>5. QED BY <2>4, <3>1, <3>2, <3>3, <3>4 DEF McHolds
  <2>8. McFits(q1, mcsess'[q1.s], mcgen, mctask)
    BY <2>4 DEF McFits
  <2>9. QED BY <1>1, <1>2, <1>4, <2>1, <2>2, <2>4, <2>5, <2>6, <2>7, <2>8, McOneRequest DEF q, x, s
<1>6. CASE /\ "list" \in McFaults
           /\ mcreq' = [mcreq EXCEPT ![r] = IF q.kind = "status" THEN McNoReq ELSE q2]
           /\ UNCHANGED <<mcsess, mcseen>>
  <2>1. CASE q.kind = "status"
    <3>1. McNoReq \in McAsks /\ McNoReq.pc = "idle"
      BY McEmpty DEF McNoReq, McAsks
    <3>2. mcreq' = [mcreq EXCEPT ![r] = McNoReq]
      BY <1>6, <2>1
    <3>3. QED BY <1>1, <1>2, <1>4, <1>6, <3>1, <3>2, McOneRequest
  <2>2. CASE q.kind # "status"
    <3>1. mcreq' = [mcreq EXCEPT ![r] = q2]
      BY <1>6, <2>2
    <3> HIDE DEF q
    <3>2. /\ q2 \in McAsks /\ q2.pc = "ensure" /\ q2.s = q.s /\ q2.kind = q.kind
          /\ q2.cat = q.cat /\ ~q2.ok /\ q2.calm = q.calm /\ q2.hears = q.hears
          /\ q2.news = q.news
      BY <1>2 DEF McAsks
    <3> HIDE DEF q2
    <3>3. McHolds(q2, mcworld, mcpub, mcdirty, mcgen)
      BY <1>2, <3>2 DEF McHolds
    <3>4. McFits(q2, mcsess'[q2.s], mcgen, mctask)
      BY <3>2 DEF McFits
    <3>5. QED BY <1>1, <1>2, <1>4, <1>6, <3>1, <3>2, <3>3, <3>4, McOneRequest DEF q
  <2>3. QED BY <2>1, <2>2
<1>7. QED BY <1>5, <1>6 DEF McFetch

\* A catalog is kept by a session of its generation.
LEMMA McStored ==
    ASSUME McInv, NEW s \in McSess, NEW cat \in McCats, Stored(s, cat),
           cat.gen = mcsess[s].cat.gen /\ mcsess[s].st = "open"
               => cat.gen = mcgen \/ mctask = "stored",
           cat.gen <= mcgen, McTrue(cat, mcworld, mcpub, mcdirty)
    PROVE  LET y == [mcsess[s] EXCEPT !.cat = cat] IN
           \/ mcsess' = mcsess
           \/ /\ mcsess' = [mcsess EXCEPT ![s] = y]
              /\ y \in McSessions /\ mcsess[s].st = "open" /\ y.st = "open"
              /\ y.init = mcsess[s].init /\ y.stream = mcsess[s].stream
              /\ y.cat.gen = mcsess[s].cat.gen
              /\ McKeeps(y, mcworld, mcpub, mcdirty, mcgen, mctask)
              /\ McShows(y, mcworld, mcpub, mcdirty, mcgen, mctask)
<1> DEFINE x == mcsess[s]
           y == [x EXCEPT !.cat = cat]
<1>1. /\ x \in McSessions
      /\ McShows(x, mcworld, mcpub, mcdirty, mcgen, mctask)
  BY McFields
<1>2. CASE ~(Live(s) /\ x.cat.gen = cat.gen)
  BY <1>2 DEF Stored
<1>3. CASE Live(s) /\ x.cat.gen = cat.gen
  <2>1. mcsess' = [mcsess EXCEPT ![s] = y] /\ x.st = "open"
    BY <1>3 DEF Stored, Live
  <2>2. cat.gen = mcgen \/ mctask = "stored"
    BY <1>3, <2>1
  <2> HIDE DEF x
  <2>3. /\ y \in McSessions /\ y.st = x.st /\ y.cat = cat /\ y.view = x.view
        /\ y.told = x.told /\ y.init = x.init /\ y.stream = x.stream
    BY <1>1 DEF McSessions
  <2> HIDE DEF y
  <2>4. McKeeps(y, mcworld, mcpub, mcdirty, mcgen, mctask)
    BY <2>1, <2>2, <2>3 DEF McKeeps
  <2>5. McShows(y, mcworld, mcpub, mcdirty, mcgen, mctask)
    BY <1>1, <2>3 DEF McShows
  <2>6. QED BY <1>3, <2>1, <2>3, <2>4, <2>5 DEF x, y
<1>4. QED BY <1>2, <1>3

\* What is trimmed to the surface as it is says what holds of it.
LEMMA McTrimmed ==
    ASSUME NEW w \in [McConns -> McEvery], NEW cat \in McCats, McCurrent(cat, w)
    PROVE  McCurrent(Kept(cat, Bindings(w)), w)
<1> DEFINE lst == Bindings(w)
           k == Kept(cat, lst)
<1>1. lst \in SUBSET McBinds
  BY McSurfaces
<1>2. /\ k.pub = cat.pub \cap Upstream(lst)
      /\ k.errs = {c \in cat.errs : \E b \in Upstream(lst) : b[1] = c}
  BY <1>1, McKept
<1>3. \A b \in McBinds : b[1] \notin cat.errs => (b \in cat.pub <=> b \in Upstream(lst))
  BY DEF McCurrent
<1> HIDE DEF k, lst
<1>4. ASSUME NEW b \in McBinds, b[1] \notin k.errs
      PROVE  b \in k.pub <=> b \in Upstream(lst)
  <2>1. CASE b \in Upstream(lst)
    <3>1. b[1] \notin cat.errs
      BY <1>2, <1>4, <2>1
    <3>2. QED BY <1>2, <1>3, <2>1, <3>1
  <2>2. CASE b \notin Upstream(lst)
    BY <1>2, <2>2
  <2>3. QED BY <2>1, <2>2
<1>5. QED BY <1>4 DEF McCurrent, k, lst

\* A request has its catalog: it is known, cannot be had, or is to be asked for.
LEMMA McKeepsEnsure ==
    ASSUME McInv, NEW r \in McReqs, McEnsure(r)
    PROVE  McInv'
<1> DEFINE q == mcreq[r]
           s == q.s
           x == mcsess[s]
           known == q.cat.disc /\ q.cat.gen = mcgen
           asked(pc, cat) == [q EXCEPT !.pc = pc, !.cat = cat, !.lgen = 0]
<1>1. q.pc = "ensure" /\ UNCHANGED <<mcworld, mcdirty, mcpub, mcgen, mctask>>
  BY DEF McEnsure
<1>2. /\ q \in McAsks /\ s \in McSess /\ q.kind # "none"
      /\ q.cat \in McCats /\ q.lst \in SUBSET McBinds
      /\ McHolds(q, mcworld, mcpub, mcdirty, mcgen)
  BY <1>1, McAtWork
<1>3. /\ mcworld \in [McConns -> McEvery] /\ mcpub \in Nat /\ mcgen \in Nat /\ mcgen <= mcpub
      /\ mcreq \in [McReqs -> McAsks] /\ mcsess \in [McSess -> McSessions]
  BY McQuiet
<1>4. McNames(mcseen', McOpen(mcsess)) /\ Len(mcseen') <= McLimit
  <2>1. mcseen' = mcseen \/ (Live(s) /\ mcseen' = Seen(s))
    BY DEF McEnsure, Stored
  <2>2. QED BY <1>2, <2>1, McTouched
<1>5. ASSUME NEW pc \in {"answer", "discover"}, NEW cat \in McCats
      PROVE  /\ asked(pc, cat) \in McAsks /\ asked(pc, cat).pc = pc /\ asked(pc, cat).cat = cat
             /\ asked(pc, cat).s = q.s /\ asked(pc, cat).kind = q.kind
             /\ asked(pc, cat).calm = q.calm /\ asked(pc, cat).hears = q.hears
             /\ asked(pc, cat).news = q.news /\ asked(pc, cat).ok = q.ok
             /\ asked(pc, cat).nat = q.nat /\ asked(pc, cat).lst = q.lst
  <2> HIDE DEF q
  <2>1. QED BY <1>2 DEF McAsks
<1>6. ASSUME NEW pc, NEW cat,
             mcreq' = [mcreq EXCEPT ![r].pc = pc, ![r].cat = cat, ![r].lgen = 0]
      PROVE  mcreq' = [mcreq EXCEPT ![r] = asked(pc, cat)]
  BY <1>3, <1>6
<1>7. q.ok => /\ q.lgen <= mcpub /\ q.cat.gen <= q.lgen /\ q.lgen \in Nat
              /\ McListed(q.lst, q.lgen, mcworld, mcpub, mcdirty)
  BY <1>1, <1>2 DEF McHolds, McAsks
<1>8. q.ok /\ q.calm /\ q.kind = "tools" => q.nat = Native(Bindings(mcworld))
  BY <1>1, <1>2 DEF McHolds
<1>9. ASSUME NEW cat \in McCats, cat.disc, cat.gen = mcgen,
             McTrue(cat, mcworld, mcpub, mcdirty),
             q.kind = "tools" /\ q.ok /\ ~cat.brok => cat.pub \subseteq q.lst,
             mcreq' = [mcreq EXCEPT ![r].pc = "answer", ![r].cat = cat, ![r].lgen = 0],
             mcsess' = mcsess \/ Stored(s, cat)
      PROVE  McInv'
  <2> DEFINE k == asked("answer", cat)
             y == [mcsess[s] EXCEPT !.cat = cat]
  <2>1. mcreq' = [mcreq EXCEPT ![r] = k]
    BY <1>6, <1>9
  <2>2. /\ k \in McAsks /\ k.pc = "answer" /\ k.cat = cat /\ k.s = q.s /\ k.kind = q.kind
        /\ k.calm = q.calm /\ k.hears = q.hears /\ k.news = q.news /\ k.ok = q.ok
        /\ k.nat = q.nat /\ k.lst = q.lst
    BY <1>5, <1>9
  <2>3. \/ mcsess' = mcsess
        \/ /\ mcsess' = [mcsess EXCEPT ![s] = y]
           /\ y \in McSessions /\ mcsess[s].st = "open" /\ y.st = "open"
           /\ y.init = mcsess[s].init /\ y.stream = mcsess[s].stream
           /\ y.cat.gen = mcsess[s].cat.gen
           /\ McKeeps(y, mcworld, mcpub, mcdirty, mcgen, mctask)
           /\ McShows(y, mcworld, mcpub, mcdirty, mcgen, mctask)
    <3>1. cat.gen <= mcgen
      BY <1>3, <1>9
    <3>2. CASE Stored(s, cat)
      BY <1>2, <1>9, <3>1, <3>2, McStored
    <3>3. QED BY <1>9, <3>2
  <2> HIDE DEF k, y
  <2>4. McHolds(k, mcworld, mcpub, mcdirty, mcgen)
    BY <1>3, <1>8, <1>9, <2>2 DEF McHolds
  <2>5. McFits(k, mcsess'[k.s], mcgen, mctask)
    BY <2>2 DEF McFits
  <2>6. QED BY <1>1, <1>2, <1>4, <2>1, <2>2, <2>3, <2>4, <2>5, McOneRequest
<1>10. CASE /\ known /\ q.ok
            /\ mcreq' = [mcreq EXCEPT ![r].pc = "answer", ![r].cat = Kept(q.cat, q.lst),
                                      ![r].lgen = 0]
            /\ Stored(s, Kept(q.cat, q.lst))
  <2> DEFINE cat == Kept(q.cat, q.lst)
  <2>1. /\ cat \in McCats /\ cat.gen = mcgen /\ cat.disc /\ cat.brok = q.cat.brok
        /\ cat.raced = q.cat.raced /\ cat.pub \subseteq q.lst
    BY <1>2, <1>10, McKept DEF Upstream
  <2>2. McTrue(cat, mcworld, mcpub, mcdirty)
    <3>1. ASSUME ~cat.raced, ~cat.brok, mcgen = mcpub, ~mcdirty
          PROVE  McCurrent(cat, mcworld)
      <4>1. McCurrent(q.cat, mcworld)
        BY <1>2, <1>10, <2>1, <3>1 DEF McHolds, McTrue
      <4>2. q.lgen = mcpub
        BY <1>3, <1>7, <1>10, <3>1
      <4>3. q.lst = Bindings(mcworld)
        BY <1>7, <1>10, <3>1, <4>2 DEF McListed
      <4>4. QED BY <1>2, <1>3, <4>1, <4>3, McTrimmed
    <3>2. QED BY <2>1, <3>1 DEF McTrue
  <2>3. QED BY <1>9, <1>10, <2>1, <2>2
<1>11. CASE /\ known /\ ~q.ok
            /\ mcreq' = [mcreq EXCEPT ![r].pc = "answer", ![r].cat = q.cat, ![r].lgen = 0]
            /\ UNCHANGED <<mcsess, mcseen>>
  <2>1. McTrue(q.cat, mcworld, mcpub, mcdirty)
    BY <1>2 DEF McHolds
  <2>2. QED BY <1>2, <1>9, <1>11, <2>1
<1>12. CASE /\ ~known /\ ~q.ok
            /\ mcreq' = [mcreq EXCEPT ![r].pc = "answer", ![r].cat = Unlisted, ![r].lgen = 0]
            /\ Stored(s, Unlisted)
  <2>1. Unlisted \in McCats /\ Unlisted.gen = mcgen /\ Unlisted.disc /\ Unlisted.brok
    BY <1>3, McUnlisted
  <2>2. McTrue(Unlisted, mcworld, mcpub, mcdirty)
    BY <2>1 DEF McTrue
  <2>3. QED BY <1>9, <1>12, <2>1, <2>2
<1>13. CASE /\ ~known /\ q.ok
            /\ mcreq' = [mcreq EXCEPT ![r].pc = "discover", ![r].lgen = 0,
                           ![r].cat = [EmptyCat(mcgen) EXCEPT !.raced = q.lgen < mcgen]]
            /\ UNCHANGED <<mcsess, mcseen>>
  <2> DEFINE late == q.lgen < mcgen
             cat == [EmptyCat(mcgen) EXCEPT !.raced = late]
             k == asked("discover", cat)
  <2>1. late \in BOOLEAN
    OBVIOUS
  <2>2. cat \in McCats /\ cat.gen = mcgen /\ ~cat.disc /\ ~cat.brok /\ cat.raced = late
    BY <1>3, <2>1, McToAsk
  <2>3. mcreq' = [mcreq EXCEPT ![r] = k]
    BY <1>3, <1>13
  <2>4. /\ k \in McAsks /\ k.pc = "discover" /\ k.cat = cat /\ k.s = q.s /\ k.kind = q.kind
        /\ k.calm = q.calm /\ k.hears = q.hears /\ k.news = q.news /\ k.ok = q.ok
        /\ k.nat = q.nat /\ k.lst = q.lst
    BY <1>5, <2>2
  <2> HIDE DEF k, cat
  <2>5. ~late => McListed(q.lst, mcgen, mcworld, mcpub, mcdirty)
    <3>1. ASSUME ~late, mcgen = mcpub, ~mcdirty PROVE q.lst = Bindings(mcworld)
      <4>1. q.lgen = mcpub
        BY <1>3, <1>7, <1>13, <3>1
      <4>2. QED BY <1>7, <1>13, <3>1, <4>1 DEF McListed
    <3>2. QED BY <3>1 DEF McListed
  <2> HIDE DEF late
  <2>6. McHolds(k, mcworld, mcpub, mcdirty, mcgen)
    <3>1. k.cat.gen <= mcgen /\ McTrue(k.cat, mcworld, mcpub, mcdirty)
      BY <1>3, <2>2, <2>4 DEF McTrue
    <3>2. ~k.cat.raced => McListed(k.lst, k.cat.gen, mcworld, mcpub, mcdirty)
      BY <2>2, <2>4, <2>5
    <3>3. QED BY <1>8, <1>13, <2>2, <2>4, <3>1, <3>2 DEF McHolds
  <2>7. McFits(k, mcsess'[k.s], mcgen, mctask)
    BY <2>2, <2>4 DEF McFits
  <2>8. QED BY <1>1, <1>2, <1>4, <1>13, <2>3, <2>4, <2>6, <2>7, McOneRequest
<1>14. QED BY <1>10, <1>11, <1>12, <1>13 DEF McEnsure

\* What was discovered by a listing of the surface as it is says what holds of it.
LEMMA McFresh ==
    ASSUME NEW w \in [McConns -> McEvery], NEW cat \in McCats, NEW errs \in SUBSET McConns
    PROVE  McCurrent(Discovered(cat, Bindings(w), errs), w)
<1> DEFINE lst == Bindings(w)
           k == Discovered(cat, lst, errs)
<1>1. lst \in SUBSET McBinds
  BY McSurfaces
<1>2. k.errs = errs /\ k.pub = {b \in Upstream(lst) : b[1] \notin errs}
  BY <1>1, McFound
<1> HIDE DEF k, lst
<1>3. \A b \in McBinds : b[1] \notin k.errs => (b \in k.pub <=> b \in Upstream(lst))
  BY <1>2
<1>4. QED BY <1>3 DEF McCurrent, k, lst

\* The servers that were listed are asked.
LEMMA McKeepsDiscover ==
    ASSUME McInv, NEW r \in McReqs, McDiscover(r)
    PROVE  McInv'
<1> DEFINE q == mcreq[r]
           s == q.s
           x == mcsess[s]
<1>1. q.pc = "discover" /\ UNCHANGED <<mcworld, mcdirty, mcpub, mcgen, mctask>>
  BY DEF McDiscover
<1>2. /\ q \in McAsks /\ s \in McSess /\ q.kind # "none"
      /\ q.cat \in McCats /\ q.lst \in SUBSET McBinds
      /\ McHolds(q, mcworld, mcpub, mcdirty, mcgen) /\ McFits(q, x, mcgen, mctask)
  BY <1>1, McAtWork
<1>3. /\ mcworld \in [McConns -> McEvery] /\ mcpub \in Nat /\ mcgen \in Nat /\ mcgen <= mcpub
      /\ mcreq \in [McReqs -> McAsks]
  BY McQuiet
<1>4. McNames(mcseen', McOpen(mcsess)) /\ Len(mcseen') <= McLimit
  <2>1. mcseen' = mcseen \/ (Live(s) /\ mcseen' = Seen(s))
    BY DEF McDiscover, Stored
  <2>2. QED BY <1>2, <2>1, McTouched
<1>5. PICK errs \in Failing(q.lst) :
        /\ Stored(s, Discovered(q.cat, q.lst, errs))
        /\ mcreq' = [mcreq EXCEPT ![r].pc = "answer", ![r].cat = Discovered(q.cat, q.lst, errs)]
  BY DEF McDiscover
<1>6. errs \in SUBSET McConns
  <2>1. \A b \in Upstream(q.lst) : b[1] \in McConns
    BY <1>2 DEF Upstream, McBinds
  <2>2. QED BY <1>5, <2>1 DEF Failing
<1> DEFINE cat == Discovered(q.cat, q.lst, errs)
           k == [q EXCEPT !.pc = "answer", !.cat = cat]
           y == [mcsess[s] EXCEPT !.cat = cat]
<1>7. /\ cat \in McCats /\ cat.gen = q.cat.gen /\ cat.disc /\ cat.brok = q.cat.brok
      /\ cat.raced = q.cat.raced /\ cat.pub = {b \in Upstream(q.lst) : b[1] \notin errs}
  <2> HIDE DEF q
  <2>1. q.cat \in McCats /\ q.lst \in SUBSET McBinds
    BY <1>2
  <2>2. QED BY <1>6, <2>1, McFound
<1>8. cat.gen <= mcgen /\ cat.pub \subseteq q.lst
  BY <1>2, <1>7 DEF McHolds, Upstream
<1>9. McTrue(cat, mcworld, mcpub, mcdirty)
  <2>1. ASSUME ~cat.raced, cat.gen = mcpub, ~mcdirty PROVE McCurrent(cat, mcworld)
    <3>1. q.lst = Bindings(mcworld)
      BY <1>1, <1>2, <1>7, <2>1 DEF McHolds, McListed
    <3>2. QED BY <1>2, <1>3, <1>6, <3>1, McFresh
  <2>2. QED BY <2>1 DEF McTrue
<1>10. mcreq' = [mcreq EXCEPT ![r] = k]
  BY <1>3, <1>5
<1>11. \/ mcsess' = mcsess
       \/ /\ mcsess' = [mcsess EXCEPT ![s] = y]
          /\ y \in McSessions /\ mcsess[s].st = "open" /\ y.st = "open"
          /\ y.init = mcsess[s].init /\ y.stream = mcsess[s].stream
          /\ y.cat.gen = mcsess[s].cat.gen
          /\ McKeeps(y, mcworld, mcpub, mcdirty, mcgen, mctask)
          /\ McShows(y, mcworld, mcpub, mcdirty, mcgen, mctask)
  <2>1. cat.gen = mcsess[s].cat.gen /\ mcsess[s].st = "open"
            => cat.gen = mcgen \/ mctask = "stored"
    BY <1>1, <1>2, <1>7 DEF McFits
  <2>2. Stored(s, cat)
    BY <1>5
  <2> HIDE DEF cat
  <2>3. QED BY <1>2, <1>7, <1>8, <1>9, <2>1, <2>2, McStored
<1> HIDE DEF cat, q, y
<1>12. /\ k \in McAsks /\ k.pc = "answer" /\ k.cat = cat /\ k.s = q.s /\ k.kind = q.kind
       /\ k.calm = q.calm /\ k.hears = q.hears /\ k.news = q.news /\ k.ok = q.ok
       /\ k.nat = q.nat /\ k.lst = q.lst
  BY <1>2, <1>7 DEF McAsks
<1> HIDE DEF k
<1>13. McHolds(k, mcworld, mcpub, mcdirty, mcgen)
  <2>1. q.calm => cat.gen = mcgen
    BY <1>1, <1>2, <1>7 DEF McHolds
  <2>2. q.ok /\ q.calm /\ q.kind = "tools" => q.nat = Native(Bindings(mcworld))
    BY <1>1, <1>2 DEF McHolds
  <2>3. QED BY <1>7, <1>8, <1>9, <1>12, <2>1, <2>2 DEF McHolds
<1>14. McFits(k, mcsess'[k.s], mcgen, mctask)
  BY <1>12 DEF McFits
<1>15. QED BY <1>1, <1>2, <1>4, <1>10, <1>11, <1>12, <1>13, <1>14, McOneRequest DEF q

\* Native tools and current upstream bindings are the surface; so it is of resources.
LEMMA McWhole ==
    ASSUME NEW w \in [McConns -> McEvery], NEW cat \in McCats, McCurrent(cat, w),
           NEW b \in McBinds, b[1] \notin cat.errs
    PROVE  /\ b \in Native(Bindings(w)) \cup cat.pub <=> b \in Bindings(w)
           /\ b \in Resources(cat.pub) <=> b \in Resources(Bindings(w))
<1>1. b \in cat.pub <=> b \in Upstream(Bindings(w))
  BY DEF McCurrent
<1>2. b \in Bindings(w) => b[2] \in {"native", "open", "curated"}
  BY DEF Bindings, McEvery
<1>3. QED BY <1>1, <1>2 DEF Native, Upstream, Resources

\* What an answer shows is what the invariant asks of a view.
LEMMA McAnswered ==
    ASSUME NEW w \in [McConns -> McEvery], NEW p, NEW d, NEW g, NEW t,
           NEW q \in McAsks, NEW x, q.cat \in McCats, q.pc = "answer",
           q.kind \in {"tools", "res"}, x.st = "open",
           McHears(q, x, p, d, g, t), McHolds(q, w, p, d, g),
           NEW names \in SUBSET McBinds,
           names = IF q.kind = "tools" THEN q.nat \cup q.cat.pub ELSE Resources(q.cat.pub)
    PROVE  LET v == View(q, names) IN
           /\ v \in McViews /\ ~v.ghost
           /\ v.hears => x.init /\ x.stream
           /\ v.calm => McSettled(p, d, g, t)
           /\ v.kind # "none" /\ v.calm /\ ~v.raced => McAcc(v, w)
           /\ McSettled(p, d, g, t) /\ v.kind = "tools" /\ v.hears /\ ~v.raced =>
                 McAcc(v, w) \/ q.news
<1> DEFINE v == View(q, names)
<1>1. /\ v \in McViews
      /\ q.cat.brok \/ ~q.ok => v = NoView
      /\ ~q.cat.brok /\ q.ok =>
            /\ v.kind = q.kind /\ v.names = names
            /\ v.errs = q.cat.errs /\ v.raced = q.cat.raced
            /\ v.calm = q.calm /\ v.hears = q.hears
            /\ v.ghost = (q.kind = "tools" /\ ~(q.cat.pub \subseteq q.lst))
  BY McViewed
<1> HIDE DEF v
<1>2. CASE q.cat.brok \/ ~q.ok
  <2>1. NoView.kind = "none" /\ ~NoView.ghost /\ ~NoView.hears /\ ~NoView.calm
    BY DEF NoView
  <2>2. QED BY <1>1, <1>2, <2>1 DEF v
<1>3. CASE ~q.cat.brok /\ q.ok
  <2>1. ~v.ghost
    BY <1>1, <1>3 DEF McHolds
  <2>2. v.hears => x.init /\ x.stream
    BY <1>1, <1>3 DEF McHears
  <2>3. v.calm => McSettled(p, d, g, t)
    BY <1>1, <1>3 DEF McHears
  <2>4. ASSUME q.calm, ~q.cat.raced PROVE McAcc(v, w)
    <3>1. McCurrent(q.cat, w)
      BY <1>3, <2>4 DEF McHears, McHolds, McTrue, McSettled
    <3>2. CASE q.kind = "tools"
      <4>1. q.nat = Native(Bindings(w)) /\ names = q.nat \cup q.cat.pub
        BY <1>3, <2>4, <3>2 DEF McHolds
      <4>2. McTruth(v.kind, w) = Bindings(w)
        BY <1>1, <1>3, <3>2 DEF McTruth
      <4>3. \A b \in McBinds : b[1] \notin q.cat.errs => (b \in names <=> b \in Bindings(w))
        BY <3>1, <4>1, McWhole
      <4>4. QED BY <1>1, <1>3, <4>2, <4>3 DEF McAcc
    <3>3. CASE q.kind = "res"
      <4>1. names = Resources(q.cat.pub)
        BY <3>3
      <4>2. McTruth(v.kind, w) = Resources(Bindings(w))
        BY <1>1, <1>3, <3>3 DEF McTruth
      <4>3. \A b \in McBinds :
                b[1] \notin q.cat.errs => (b \in names <=> b \in Resources(Bindings(w)))
        BY <3>1, <4>1, McWhole
      <4>4. QED BY <1>1, <1>3, <4>2, <4>3 DEF McAcc
    <3>4. QED BY <3>2, <3>3
  <2>5. v.kind # "none" /\ v.calm /\ ~v.raced => McAcc(v, w)
    BY <1>1, <1>3, <2>4
  <2>6. McSettled(p, d, g, t) /\ v.kind = "tools" /\ v.hears /\ ~v.raced => McAcc(v, w) \/ q.news
    <3>1. McSettled(p, d, g, t) /\ q.hears => q.calm \/ q.news
      BY DEF McHears
    <3>2. QED BY <1>1, <1>3, <2>4, <3>1
  <2>7. QED BY <1>1, <2>1, <2>2, <2>3, <2>5, <2>6 DEF v
<1>4. QED BY <1>2, <1>3

\* A request is answered.
LEMMA McKeepsAnswer ==
    ASSUME McInv, NEW r \in McReqs, McAnswer(r)
    PROVE  McInv'
<1> DEFINE q == mcreq[r]
           s == q.s
           x == mcsess[s]
           y == CASE q.kind = "tools" -> ListTools(x, q)
                  [] q.kind = "status" -> StatusResult(x, q)
                  [] q.kind = "call" -> CallTool(x, q)
                  [] q.kind = "res" -> ListResources(x, q)
<1>1. q.pc = "answer" /\ UNCHANGED <<mcworld, mcdirty, mcpub, mcgen, mctask>>
      /\ mcreq' = [mcreq EXCEPT ![r] = McNoReq]
  BY DEF McAnswer
<1>2. /\ q \in McAsks /\ s \in McSess /\ q.kind # "none"
      /\ q.cat \in McCats /\ q.lst \in SUBSET McBinds /\ q.nat \in SUBSET McBinds
      /\ x \in McSessions
      /\ McKeeps(x, mcworld, mcpub, mcdirty, mcgen, mctask)
      /\ McShows(x, mcworld, mcpub, mcdirty, mcgen, mctask)
      /\ McHears(q, x, mcpub, mcdirty, mcgen, mctask)
      /\ McHolds(q, mcworld, mcpub, mcdirty, mcgen)
  BY <1>1, McAtWork
<1>3. mcworld \in [McConns -> McEvery] /\ mcsess \in [McSess -> McSessions]
  BY McQuiet
<1>4. McNames(mcseen', McOpen(mcsess)) /\ Len(mcseen') <= McLimit
  <2>1. mcseen' = mcseen \/ (Live(s) /\ mcseen' = Seen(s))
    BY DEF McAnswer, Touch
  <2>2. QED BY <1>2, <2>1, McTouched
<1>5. McNoReq \in McAsks /\ McNoReq.pc = "idle"
  BY McEmpty DEF McNoReq, McAsks
<1>6. CASE ~Live(s)
  <2>1. mcsess' = mcsess
    BY <1>6 DEF McAnswer
  <2>2. QED BY <1>1, <1>2, <1>4, <1>5, <2>1, McOneRequest
<1>7. CASE Live(s)
  <2>1. mcsess' = [mcsess EXCEPT ![s] = y] /\ x.st = "open"
    BY <1>7 DEF McAnswer, Live
  <2> DEFINE names == IF q.kind = "tools" THEN q.nat \cup q.cat.pub ELSE Resources(q.cat.pub)
             v == View(q, names)
  <2>2. q.cat.pub \in SUBSET McBinds /\ q.news \in BOOLEAN /\ q.hears \in BOOLEAN
        /\ x.told \in BOOLEAN /\ x.stream \in BOOLEAN
    BY <1>2 DEF McCats, McAsks, McSessions
  <2>3. names \in SUBSET McBinds /\ Shown(q) \in SUBSET McBinds
    BY <1>2, <2>2 DEF Resources, Shown
  <2>4. Noted(Shown(q)) \in [some : BOOLEAN, names : SUBSET McBinds]
    BY <2>3 DEF Noted
  <2>5. Differs(x.tools, Shown(q)) \in BOOLEAN
    BY <1>2 DEF Differs, McSessions
  <2>6. q.kind \in {"tools", "status", "call", "res"}
    BY <1>2 DEF McAsks
  <2>7. ASSUME q.kind \in {"tools", "res"}
        PROVE  /\ v \in McViews /\ ~v.ghost
               /\ v.hears => x.init /\ x.stream
               /\ v.calm => McSettled(mcpub, mcdirty, mcgen, mctask)
               /\ v.kind # "none" /\ v.calm /\ ~v.raced => McAcc(v, mcworld)
               /\ McSettled(mcpub, mcdirty, mcgen, mctask) /\ v.kind = "tools"
                     /\ v.hears /\ ~v.raced => McAcc(v, mcworld) \/ q.news
    BY <1>1, <1>2, <1>3, <2>1, <2>3, <2>7, McAnswered
  <2>8. /\ y \in McSessions /\ y.st = x.st /\ y.init = x.init /\ y.stream = x.stream
        /\ y.cat = x.cat
        /\ McShows(y, mcworld, mcpub, mcdirty, mcgen, mctask)
    <3>1. CASE q.kind = "tools"
      <4> DEFINE told == q.news \/ (q.hears /\ Differs(x.tools, Shown(q)))
                 note == Noted(Shown(q))
      <4>1. y = [x EXCEPT !.tools = note, !.view = v, !.told = told]
        BY <3>1 DEF ListTools, Shown
      <4>2. told \in BOOLEAN /\ (q.news => told)
        BY <2>2, <2>5
      <4>3. note \in [some : BOOLEAN, names : SUBSET McBinds] /\ v \in McViews
        BY <2>4, <2>7, <3>1
      <4> HIDE DEF told, note, v, names, y, x, q
      <4>4. /\ y \in McSessions /\ y.st = x.st /\ y.init = x.init /\ y.stream = x.stream
            /\ y.cat = x.cat /\ y.view = v /\ y.told = told
        BY <1>2, <4>1, <4>2, <4>3 DEF McSessions
      <4>5. McShows(y, mcworld, mcpub, mcdirty, mcgen, mctask)
        BY <2>1, <2>7, <3>1, <4>2, <4>4 DEF McShows
      <4>6. QED BY <4>4, <4>5
    <3>2. CASE q.kind = "res"
      <4>1. y = [x EXCEPT !.view = v, !.told = FALSE] /\ v \in McViews
        BY <2>7, <3>2 DEF ListResources
      <4>2. v.kind # "tools"
        <5>1. NoView.kind = "none"
          BY DEF NoView
        <5>2. QED BY <1>2, <2>3, <3>2, <5>1, McViewed
      <4> HIDE DEF v, names, y, x, q
      <4>3. /\ y \in McSessions /\ y.st = x.st /\ y.init = x.init /\ y.stream = x.stream
            /\ y.cat = x.cat /\ y.view = v
        BY <1>2, <4>1 DEF McSessions
      <4>4. McShows(y, mcworld, mcpub, mcdirty, mcgen, mctask)
        BY <2>1, <2>7, <3>2, <4>2, <4>3 DEF McShows
      <4>5. QED BY <4>3, <4>4
    <3>3. CASE q.kind = "status"
      <4> DEFINE told == x.told \/ (x.stream /\ x.view.kind = "tools"
                                    /\ Differs(x.tools, Shown(q)))
                 note == Noted(Shown(q))
      <4>1. y = [x EXCEPT !.tools = note, !.told = told]
        BY <3>3 DEF StatusResult
      <4>2. told \in BOOLEAN /\ (x.told => told)
        BY <2>2, <2>5
      <4>3. note \in [some : BOOLEAN, names : SUBSET McBinds]
        BY <2>4
      <4> HIDE DEF told, note, y, x, q
      <4>4. /\ y \in McSessions /\ y.st = x.st /\ y.init = x.init /\ y.stream = x.stream
            /\ y.cat = x.cat /\ y.view = x.view /\ y.told = told
        BY <1>2, <4>1, <4>2, <4>3 DEF McSessions
      <4>5. McShows(y, mcworld, mcpub, mcdirty, mcgen, mctask)
        BY <1>2, <4>2, <4>4 DEF McShows
      <4>6. QED BY <4>4, <4>5
    <3>4. CASE q.kind = "call"
      <4>1. y = x
        BY <3>4 DEF CallTool
      <4>2. QED BY <1>2, <4>1
    <3>5. QED BY <2>6, <3>1, <3>2, <3>3, <3>4
  <2> HIDE DEF y
  <2>9. McKeeps(y, mcworld, mcpub, mcdirty, mcgen, mctask)
    BY <1>2, <2>8 DEF McKeeps
  <2>10. QED BY <1>1, <1>2, <1>4, <1>5, <2>1, <2>8, <2>9, McOneRequest
<1>8. QED BY <1>6, <1>7

\* While a change is not taken in, nobody is calm.
LEMMA McStirred ==
    ASSUME McInv, ~McSettled(mcpub, mcdirty, mcgen, mctask)
    PROVE  /\ \A s \in McSess : ~mcsess[s].view.calm
           /\ \A r \in McReqs : mcreq[r].pc # "idle" => ~mcreq[r].calm
<1>1. QED BY DEF McInv, McEach, McAll, McShows, McHears

\* The surface of the broker changes.
LEMMA McKeepsChange ==
    ASSUME McInv, NEW c \in McConns, NEW m \in McModes, McChange(c, m)
    PROVE  McInv'
<1>1. /\ ~mcdirty /\ mcpub < McMaxGen
      /\ mcworld' = [mcworld EXCEPT ![c] = m] /\ mcdirty' = TRUE
      /\ mcsess' = [s \in McSess |-> [mcsess[s] EXCEPT !.view.calm = FALSE]]
      /\ mcreq' = [r \in McReqs |-> [mcreq[r] EXCEPT !.calm = FALSE]]
      /\ UNCHANGED <<mcpub, mcgen, mctask, mcseen>>
  BY DEF McChange
<1>2. McAround'
  <2>1. m \in McEvery
    BY McAssumption DEF McEvery
  <2>2. mcworld' \in [McConns -> McEvery]
    BY <1>1, <2>1 DEF McInv, McAround
  <2>3. mcdirty' \in BOOLEAN
    BY <1>1
  <2>4. QED BY <1>1, <2>2, <2>3 DEF McInv, McAround
<1>3. ASSUME NEW s \in McSess
      PROVE  /\ mcsess'[s] \in McSessions /\ mcsess'[s].st = mcsess[s].st
             /\ mcsess'[s].cat = mcsess[s].cat
             /\ mcsess'[s].init = mcsess[s].init /\ mcsess'[s].stream = mcsess[s].stream
             /\ mcsess'[s].view.kind = mcsess[s].view.kind
             /\ mcsess'[s].view.hears = mcsess[s].view.hears
             /\ mcsess'[s].view.ghost = mcsess[s].view.ghost
             /\ ~mcsess'[s].view.calm
  <2> DEFINE x == mcsess[s]
             v == [x.view EXCEPT !.calm = FALSE]
             y == [x EXCEPT !.view = v]
  <2>1. x \in McSessions /\ x.view \in McViews
    BY McFields
  <2>2. mcsess'[s] = y
    BY <1>1, <2>1
  <2> HIDE DEF x
  <2>3. /\ v \in McViews /\ v.kind = x.view.kind /\ v.hears = x.view.hears
        /\ v.ghost = x.view.ghost /\ ~v.calm
    BY <2>1 DEF McViews
  <2> HIDE DEF v
  <2>4. /\ y \in McSessions /\ y.st = x.st /\ y.cat = x.cat /\ y.init = x.init
        /\ y.stream = x.stream /\ y.view = v
    BY <2>1, <2>3 DEF McSessions
  <2>5. QED BY <2>2, <2>3, <2>4 DEF x
<1>4. ASSUME NEW r \in McReqs
      PROVE  /\ mcreq'[r] \in McAsks /\ mcreq'[r].pc = mcreq[r].pc /\ mcreq'[r].s = mcreq[r].s
             /\ mcreq'[r].kind = mcreq[r].kind /\ mcreq'[r].cat = mcreq[r].cat
             /\ mcreq'[r].lst = mcreq[r].lst /\ mcreq'[r].ok = mcreq[r].ok
             /\ mcreq'[r].lgen = mcreq[r].lgen /\ mcreq'[r].hears = mcreq[r].hears
             /\ ~mcreq'[r].calm
  <2> DEFINE q == mcreq[r]
             k == [q EXCEPT !.calm = FALSE]
  <2>1. q \in McAsks
    BY McQuiet
  <2>2. mcreq'[r] = k
    BY <1>1
  <2> HIDE DEF q
  <2>3. /\ k \in McAsks /\ k.pc = q.pc /\ k.s = q.s /\ k.kind = q.kind /\ k.cat = q.cat
        /\ k.lst = q.lst /\ k.ok = q.ok /\ k.lgen = q.lgen /\ k.hears = q.hears /\ ~k.calm
    BY <2>1 DEF McAsks
  <2>4. QED BY <2>2, <2>3 DEF q
<1>5. McTables'
  <2>1. mcsess' \in [McSess -> McSessions]
    BY <1>1, <1>3
  <2>2. mcreq' \in [McReqs -> McAsks]
    BY <1>1, <1>4
  <2>3. QED BY <1>4, <2>1, <2>2 DEF McInv, McTables
<1>6. McOrder'
  <2>1. \A s \in McSess : s \in McOpen(mcsess) <=> s \in McOpen(mcsess')
    BY <1>3 DEF McOpen
  <2>2. McNames(mcseen', McOpen(mcsess'))
    BY <1>1, <2>1, McQuiet, McSameNames
  <2>3. QED BY <1>1, <2>2 DEF McInv, McOrder
<1>7. mcdirty' /\ ~McSettled(mcpub', mcdirty', mcgen', mctask')
  BY <1>1 DEF McSettled
<1>8. McEach'
  <2> SUFFICES ASSUME NEW s \in McSess
               PROVE  /\ McKeeps(mcsess'[s], mcworld', mcpub', mcdirty', mcgen', mctask')
                      /\ McShows(mcsess'[s], mcworld', mcpub', mcdirty', mcgen', mctask')
    BY DEF McEach
  <2>1. /\ McKeeps(mcsess[s], mcworld, mcpub, mcdirty, mcgen, mctask)
        /\ McShows(mcsess[s], mcworld, mcpub, mcdirty, mcgen, mctask)
    BY McFields
  <2>2. McKeeps(mcsess'[s], mcworld', mcpub', mcdirty', mcgen', mctask')
    BY <1>1, <1>3, <1>7, <2>1 DEF McKeeps, McTrue
  <2>3. McShows(mcsess'[s], mcworld', mcpub', mcdirty', mcgen', mctask')
    BY <1>3, <1>7, <2>1 DEF McShows
  <2>4. QED BY <2>2, <2>3
<1>9. McAll'
  <2> SUFFICES ASSUME NEW r \in McReqs, mcreq'[r].pc # "idle"
               PROVE  /\ McHears(mcreq'[r], mcsess'[mcreq'[r].s], mcpub', mcdirty', mcgen', mctask')
                      /\ McHolds(mcreq'[r], mcworld', mcpub', mcdirty', mcgen')
                      /\ McFits(mcreq'[r], mcsess'[mcreq'[r].s], mcgen', mctask')
    BY DEF McAll
  <2> DEFINE q == mcreq[r]
             k == mcreq'[r]
             x == mcsess[q.s]
             z == mcsess'[k.s]
  <2>1. q.pc # "idle"
    BY <1>4
  <2>2. /\ q.s \in McSess /\ McHears(q, x, mcpub, mcdirty, mcgen, mctask)
        /\ McHolds(q, mcworld, mcpub, mcdirty, mcgen) /\ McFits(q, x, mcgen, mctask)
    BY <2>1, McAtWork
  <2>3. z.st = x.st /\ z.init = x.init /\ z.stream = x.stream /\ z.cat = x.cat
    BY <1>3, <1>4, <2>2
  <2>4. /\ k.pc = q.pc /\ k.kind = q.kind /\ k.cat = q.cat /\ k.lst = q.lst /\ k.ok = q.ok
        /\ k.lgen = q.lgen /\ k.hears = q.hears /\ ~k.calm
    BY <1>4
  <2> HIDE DEF q, k, x, z
  <2>5. McHears(k, z, mcpub', mcdirty', mcgen', mctask')
    BY <1>7, <2>2, <2>3, <2>4 DEF McHears
  <2>6. McHolds(k, mcworld', mcpub', mcdirty', mcgen')
    BY <1>1, <1>7, <2>2, <2>4 DEF McHolds, McTrue, McListed
  <2>7. McFits(k, z, mcgen', mctask')
    BY <1>1, <2>2, <2>3, <2>4 DEF McFits
  <2>8. QED BY <2>5, <2>6, <2>7 DEF k, z
<1>10. QED BY <1>2, <1>5, <1>6, <1>8, <1>9 DEF McInv

\* The generations move on, of the broker or of the host; sessions and requests are left.
LEMMA McKeepsGenerations ==
    ASSUME McInv, McAnnounce \/ McTaskStore
    PROVE  McInv'
<1>1. UNCHANGED <<mcworld, mcsess, mcseen, mcreq>>
  BY DEF McAnnounce, McTaskStore
<1>2. ~McSettled(mcpub, mcdirty, mcgen, mctask)
  BY DEF McAnnounce, McTaskStore, McSettled
<1>3. mcpub \in Nat /\ mcgen \in Nat /\ mcgen <= mcpub /\ mcpub <= McMaxGen /\ McMaxGen \in Nat
      /\ (mcdirty => mcpub < McMaxGen) /\ mcdirty \in BOOLEAN
  BY McAssumption DEF McInv, McAround
<1>4. McAround' /\ mcgen <= mcgen' /\ ~McSettled(mcpub', mcdirty', mcgen', mctask')
      /\ \/ mcpub' = mcpub + 1 /\ mcgen' = mcgen /\ mctask' = mctask
         \/ mcpub' = mcpub /\ mcdirty' = mcdirty /\ mctask' = "stored"
  <2>1. CASE McAnnounce
    <3>1. mcdirty /\ mcdirty' = FALSE /\ mcpub' = mcpub + 1 /\ mcgen' = mcgen /\ mctask' = mctask
          /\ mcworld' = mcworld
      BY <2>1 DEF McAnnounce
    <3>2. ~mcdirty' /\ mcdirty' \in BOOLEAN
      BY <3>1
    <3>3. mcpub' \in Nat /\ mcgen' <= mcpub' /\ mcpub' <= McMaxGen /\ mcgen' # mcpub'
          /\ mcgen <= mcgen'
      BY <1>3, <3>1
    <3>4. ~McSettled(mcpub', mcdirty', mcgen', mctask')
      BY <3>3 DEF McSettled
    <3>5. McAround'
      BY <3>1, <3>2, <3>3 DEF McInv, McAround
    <3>6. QED BY <3>1, <3>3, <3>4, <3>5
  <2>2. CASE McTaskStore
    <3>1. mcpub' = mcpub /\ mcdirty' = mcdirty /\ mcgen' = mcpub /\ mctask' = "stored"
          /\ mcworld' = mcworld
      BY <2>2 DEF McTaskStore
    <3>2. mcgen' \in Nat /\ mcgen' <= mcpub' /\ mcgen <= mcgen'
      BY <1>3, <3>1
    <3>3. ~McSettled(mcpub', mcdirty', mcgen', mctask')
      BY <3>1 DEF McSettled
    <3>4. McAround'
      BY <1>3, <3>1, <3>2 DEF McInv, McAround
    <3>5. QED BY <3>1, <3>2, <3>3, <3>4
  <2>3. QED BY <2>1, <2>2
<1>5. ASSUME NEW cat \in McCats, cat.gen <= mcgen, McTrue(cat, mcworld, mcpub, mcdirty)
      PROVE  cat.gen <= mcgen' /\ McTrue(cat, mcworld', mcpub', mcdirty')
  <2>1. cat.gen \in Nat
    BY DEF McCats
  <2>2. CASE mcpub' = mcpub + 1
    <3>1. cat.gen # mcpub'
      BY <1>3, <1>5, <2>1, <2>2
    <3>2. cat.gen <= mcgen'
      BY <1>3, <1>4, <1>5, <2>1, <2>2
    <3>3. QED BY <3>1, <3>2 DEF McTrue
  <2>3. CASE mcpub' = mcpub /\ mcdirty' = mcdirty
    <3>1. mcgen' \in Nat
      BY <1>4 DEF McAround
    <3>2. cat.gen <= mcgen'
      BY <1>3, <1>4, <1>5, <2>1, <3>1
    <3>3. QED BY <1>1, <1>5, <2>3, <3>2 DEF McTrue
  <2>4. QED BY <1>4, <2>2, <2>3
<1>6. McTables' /\ McOrder'
  BY <1>1 DEF McInv, McTables, McOrder
<1>7. McEach'
  <2> SUFFICES ASSUME NEW s \in McSess
               PROVE  /\ McKeeps(mcsess[s], mcworld', mcpub', mcdirty', mcgen', mctask')
                      /\ McShows(mcsess[s], mcworld', mcpub', mcdirty', mcgen', mctask')
    BY <1>1 DEF McEach
  <2>1. /\ mcsess[s].cat \in McCats
        /\ McKeeps(mcsess[s], mcworld, mcpub, mcdirty, mcgen, mctask)
        /\ McShows(mcsess[s], mcworld, mcpub, mcdirty, mcgen, mctask)
    BY McFields
  <2>2. mcsess[s].cat.gen <= mcgen' /\ McTrue(mcsess[s].cat, mcworld', mcpub', mcdirty')
    BY <1>5, <2>1 DEF McKeeps
  <2>3. mcsess[s].cat.disc =>
            mcsess[s].st = "open" /\ (mcsess[s].cat.gen = mcgen' \/ mctask' = "stored")
    BY <1>4, <2>1 DEF McKeeps
  <2>4. McKeeps(mcsess[s], mcworld', mcpub', mcdirty', mcgen', mctask')
    BY <2>2, <2>3 DEF McKeeps
  <2>5. McShows(mcsess[s], mcworld', mcpub', mcdirty', mcgen', mctask')
    BY <1>2, <1>4, <2>1 DEF McShows
  <2>6. QED BY <2>4, <2>5
<1>8. McAll'
  <2> SUFFICES ASSUME NEW r \in McReqs, mcreq[r].pc # "idle"
               PROVE  /\ McHears(mcreq[r], mcsess[mcreq[r].s], mcpub', mcdirty', mcgen', mctask')
                      /\ McHolds(mcreq[r], mcworld', mcpub', mcdirty', mcgen')
                      /\ McFits(mcreq[r], mcsess[mcreq[r].s], mcgen', mctask')
    BY <1>1 DEF McAll
  <2> DEFINE q == mcreq[r]
             x == mcsess[q.s]
  <2>1. /\ q \in McAsks /\ q.cat \in McCats /\ McHears(q, x, mcpub, mcdirty, mcgen, mctask)
        /\ McHolds(q, mcworld, mcpub, mcdirty, mcgen) /\ McFits(q, x, mcgen, mctask)
    BY McAtWork
  <2>2. ~q.calm
    BY <1>2, McStirred
  <2> HIDE DEF q, x
  <2>3. McHears(q, x, mcpub', mcdirty', mcgen', mctask')
    BY <1>4, <2>1, <2>2 DEF McHears
  <2>4. q.cat.gen <= mcgen' /\ McTrue(q.cat, mcworld', mcpub', mcdirty')
    BY <1>5, <2>1 DEF McHolds
  <2>5. ASSUME NEW lst, NEW k \in Nat, k <= mcpub, McListed(lst, k, mcworld, mcpub, mcdirty)
        PROVE  k <= mcpub' /\ McListed(lst, k, mcworld', mcpub', mcdirty')
    <3>1. CASE mcpub' = mcpub + 1
      <4>1. k <= mcpub' /\ k # mcpub'
        BY <1>3, <2>5, <3>1
      <4>2. QED BY <4>1 DEF McListed
    <3>2. CASE mcpub' = mcpub /\ mcdirty' = mcdirty
      BY <1>1, <2>5, <3>2 DEF McListed
    <3>3. QED BY <1>4, <3>1, <3>2
  <2>6. q.lgen \in Nat /\ q.cat.gen \in Nat
    BY <2>1 DEF McAsks, McCats
  <2>7. q.pc = "ensure" /\ q.ok =>
            /\ q.lgen <= mcpub' /\ q.cat.gen <= q.lgen
            /\ McListed(q.lst, q.lgen, mcworld', mcpub', mcdirty')
    BY <2>1, <2>5, <2>6 DEF McHolds
  <2>8. q.cat.gen <= mcpub
    BY <1>3, <2>1, <2>6 DEF McHolds
  <2>9. q.pc = "discover" =>
            /\ q.ok /\ ~q.cat.disc /\ ~q.cat.brok
            /\ ~q.cat.raced => McListed(q.lst, q.cat.gen, mcworld', mcpub', mcdirty')
    BY <2>1, <2>5, <2>6, <2>8 DEF McHolds
  <2>10. q.pc = "answer" =>
             q.cat.disc /\ (q.kind = "tools" /\ q.ok /\ ~q.cat.brok => q.cat.pub \subseteq q.lst)
    BY <2>1 DEF McHolds
  <2>11. McHolds(q, mcworld', mcpub', mcdirty', mcgen')
    BY <2>2, <2>4, <2>7, <2>9, <2>10 DEF McHolds
  <2>12. McFits(q, x, mcgen', mctask')
    BY <1>4, <2>1 DEF McFits
  <2>13. QED BY <2>3, <2>11, <2>12 DEF q, x
<1>9. QED BY <1>4, <1>6, <1>7, <1>8 DEF McInv

\* The host empties the sessions' surfaces and tells the clients that listen.
LEMMA McKeepsInvalidate ==
    ASSUME McInv, McTaskInvalidate
    PROVE  McInv'
<1>1. /\ mctask = "stored" /\ mctask' = "wait"
      /\ mcsess' = [s \in McSess |-> IF Live(s) THEN Invalidated(mcsess[s]) ELSE mcsess[s]]
      /\ mcreq' = [r \in McReqs |-> [mcreq[r] EXCEPT !.news =
                      @ \/ (mcreq[r].hears /\ mcreq[r].kind = "tools" /\ Live(mcreq[r].s))]]
      /\ UNCHANGED <<mcworld, mcdirty, mcpub, mcgen, mcseen>>
  BY DEF McTaskInvalidate
<1>2. McAround' /\ mcgen \in Nat
  BY <1>1 DEF McInv, McAround
<1>3. ~McSettled(mcpub, mcdirty, mcgen, mctask)
  BY <1>1 DEF McSettled
<1>4. ASSUME NEW s \in McSess
      PROVE  /\ mcsess'[s] \in McSessions /\ mcsess'[s].st = mcsess[s].st
             /\ mcsess'[s].init = mcsess[s].init /\ mcsess'[s].stream = mcsess[s].stream
             /\ mcsess'[s].view = mcsess[s].view
             /\ mcsess'[s].cat \in McCats /\ mcsess'[s].cat.gen <= mcgen
             /\ ~mcsess'[s].cat.disc
             /\ mcsess[s].st = "open" =>
                   /\ mcsess'[s].cat.gen = mcgen
                   /\ mcsess[s].init /\ mcsess[s].stream /\ mcsess[s].view.kind = "tools"
                          => mcsess'[s].told
  <2> DEFINE x == mcsess[s]
             c == EmptyCat(mcgen)
             told == x.told \/ (x.init /\ x.stream /\ x.view.kind = "tools")
             y == [x EXCEPT !.nat = {}, !.cat = c, !.tools = NoNames, !.told = told]
  <2>1. /\ x \in McSessions /\ x.cat \in McCats
        /\ McKeeps(x, mcworld, mcpub, mcdirty, mcgen, mctask)
    BY McFields
  <2>2. c \in McCats /\ c.gen = mcgen /\ ~c.disc
    BY <1>2, McEmpty
  <2>3. NoNames \in [some : BOOLEAN, names : SUBSET McBinds]
    BY DEF NoNames
  <2>4. told \in BOOLEAN /\ (x.init /\ x.stream /\ x.view.kind = "tools" => told)
    BY <2>1 DEF McSessions
  <2>5. mcsess'[s] = IF x.st = "open" THEN y ELSE x
    BY <1>1 DEF Invalidated, Live
  <2> HIDE DEF x, c, told
  <2>6. /\ y \in McSessions /\ y.st = x.st /\ y.init = x.init /\ y.stream = x.stream
        /\ y.view = x.view /\ y.cat = c /\ y.told = told
    BY <2>1, <2>2, <2>3, <2>4 DEF McSessions
  <2> HIDE DEF y
  <2>7. CASE x.st = "open"
    <3>1. mcsess'[s] = y /\ mcgen <= mcgen
      BY <1>2, <2>5, <2>7
    <3>2. QED BY <2>2, <2>4, <2>6, <3>1 DEF x
  <2>8. CASE x.st # "open"
    <3>1. mcsess'[s] = x /\ ~x.cat.disc /\ x.cat.gen <= mcgen
      BY <2>1, <2>5, <2>8 DEF McKeeps
    <3>2. QED BY <2>1, <2>8, <3>1 DEF x
  <2>9. QED BY <2>7, <2>8
<1>5. ASSUME NEW r \in McReqs
      PROVE  /\ mcreq'[r] \in McAsks /\ mcreq'[r].pc = mcreq[r].pc /\ mcreq'[r].s = mcreq[r].s
             /\ mcreq'[r].kind = mcreq[r].kind /\ mcreq'[r].cat = mcreq[r].cat
             /\ mcreq'[r].lst = mcreq[r].lst /\ mcreq'[r].ok = mcreq[r].ok
             /\ mcreq'[r].nat = mcreq[r].nat
             /\ mcreq'[r].lgen = mcreq[r].lgen /\ mcreq'[r].hears = mcreq[r].hears
             /\ mcreq'[r].calm = mcreq[r].calm
             /\ mcreq[r].hears /\ mcreq[r].kind = "tools" /\ Live(mcreq[r].s) => mcreq'[r].news
  <2> DEFINE q == mcreq[r]
             news == q.news \/ (q.hears /\ q.kind = "tools" /\ Live(q.s))
             k == [q EXCEPT !.news = news]
  <2>1. q \in McAsks
    BY McQuiet
  <2>2. mcreq'[r] = k
    BY <1>1
  <2>3. news \in BOOLEAN /\ (q.hears /\ q.kind = "tools" /\ Live(q.s) => news)
    BY <2>1 DEF McAsks, Live
  <2> HIDE DEF q, news
  <2>4. /\ k \in McAsks /\ k.pc = q.pc /\ k.s = q.s /\ k.kind = q.kind /\ k.cat = q.cat
        /\ k.lst = q.lst /\ k.ok = q.ok /\ k.nat = q.nat /\ k.lgen = q.lgen
        /\ k.hears = q.hears /\ k.calm = q.calm /\ k.news = news
    BY <2>1, <2>3 DEF McAsks
  <2>5. QED BY <2>2, <2>3, <2>4 DEF q
<1>6. McTables'
  <2>1. mcsess' \in [McSess -> McSessions]
    BY <1>1, <1>4
  <2>2. mcreq' \in [McReqs -> McAsks]
    BY <1>1, <1>5
  <2>3. QED BY <1>5, <2>1, <2>2 DEF McInv, McTables
<1>7. McOrder'
  <2>1. \A s \in McSess : s \in McOpen(mcsess) <=> s \in McOpen(mcsess')
    BY <1>4 DEF McOpen
  <2>2. McNames(mcseen', McOpen(mcsess'))
    BY <1>1, <2>1, McQuiet, McSameNames
  <2>3. QED BY <1>1, <2>2 DEF McInv, McOrder
<1>8. McEach'
  <2> SUFFICES ASSUME NEW s \in McSess
               PROVE  /\ McKeeps(mcsess'[s], mcworld', mcpub', mcdirty', mcgen', mctask')
                      /\ McShows(mcsess'[s], mcworld', mcpub', mcdirty', mcgen', mctask')
    BY DEF McEach
  <2>1. McShows(mcsess[s], mcworld, mcpub, mcdirty, mcgen, mctask) /\ ~mcsess[s].view.calm
    BY <1>3, McFields, McStirred
  <2>2. McKeeps(mcsess'[s], mcworld', mcpub', mcdirty', mcgen', mctask')
    BY <1>1, <1>4 DEF McKeeps, McTrue
  <2>3. McShows(mcsess'[s], mcworld', mcpub', mcdirty', mcgen', mctask')
    BY <1>4, <2>1 DEF McShows
  <2>4. QED BY <2>2, <2>3
<1>9. McAll'
  <2> SUFFICES ASSUME NEW r \in McReqs, mcreq'[r].pc # "idle"
               PROVE  /\ McHears(mcreq'[r], mcsess'[mcreq'[r].s], mcpub', mcdirty', mcgen', mctask')
                      /\ McHolds(mcreq'[r], mcworld', mcpub', mcdirty', mcgen')
                      /\ McFits(mcreq'[r], mcsess'[mcreq'[r].s], mcgen', mctask')
    BY DEF McAll
  <2> DEFINE q == mcreq[r]
             k == mcreq'[r]
             x == mcsess[q.s]
             z == mcsess'[k.s]
  <2>1. q.pc # "idle"
    BY <1>5
  <2>2. /\ q.s \in McSess /\ McHears(q, x, mcpub, mcdirty, mcgen, mctask)
        /\ McHolds(q, mcworld, mcpub, mcdirty, mcgen) /\ ~q.calm
    BY <1>3, <2>1, McAtWork, McStirred
  <2>3. /\ z.st = x.st /\ z.init = x.init /\ z.stream = x.stream
        /\ x.st = "open" => z.cat.gen = mcgen
    BY <1>4, <1>5, <2>2
  <2>4. /\ k.pc = q.pc /\ k.kind = q.kind /\ k.cat = q.cat /\ k.lst = q.lst /\ k.ok = q.ok
        /\ k.lgen = q.lgen /\ k.hears = q.hears /\ k.nat = q.nat /\ k.calm = q.calm
        /\ q.hears /\ q.kind = "tools" /\ x.st = "open" => k.news
    BY <1>5 DEF Live
  <2> HIDE DEF q, k, x, z
  <2>5. McHears(k, z, mcpub', mcdirty', mcgen', mctask')
    BY <2>2, <2>3, <2>4 DEF McHears
  <2>6. McHolds(k, mcworld', mcpub', mcdirty', mcgen')
    BY <1>1, <2>2, <2>4 DEF McHolds
  <2>7. McFits(k, z, mcgen', mctask')
    BY <1>1, <2>3, <2>4 DEF McFits
  <2>8. QED BY <2>5, <2>6, <2>7 DEF k, z
<1>10. QED BY <1>2, <1>6, <1>7, <1>8, <1>9 DEF McInv

\* A step in which nothing happens.
LEMMA McIdles ==
    ASSUME McInv, UNCHANGED mcVars
    PROVE  McInv'
<1>1. QED BY DEF mcVars, McInv, McAround, McTables, McOrder, McEach, McAll

\* For any connections, sessions, requests, limit and changes (serve's catalog task,
\* SessionStore, ensure_protocol_catalog): the store holds no more than its limit, each
\* open session once; a client that lists when every change was taken in is shown what
\* is, or a catalog that says it was built from an older listing; a client that listens
\* and holds what is out of date was told; and no answer to tools/list names a tool its
\* own listing has not.
THEOREM McpCatalogHolds == McSpec => []McpCatalogSound
<1>1. McInit => McInv
  BY McStarts
<1>2. McInv /\ [McNext]_mcVars => McInv'
  <2> SUFFICES ASSUME McInv, [McNext]_mcVars PROVE McInv'
    OBVIOUS
  <2>1. ASSUME NEW c \in McConns, NEW m \in McModes, McChange(c, m) PROVE McInv'
    BY <2>1, McKeepsChange
  <2>2. CASE McAnnounce
    BY <2>2, McKeepsGenerations
  <2>3. CASE McTaskStore
    BY <2>3, McKeepsGenerations
  <2>4. CASE McTaskInvalidate
    BY <2>4, McKeepsInvalidate
  <2>5. ASSUME NEW s \in McSess,
               McInitialize(s) \/ McInsert(s) \/ McRemove(s) \/ McInitialized(s) \/ McStream(s)
        PROVE  McInv'
    BY <2>5, McKeepsInitialize, McKeepsInsert, McKeepsRemove, McKeepsListening
  <2>6. ASSUME NEW r \in McReqs, NEW s \in McSess, NEW k \in McKinds, McBegin(r, s, k)
        PROVE  McInv'
    BY <2>6, McKeepsBegin
  <2>7. ASSUME NEW r \in McReqs, McFetch(r) \/ McEnsure(r) \/ McDiscover(r) \/ McAnswer(r)
        PROVE  McInv'
    BY <2>7, McKeepsFetch, McKeepsEnsure, McKeepsDiscover, McKeepsAnswer
  <2>8. CASE UNCHANGED mcVars
    BY <2>8, McIdles
  <2>9. QED BY <2>1, <2>2, <2>3, <2>4, <2>5, <2>6, <2>7, <2>8 DEF McNext
<1>3. QED BY <1>1, <1>2, McInvMeans, PTL DEF McSpec
=============================================================================
