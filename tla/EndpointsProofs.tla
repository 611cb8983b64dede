-------------------------- MODULE EndpointsProofs --------------------------
(***************************************************************************)
(* Direct endpoints, for any connections, operations under way, limits and *)
(* faults: the registry, the listeners and the vault agree, whoever meets  *)
(* whom and wherever the process ends.                                     *)
(***************************************************************************)
EXTENDS Endpoints, FiniteSetTheorems, TLAPS

\* A record of the registry, an operation and the scars as they can be.
EpRecords == [id : 0 .. EpMaxSec, sec : 0 .. EpMaxSec, plain : 0 .. EpMaxSec,
              exp : {"never", "live", "lapsed"}, tgt : Nat]
EpTaskRecords == [op : {"none", "issue", "renew", "keep", "read"}, c : EpConns \cup {"none"},
                  pc : {"idle", "mint", "bind", "park", "renew", "show"}, ep : EpRecords,
                  live : BOOLEAN]
EpMarks == SUBSET (0 .. EpMaxSec)
EpScars == [unrevoked : EpMarks, raced : EpMarks, unkept : EpMarks, torn : EpMarks,
            stray : EpMarks, count : Nat]

\* The type of each variable; nothing is under way unless the broker is up.
EpShape ==
    /\ ssh \subseteq EpConns /\ target \in [EpConns -> Nat] /\ barred \subseteq EpConns
    /\ reg \in [EpConns -> EpRecords]
    /\ lis \in [EpIds -> 0 .. EpLegacy] /\ minted \in 0 .. EpMaxSec
    /\ kept \in [EpIds -> 0 .. minted]
    /\ task \in [EpTasks -> EpTaskRecords]
    /\ run \in {"down", "starting", "up"} /\ due \subseteq EpIds
    /\ scar \in EpScars
    /\ run # "up" => \A t \in EpTasks : task[t].pc = "idle"

\* A registry as it can be once n secrets were minted: an id was minted for one
\* connection and names its record only, and the records are not too many.
EpNamesIn(r, n) ==
    /\ \A c \in EpConns :
         /\ r[c].id <= n /\ r[c].sec <= n /\ r[c].plain \in {0, r[c].sec}
         /\ r[c].id = 0 => r[c] = NoEp
         /\ r[c].id # 0 => r[c].sec # 0
    /\ \A c, d \in EpConns : r[c].id # 0 /\ r[c].id = r[d].id => c = d
EpRegistry(r, n) ==
    /\ r \in [EpConns -> EpRecords] /\ EpNamesIn(r, n)
    /\ Cardinality({c \in EpConns : r[c] # NoEp}) <= EpMax
EpNames ==
    /\ \A c \in EpConns :
         /\ reg[c].id <= minted /\ reg[c].sec <= minted /\ reg[c].plain \in {0, reg[c].sec}
         /\ reg[c].id = 0 => reg[c] = NoEp
         /\ reg[c].id # 0 => reg[c].sec # 0
    /\ \A c, d \in EpConns : reg[c].id # 0 /\ reg[c].id = reg[d].id => c = d

\* What an operation knows: the endpoint it works on is its connection's, as it captured
\* it unless two of them met; what it renews has a listener.
EpFitsIn(q, regs, n, heard, raced) ==
    /\ q.pc # "idle" => q.c \in EpConns
    /\ q.pc \in {"bind", "park", "renew", "show"} => q.ep.id # 0
    /\ q.pc = "mint" => q.op = "issue" /\ q.ep.id = 0
    /\ q.pc = "park" => q.op = "issue"
    /\ q.pc = "renew" => q.op # "issue"
    /\ q.pc \in {"bind", "park", "show"} /\ q.op = "issue" => q.ep.plain = q.ep.sec /\ q.ep.sec # 0
    /\ q.ep.id <= n /\ q.ep.sec <= n /\ q.ep.plain \in {0, q.ep.sec}
    /\ q.ep.id # 0 => \A c \in EpConns : regs[c].id = q.ep.id =>
                        /\ c = q.c
                        /\ q.ep.id \notin raced => q.ep = Captured(regs[c])
                        /\ q.pc = "renew" => heard[q.ep.id] # 0
EpFits(q) == EpFitsIn(q, reg, minted, lis, scar.raced)

\* An issued endpoint whose listener is to be bound; one whose secret is to be stored.
EpBinding(q, id) == q.pc = "bind" /\ q.op = "issue" /\ q.ep.id = id
EpParking(q, id) == q.pc \in {"bind", "park", "show"} /\ q.op = "issue" /\ q.ep.id = id
EpBinds(id) == \E t \in EpTasks : EpBinding(task[t], id)
EpParks(id) == \E t \in EpTasks : EpParking(task[t], id)

\* A record that is valid is listened to, or is about to be; while the broker starts,
\* once its turn has come.
EpHeard(c) ==
    reg[c].id # 0 /\ reg[c].exp # "lapsed" /\ reg[c].id \notin scar.unrevoked /\ lis[reg[c].id] = 0 =>
        /\ run = "up" => EpBinds(reg[c].id)
        /\ run = "starting" => reg[c].id \in due

\* What is told of a record nothing has marred is its secret: from memory, from the vault
\* once it was stored, and by the path of its listener once that is bound.
EpTold(c) ==
    reg[c].id # 0 /\ reg[c].id \notin scar.raced \cup scar.unkept \cup scar.unrevoked \cup scar.stray =>
        /\ reg[c].plain = 0 => kept[reg[c].id] = reg[c].sec
        /\ kept[reg[c].id] = reg[c].sec \/ EpParks(reg[c].id)
        /\ lis[reg[c].id] \in {0, Address(c, reg[c].sec)} \/ EpBinds(reg[c].id)

EpInv ==
    /\ EpShape /\ EpNames /\ EpTargetKept /\ Count <= EpMax
    /\ EpRegistry(epfile, minted)
    /\ \A t \in EpTasks : EpFits(task[t])
    /\ \A c \in EpConns : EpHeard(c) /\ EpTold(c)

\* The operations after a step of t, which became q: those of the others, in some order.
EpTaskStep(t, q) ==
    /\ task' \in [EpTasks -> EpTaskRecords]
    /\ \A u \in EpTasks : \/ task'[u] = NoTask \/ task'[u] = q
                           \/ \E v \in EpTasks \ {t} : task'[u] = task[v]
    /\ \A v \in EpTasks \ {t} : \E u \in EpTasks : task'[u] = task[v]
    /\ q.pc # "idle" => \E u \in EpTasks : task'[u] = q

\* Nothing under way and no endpoint, and what an operation keeps of one.
LEMMA EpNothing ==
    ASSUME EpAssumption
    PROVE  /\ NoEp \in EpRecords /\ NoEp.id = 0 /\ NoEp.sec = 0 /\ NoEp.plain = 0 /\ NoEp.exp = "never"
           /\ NoTask \in EpTaskRecords /\ NoTask.pc = "idle" /\ NoTask.ep = NoEp
           /\ \A e \in EpRecords : /\ Captured(e) \in EpRecords /\ Captured(e).id = e.id
                                   /\ Captured(e).sec = e.sec /\ Captured(e).plain = e.plain
<1>1. NoEp \in EpRecords /\ NoEp.id = 0 /\ NoEp.sec = 0 /\ NoEp.plain = 0 /\ NoEp.exp = "never"
  BY EpAssumption DEF EpAssumption, NoEp, EpRecords
<1>2. NoTask \in EpTaskRecords /\ NoTask.pc = "idle" /\ NoTask.ep = NoEp
  BY <1>1 DEF NoTask, EpTaskRecords
<1>3. \A e \in EpRecords : /\ Captured(e) \in EpRecords /\ Captured(e).id = e.id
                           /\ Captured(e).sec = e.sec /\ Captured(e).plain = e.plain
  BY <1>1 DEF Captured, EpRecords
<1>4. QED BY <1>1, <1>2, <1>3

\* An operation moves on.
LEMMA EpGoes ==
    ASSUME EpShape, NEW t \in EpTasks, NEW q \in EpTaskRecords, task' = [task EXCEPT ![t] = q]
    PROVE  EpTaskStep(t, q)
BY DEF EpShape, EpTaskStep

\* An operation ends, and those that began after it move up.
LEMMA EpEnds ==
    ASSUME EpShape, EpAssumption, NEW t \in EpTasks, End(t)
    PROVE  EpTaskStep(t, NoTask)
<1>1. \A u \in EpTasks : task'[u] = IF u < t THEN task[u]
                                    ELSE IF u < EpWidth THEN task[u + 1] ELSE NoTask
  BY DEF End
<1>2. ASSUME NEW u \in EpTasks
      PROVE  task'[u] = NoTask \/ \E v \in EpTasks \ {t} : task'[u] = task[v]
  <2>1. CASE u < t
    <3>1. u # t
      BY <2>1, EpAssumption DEF EpTasks, EpAssumption
    <3>2. QED BY <1>1, <2>1, <3>1
  <2>2. CASE ~(u < t) /\ u < EpWidth
    <3>1. u + 1 \in EpTasks \ {t}
      BY <2>2, EpAssumption DEF EpTasks, EpAssumption
    <3>2. QED BY <1>1, <2>2, <3>1
  <2>3. QED BY <1>1, <2>1, <2>2
<1>3. ASSUME NEW v \in EpTasks \ {t} PROVE \E u \in EpTasks : task'[u] = task[v]
  <2>1. CASE v < t
    BY <1>1, <2>1
  <2>2. CASE ~(v < t)
    <3>1. v - 1 \in EpTasks /\ ~(v - 1 < t) /\ v - 1 < EpWidth /\ (v - 1) + 1 = v
      BY <2>2, EpAssumption DEF EpTasks, EpAssumption
    <3>2. QED BY <1>1, <3>1
  <2>3. QED BY <2>1, <2>2
<1>4. task' \in [EpTasks -> EpTaskRecords]
  <2>1. \A u \in EpTasks : task'[u] \in EpTaskRecords
    BY <1>2, EpNothing DEF EpShape
  <2>2. QED BY <2>1 DEF End
<1>5. QED BY <1>2, <1>3, <1>4, EpNothing DEF EpTaskStep

\* Who is to bind or to store what is still to do so, unless it was t's turn.
LEMMA EpOthers ==
    ASSUME NEW t \in EpTasks, NEW q, EpTaskStep(t, q), NEW id
    PROVE  /\ EpBinds(id) => EpBinds(id)' \/ EpBinding(task[t], id)
           /\ EpParks(id) => EpParks(id)' \/ EpParking(task[t], id)
           /\ EpBinding(q, id) => EpBinds(id)'
           /\ EpParking(q, id) => EpParks(id)'
BY DEF EpTaskStep, EpBinds, EpParks, EpBinding, EpParking

\* An operation that is none knows nothing.
LEMMA EpFitsNone ==
    ASSUME EpAssumption, NEW regs, NEW n \in Nat, NEW heard, NEW raced
    PROVE  EpFitsIn(NoTask, regs, n, heard, raced)
BY EpNothing DEF EpFitsIn

\* The registries of the invariant: what memory has and what the file has.
LEMMA EpRegs ==
    ASSUME EpAssumption, EpInv
    PROVE  /\ EpRegistry(reg, minted) /\ EpRegistry(epfile, minted)
           /\ minted \in Nat /\ minted <= EpMaxSec
BY DEF EpInv, EpShape, EpNames, EpNamesIn, EpRegistry, Count, IsEp, EpAssumption

\* A registry is not larger when fewer connections have a record.
LEMMA EpLess ==
    ASSUME EpAssumption, NEW r, NEW s, Cardinality({c \in EpConns : r[c] # NoEp}) <= EpMax,
           \A c \in EpConns : s[c] # NoEp => r[c] # NoEp
    PROVE  Cardinality({c \in EpConns : s[c] # NoEp}) <= EpMax
<1> DEFINE R == {c \in EpConns : r[c] # NoEp}
           S == {c \in EpConns : s[c] # NoEp}
<1>1. IsFiniteSet(R) /\ S \subseteq R
  BY FS_Subset, EpAssumption DEF EpAssumption
<1>2. IsFiniteSet(S) /\ Cardinality(S) <= Cardinality(R)
  BY <1>1, FS_Subset
<1>3. Cardinality(R) \in Nat /\ Cardinality(S) \in Nat /\ EpMax \in Nat
  BY <1>1, <1>2, FS_CardinalityType, EpAssumption DEF EpAssumption
<1>4. QED BY <1>2, <1>3

\* Deadlines move, plaintexts are left out, records end, secrets are minted: what was a
\* registry is one.
LEMMA EpSame ==
    ASSUME EpAssumption, NEW r, NEW n \in Nat, EpRegistry(r, n), NEW s \in [EpConns -> EpRecords],
           \A c \in EpConns : \/ s[c] = NoEp
                              \/ /\ s[c].id = r[c].id /\ s[c].sec = r[c].sec
                                 /\ s[c].plain \in {0, r[c].plain} /\ r[c] # NoEp
    PROVE  EpRegistry(s, n)
<1>1. EpNamesIn(s, n)
  BY EpNothing DEF EpRegistry, EpNamesIn
<1>2. Cardinality({c \in EpConns : s[c] # NoEp}) <= EpMax
  BY EpLess DEF EpRegistry
<1>3. QED BY <1>1, <1>2 DEF EpRegistry

LEMMA EpLater ==
    ASSUME EpAssumption, NEW r, NEW n \in Nat, NEW m \in Nat, n <= m, EpRegistry(r, n)
    PROVE  EpRegistry(r, m)
<1>1. \A c \in EpConns : r[c].id \in Nat /\ r[c].sec \in Nat
  BY DEF EpRegistry, EpRecords
<1>2. QED BY <1>1 DEF EpRegistry, EpNamesIn

\* The file has the records without their plaintexts.
LEMMA EpDisk ==
    ASSUME EpAssumption, NEW r, NEW n \in Nat, EpRegistry(r, n)
    PROVE  /\ EpRegistry(OnDisk(r), n)
           /\ \A c \in EpConns : /\ OnDisk(r)[c].id = r[c].id /\ OnDisk(r)[c].sec = r[c].sec
                                 /\ OnDisk(r)[c].tgt = r[c].tgt /\ OnDisk(r)[c].plain = 0
                                 /\ r[c] = NoEp <=> OnDisk(r)[c] = NoEp
<1> DEFINE s == OnDisk(r)
<1>1. \A e \in EpRecords : /\ [e EXCEPT !.plain = 0] \in EpRecords
                           /\ [e EXCEPT !.plain = 0].id = e.id /\ [e EXCEPT !.plain = 0].sec = e.sec
                           /\ [e EXCEPT !.plain = 0].plain = 0 /\ [e EXCEPT !.plain = 0].tgt = e.tgt
  BY EpAssumption DEF EpAssumption, EpRecords
<1>2. [NoEp EXCEPT !.plain = 0] = NoEp
  BY DEF NoEp
<1>3. /\ s \in [EpConns -> EpRecords]
      /\ \A c \in EpConns : /\ s[c].id = r[c].id /\ s[c].sec = r[c].sec /\ s[c].tgt = r[c].tgt
                            /\ s[c].plain = 0 /\ (r[c] = NoEp => s[c] = NoEp)
  BY <1>1, <1>2 DEF OnDisk, EpRegistry
<1>4. \A c \in EpConns : s[c] = NoEp => r[c] = NoEp
  BY <1>3, EpNothing DEF EpRegistry, EpNamesIn
<1> HIDE DEF s
<1>5. EpRegistry(s, n)
  BY <1>3, <1>4, EpSame
<1>6. QED BY <1>3, <1>4, <1>5 DEF s

\* What a write leaves in the file, whether it went through or not.
LEMMA EpWritten ==
    ASSUME EpAssumption, EpInv, NEW next, minted' \in Nat, minted <= minted',
           EpRegistry(next, minted'), epfile' \in {epfile, OnDisk(next)}
    PROVE  EpRegistry(epfile', minted')
BY EpDisk, EpLater, EpRegs

\* A fault is counted, and perhaps marks some ids.
LEMMA EpHit ==
    ASSUME EpAssumption, scar \in EpScars, NEW ids \in SUBSET (0 .. EpMaxSec)
    PROVE  /\ Hit \in EpScars /\ Hit.raced = scar.raced /\ Hit.unkept = scar.unkept
           /\ Hit.unrevoked = scar.unrevoked /\ Hit.torn = scar.torn /\ Hit.stray = scar.stray
           /\ LET s == Marked("unrevoked", ids)
              IN  /\ s \in EpScars /\ s.unrevoked = scar.unrevoked \cup ids /\ s.raced = scar.raced
                  /\ s.unkept = scar.unkept /\ s.torn = scar.torn /\ s.stray = scar.stray
           /\ LET s == Marked("unkept", ids)
              IN  /\ s \in EpScars /\ s.unkept = scar.unkept \cup ids /\ s.raced = scar.raced
                  /\ s.unrevoked = scar.unrevoked /\ s.torn = scar.torn /\ s.stray = scar.stray
           /\ LET s == Marked("torn", ids)
              IN  /\ s \in EpScars /\ s.torn = scar.torn \cup ids /\ s.raced = scar.raced
                  /\ s.unkept = scar.unkept /\ s.unrevoked = scar.unrevoked /\ s.stray = scar.stray
<1>1. /\ Hit \in EpScars /\ Hit.raced = scar.raced /\ Hit.unkept = scar.unkept
      /\ Hit.unrevoked = scar.unrevoked /\ Hit.torn = scar.torn /\ Hit.stray = scar.stray
  BY DEF Hit, EpScars, EpMarks
<1> DEFINE h == Hit
<1>2. h \in EpScars
  BY <1>1
<1> HIDE DEF h
<1>3. LET s == [h EXCEPT !.unrevoked = @ \cup ids]
      IN  /\ s \in EpScars /\ s.unrevoked = h.unrevoked \cup ids /\ s.raced = h.raced
          /\ s.unkept = h.unkept /\ s.torn = h.torn /\ s.stray = h.stray
  BY <1>2 DEF EpScars, EpMarks
<1>4. LET s == [h EXCEPT !.unkept = @ \cup ids]
      IN  /\ s \in EpScars /\ s.unkept = h.unkept \cup ids /\ s.raced = h.raced
          /\ s.unrevoked = h.unrevoked /\ s.torn = h.torn /\ s.stray = h.stray
  BY <1>2 DEF EpScars, EpMarks
<1>5. LET s == [h EXCEPT !.torn = @ \cup ids]
      IN  /\ s \in EpScars /\ s.torn = h.torn \cup ids /\ s.raced = h.raced
          /\ s.unkept = h.unkept /\ s.unrevoked = h.unrevoked /\ s.stray = h.stray
  BY <1>2 DEF EpScars, EpMarks
<1>6. QED BY <1>1, <1>3, <1>4, <1>5 DEF h, Marked

\* At the start there is no endpoint.
LEMMA EpStarts == ASSUME EpAssumption, EpInit PROVE EpInv
<1>1. EpShape
  <2>1. reg \in [EpConns -> EpRecords] /\ task \in [EpTasks -> EpTaskRecords]
    BY EpNothing DEF EpInit
  <2>2. minted \in 0 .. EpMaxSec /\ kept \in [EpIds -> 0 .. minted] /\ lis \in [EpIds -> 0 .. EpLegacy]
    BY EpAssumption DEF EpInit, EpAssumption, EpLegacy
  <2>3. scar \in EpScars
    BY DEF EpInit, EpScars, EpMarks
  <2>4. QED BY <2>1, <2>2, <2>3, EpAssumption DEF EpInit, EpShape
<1>2. EpNames /\ EpTargetKept
  BY EpNothing DEF EpInit, EpNames, EpTargetKept, IsEp
<1>3. Count <= EpMax
  <2>1. {c \in EpConns : IsEp(c)} = {}
    BY DEF EpInit, IsEp
  <2>2. QED BY <2>1, FS_EmptySet, EpAssumption DEF Count, EpAssumption
<1>4. \A t \in EpTasks : EpFits(task[t])
  BY EpFitsNone DEF EpInit, EpFits
<1>5. \A c \in EpConns : EpHeard(c) /\ EpTold(c)
  BY EpNothing DEF EpInit, EpHeard, EpTold
<1>6. EpRegistry(epfile, minted)
  BY <1>1, <1>2, <1>3 DEF EpRegistry, EpNames, EpNamesIn, EpShape, Count, IsEp, EpInit
<1>7. QED BY <1>1, <1>2, <1>3, <1>4, <1>5, <1>6 DEF EpInv

\* What the invariant says of a broker that serves.
LEMMA EpMeans == ASSUME EpAssumption, EpInv PROVE EndpointsSound
<1>1. \A c \in EpConns : IsEp(c) => reg[c].id # 0
  BY DEF EpInv, EpNames, IsEp
<1>2. EpTypeOK
  <2>1. \A c \in EpConns : /\ reg[c].id \in 0..minted /\ reg[c].sec \in 0..minted
                           /\ reg[c].plain \in {0, reg[c].sec}
                           /\ reg[c].exp \in {"never", "live", "lapsed"}
                           /\ reg[c].id = 0 <=> reg[c].sec = 0
    BY EpNothing DEF EpInv, EpShape, EpNames, EpRecords
  <2>2. QED BY <2>1 DEF EpTypeOK, EpInv, EpShape
<1>3. ASSUME NEW c \in EpConns, ~Busy(c), NEW id, id # 0, reg[c].id = id
      PROVE  ~EpBinds(id)
  <2>1. ASSUME NEW t \in EpTasks, EpBinding(task[t], id) PROVE FALSE
    <3>1. /\ task[t].ep.id = id /\ EpFitsIn(task[t], reg, minted, lis, scar.raced)
          /\ task[t].pc = "bind"
      BY <2>1 DEF EpInv, EpFits, EpBinding
    <3>2. task[t].c = c
      BY <1>3, <3>1 DEF EpFitsIn
    <3>3. QED BY <1>3, <3>1, <3>2 DEF Busy
  <2>2. QED BY <2>1 DEF EpBinds
<1>4. EpNoForeign
  BY <1>1, <1>3 DEF EpInv, EpHeard, EpNoForeign, Expired
<1>5. EpCopyWorks
  BY <1>1, <1>3 DEF EpInv, EpTold, EpNames, EpCopyWorks, Plain
<1>6. QED BY <1>2, <1>4, <1>5 DEF EpInv, EndpointsSound

\* What an operation knows stays true while the record it captured is the same, and the
\* listener it counts on.
LEMMA EpFitsStays ==
    ASSUME EpAssumption, EpInv, NEW v \in EpTasks, minted' \in Nat,
           minted <= minted', scar.raced \subseteq scar'.raced,
           \A c \in EpConns : reg'[c].id = task[v].ep.id /\ task[v].ep.id # 0 =>
              /\ reg[c].id = task[v].ep.id
              /\ task[v].ep.id \notin scar'.raced => Captured(reg'[c]) = Captured(reg[c])
              /\ lis[task[v].ep.id] # 0 => lis'[task[v].ep.id] # 0
    PROVE  EpFitsIn(task[v], reg', minted', lis', scar'.raced)
<1>1. minted \in Nat
  BY EpAssumption DEF EpInv, EpShape, EpAssumption
<1>2. task[v] \in EpTaskRecords /\ EpFitsIn(task[v], reg, minted, lis, scar.raced)
  BY DEF EpInv, EpShape, EpFits
<1> DEFINE q == task[v]
<1>3. q \in EpTaskRecords /\ EpFitsIn(q, reg, minted, lis, scar.raced)
      /\ \A c \in EpConns : reg'[c].id = q.ep.id /\ q.ep.id # 0 =>
           /\ reg[c].id = q.ep.id
           /\ q.ep.id \notin scar'.raced => Captured(reg'[c]) = Captured(reg[c])
           /\ lis[q.ep.id] # 0 => lis'[q.ep.id] # 0
  BY <1>2
<1> HIDE DEF q
<1>4. EpFitsIn(q, reg', minted', lis', scar'.raced)
  BY <1>1, <1>3 DEF EpFitsIn, EpTaskRecords, EpRecords
<1>5. QED BY <1>4 DEF q

\* Every operation knows what it should after a step of t that left the others their
\* records and listeners.
LEMMA EpTasksFit ==
    ASSUME EpAssumption, EpInv, NEW t \in EpTasks, NEW q, EpTaskStep(t, q), minted' \in Nat,
           minted <= minted', scar.raced \subseteq scar'.raced,
           EpFitsIn(q, reg', minted', lis', scar'.raced),
           \A v \in EpTasks \ {t}, c \in EpConns :
              reg'[c].id = task[v].ep.id /\ task[v].ep.id # 0 =>
                /\ reg[c].id = task[v].ep.id
                /\ task[v].ep.id \notin scar'.raced => Captured(reg'[c]) = Captured(reg[c])
                /\ lis[task[v].ep.id] # 0 => lis'[task[v].ep.id] # 0
    PROVE  \A u \in EpTasks : EpFits(task[u])'
<1>1. ASSUME NEW v \in EpTasks \ {t} PROVE EpFitsIn(task[v], reg', minted', lis', scar'.raced)
  <2>1. \A c \in EpConns : reg'[c].id = task[v].ep.id /\ task[v].ep.id # 0 =>
          /\ reg[c].id = task[v].ep.id
          /\ task[v].ep.id \notin scar'.raced => Captured(reg'[c]) = Captured(reg[c])
          /\ lis[task[v].ep.id] # 0 => lis'[task[v].ep.id] # 0
    OBVIOUS
  <2>2. QED BY <2>1, EpFitsStays
<1>2. EpFitsIn(NoTask, reg', minted', lis', scar'.raced)
  BY EpFitsNone
<1>3. ASSUME NEW u \in EpTasks PROVE EpFitsIn(task'[u], reg', minted', lis', scar'.raced)
  BY <1>1, <1>2 DEF EpTaskStep
<1>4. QED BY <1>3 DEF EpFits

\* What an operation has to do for an endpoint, if it is t's, is done or no longer owed.
EpDone(t, id) == ~EpBinding(task[t], id) /\ ~EpParking(task[t], id)

\* An operation begins, or ends without a trace but in the file.
LEMMA EpTraceless ==
    ASSUME EpAssumption, EpInv, NEW t \in EpTasks, NEW q, EpTaskStep(t, q), run = "up",
           UNCHANGED <<ssh, target, barred, reg, lis, kept, run, due>>,
           minted' \in 0 .. EpMaxSec, minted <= minted', EpRegistry(epfile', minted'),
           /\ scar' \in EpScars /\ scar'.raced = scar.raced /\ scar'.unkept = scar.unkept
           /\ scar'.unrevoked = scar.unrevoked /\ scar'.torn = scar.torn /\ scar'.stray = scar.stray,
           EpFitsIn(q, reg, minted', lis, scar.raced),
           \A id \in EpIds : EpDone(t, id)
    PROVE  EpInv'
<1>0. minted \in Nat /\ minted' \in Nat /\ EpRegistry(reg, minted)
  BY EpRegs, EpAssumption DEF EpAssumption
<1>1. EpShape'
  <2>1. kept' \in [EpIds -> 0 .. minted']
    BY <1>0 DEF EpInv, EpShape
  <2>2. QED BY <2>1 DEF EpInv, EpShape, EpTaskStep
<1>2. EpNames' /\ EpTargetKept' /\ Count' <= EpMax
  <2>1. EpRegistry(reg, minted')
    BY <1>0, EpLater
  <2>2. QED BY <2>1 DEF EpRegistry, EpNamesIn, EpInv, EpNames, EpTargetKept, Count, IsEp
<1>3. \A u \in EpTasks : EpFits(task[u])'
  BY <1>0, EpTasksFit
<1>4. ASSUME NEW id \in EpIds PROVE (EpBinds(id) => EpBinds(id)') /\ (EpParks(id) => EpParks(id)')
  BY EpOthers DEF EpDone
<1>5. ASSUME NEW c \in EpConns PROVE EpHeard(c)' /\ EpTold(c)'
  <2>1. reg[c].id # 0 => reg[c].id \in EpIds
    BY EpAssumption DEF EpInv, EpShape, EpRecords, EpIds, EpAssumption
  <2>2. EpHeard(c) /\ EpTold(c)
    BY DEF EpInv
  <2>3. EpHeard(c)'
    BY <1>4, <2>1, <2>2 DEF EpHeard
  <2>4. EpTold(c)'
    BY <1>4, <2>1, <2>2 DEF EpTold, Address
  <2>5. QED BY <2>3, <2>4
<1>6. QED BY <1>1, <1>2, <1>3, <1>5 DEF EpInv

\* An endpoint is about to be issued, renewed, kept or shown.
LEMMA EpBeginKeeps ==
    ASSUME EpAssumption, EpInv, NEW t \in EpTasks, NEW c \in EpConns,
           EpIssue(t, c) \/ EpRead(t, c) \/ \E op \in {"renew", "keep"} : EpExtend(t, c, op)
    PROVE  EpInv'
<1>1. /\ run = "up" /\ task[t] = NoTask /\ scar' = scar /\ scar \in EpScars
      /\ UNCHANGED <<ssh, target, barred, reg, epfile, lis, kept, minted, run, due>>
  BY DEF EpIssue, EpExtend, EpRead, Free, EpInv, EpShape
<1>2. reg[c] \in EpRecords /\ minted \in Nat /\ EpNames /\ EpRegistry(epfile', minted')
  BY <1>1, EpRegs, EpAssumption DEF EpInv, EpShape, EpAssumption
<1>3. PICK q \in EpTaskRecords : /\ task' = [task EXCEPT ![t] = q]
                                 /\ EpFitsIn(q, reg, minted, lis, scar.raced)
  <2>1. CASE EpIssue(t, c)
    <3> DEFINE q == [NoTask EXCEPT !.op = "issue", !.c = c, !.pc = "mint"]
    <3>1. q \in EpTaskRecords /\ q.op = "issue" /\ q.c = c /\ q.pc = "mint" /\ q.ep = NoEp
      BY EpNothing DEF EpTaskRecords
    <3>2. task' = [task EXCEPT ![t] = q]
      BY <2>1 DEF EpIssue
    <3> HIDE DEF q
    <3>3. EpFitsIn(q, reg, minted, lis, scar.raced)
      BY <1>2, <3>1, EpNothing DEF EpFitsIn
    <3>4. QED BY <3>1, <3>2, <3>3
  <2>2. CASE \E op \in {"renew", "keep"} : EpExtend(t, c, op)
    <3>1. PICK op \in {"renew", "keep"} : EpExtend(t, c, op)
      BY <2>2
    <3> DEFINE live == lis[reg[c].id] # 0
               q == [op |-> op, c |-> c, ep |-> Captured(reg[c]), live |-> live,
                     pc |-> IF live THEN "renew" ELSE "bind"]
    <3>2. task' = [task EXCEPT ![t] = q] /\ IsEp(c)
      BY <3>1 DEF EpExtend
    <3>3. /\ q \in EpTaskRecords /\ q.op = op /\ q.c = c /\ q.ep = Captured(reg[c])
          /\ q.pc \in {"renew", "bind"} /\ (q.pc = "renew" => lis[reg[c].id] # 0)
      BY <1>2, EpNothing DEF EpTaskRecords
    <3> HIDE DEF q
    <3>4. reg[c].id # 0
      BY <1>2, <3>2 DEF EpNames, IsEp
    <3>5. EpFitsIn(q, reg, minted, lis, scar.raced)
      BY <1>2, <3>3, <3>4, EpNothing DEF EpFitsIn, EpNames
    <3>6. QED BY <3>2, <3>3, <3>5
  <2>3. CASE EpRead(t, c)
    <3> DEFINE q == [NoTask EXCEPT !.op = "read", !.c = c, !.pc = "show", !.ep = Captured(reg[c])]
    <3>1. task' = [task EXCEPT ![t] = q] /\ IsEp(c)
      BY <2>3 DEF EpRead
    <3>2. q \in EpTaskRecords /\ q.op = "read" /\ q.c = c /\ q.ep = Captured(reg[c]) /\ q.pc = "show"
      BY <1>2, EpNothing DEF EpTaskRecords
    <3> HIDE DEF q
    <3>3. reg[c].id # 0
      BY <1>2, <3>1 DEF EpNames, IsEp
    <3>4. EpFitsIn(q, reg, minted, lis, scar.raced)
      BY <1>2, <3>2, <3>3, EpNothing DEF EpFitsIn, EpNames
    <3>5. QED BY <3>1, <3>2, <3>4
  <2>4. QED BY <2>1, <2>2, <2>3
<1>4. EpTaskStep(t, q)
  BY <1>3, EpGoes DEF EpInv
<1>5. \A id \in EpIds : EpDone(t, id)
  BY <1>1, EpNothing DEF EpDone, EpBinding, EpParking
<1>6. minted' \in 0 .. EpMaxSec /\ minted <= minted' /\ EpFitsIn(q, reg, minted', lis, scar.raced)
  BY <1>1, <1>3, EpRegs
<1>7. QED BY <1>1, <1>2, <1>3, <1>4, <1>5, <1>6, EpTraceless

\* Under the gate nothing is issued, or nothing that memory knows.
LEMMA EpMintFails ==
    ASSUME EpAssumption, EpInv, NEW t \in EpTasks, task[t].pc = "mint", End(t), scar' \in {scar, Hit},
           minted' \in 0 .. EpMaxSec, minted <= minted', EpRegistry(epfile', minted'),
           UNCHANGED <<ssh, target, barred, reg, lis, kept, run, due>>
    PROVE  EpInv'
<1>1. EpTaskStep(t, NoTask) /\ run = "up"
  BY EpEnds DEF EpInv, EpShape
<1>2. /\ scar' \in EpScars /\ scar'.raced = scar.raced /\ scar'.unkept = scar.unkept
      /\ scar'.unrevoked = scar.unrevoked /\ scar'.torn = scar.torn /\ scar'.stray = scar.stray
  BY EpHit DEF EpInv, EpShape
<1>3. EpFitsIn(NoTask, reg, minted', lis, scar.raced)
  BY EpFitsNone, EpAssumption DEF EpAssumption
<1>4. \A id \in EpIds : EpDone(t, id)
  BY DEF EpDone, EpBinding, EpParking
<1>5. QED BY <1>1, <1>2, <1>3, <1>4, EpTraceless

\* The record an issue writes, and the registry it makes.
LEMMA EpRecordIssued ==
    ASSUME EpAssumption, EpInv, NEW c \in EpConns, NEW n \in 0 .. EpMaxSec, n # 0
    PROVE  LET r == Issued(c, n)
           IN  /\ r \in EpRecords /\ r.sec = n /\ r.plain = n /\ r.id # 0
               /\ IsEp(c) => r.id = reg[c].id /\ r.tgt = reg[c].tgt /\ r.exp = reg[c].exp
               /\ ~IsEp(c) => r.id = n /\ r.tgt = target[c]
<1> DEFINE r == Issued(c, n)
<1>1. reg[c] \in EpRecords /\ target[c] \in Nat /\ EpNames
  BY DEF EpInv, EpShape
<1>2. CASE IsEp(c)
  <2>1. r = [reg[c] EXCEPT !.sec = n, !.plain = n]
    BY <1>2 DEF Issued
  <2>2. reg[c].id # 0
    BY <1>1, <1>2 DEF EpNames, IsEp
  <2> HIDE DEF r
  <2>3. /\ r \in EpRecords /\ r.sec = n /\ r.plain = n /\ r.id # 0
        /\ r.id = reg[c].id /\ r.tgt = reg[c].tgt /\ r.exp = reg[c].exp
    BY <1>1, <2>1, <2>2 DEF EpRecords
  <2>4. QED BY <1>2, <2>3 DEF r
<1>3. CASE ~IsEp(c)
  <2>1. r = [NoEp EXCEPT !.id = n, !.sec = n, !.plain = n, !.tgt = target[c]]
    BY <1>3 DEF Issued
  <2>2. NoEp \in EpRecords
    BY EpNothing
  <2> HIDE DEF r
  <2>3. /\ r \in EpRecords /\ r.sec = n /\ r.plain = n /\ r.id # 0
        /\ r.id = n /\ r.tgt = target[c]
    BY <1>1, <2>1, <2>2 DEF EpRecords
  <2>4. QED BY <1>3, <2>3 DEF r
<1>4. QED BY <1>2, <1>3

LEMMA EpIssues ==
    ASSUME EpAssumption, EpInv, NEW c \in EpConns, IsEp(c) \/ Count < EpMax, minted < EpMaxSec
    PROVE  EpRegistry([reg EXCEPT ![c] = Issued(c, minted + 1)], minted + 1)
<1> DEFINE n == minted + 1
           r == Issued(c, n)
           next == [reg EXCEPT ![c] = r]
<1>1. minted \in Nat /\ n \in 0 .. EpMaxSec /\ n # 0 /\ minted < n /\ n \in Nat /\ EpNames
      /\ reg \in [EpConns -> EpRecords]
  BY EpRegs, EpAssumption DEF EpAssumption, EpInv, EpShape
<1> HIDE DEF n
<1>2. /\ r \in EpRecords /\ r.sec = n /\ r.plain = n /\ r.id # 0
      /\ IsEp(c) => r.id = reg[c].id
      /\ ~IsEp(c) => r.id = n
  BY <1>1, EpRecordIssued
<1> HIDE DEF r
<1>3. next \in [EpConns -> EpRecords] /\ next[c] = r /\ \A d \in EpConns \ {c} : next[d] = reg[d]
  BY <1>1, <1>2
<1> HIDE DEF next
<1>4. \A d \in EpConns : /\ reg[d].id \in Nat /\ reg[d].sec \in Nat /\ reg[d].id < n /\ reg[d].sec < n
                         /\ reg[d].id # n /\ reg[d].id <= n /\ reg[d].sec <= n
  <2>1. ASSUME NEW d \in EpConns PROVE reg[d].id \in Nat /\ reg[d].sec \in Nat
    BY <1>1 DEF EpRecords
  <2>2. ASSUME NEW d \in EpConns PROVE reg[d].id <= minted /\ reg[d].sec <= minted
    BY <1>1 DEF EpNames
  <2>3. QED BY <1>1, <2>1, <2>2
<1>5. EpNamesIn(next, n)
  <2>1. r.id <= n
    BY <1>1, <1>2, <1>4
  <2>2. ASSUME NEW d \in EpConns
        PROVE  /\ next[d].id <= n /\ next[d].sec <= n /\ next[d].plain \in {0, next[d].sec}
               /\ next[d].id = 0 => next[d] = NoEp
               /\ next[d].id # 0 => next[d].sec # 0
    <3>1. CASE d = c
      BY <1>1, <1>2, <1>3, <2>1, <3>1
    <3>2. CASE d # c
      BY <1>1, <1>3, <1>4, <3>2 DEF EpNames
    <3>3. QED BY <3>1, <3>2
  <2>3. ASSUME NEW d \in EpConns \ {c} PROVE next[d].id # r.id
    <3>1. next[d].id = reg[d].id /\ reg[d].id # n
      BY <1>3, <1>4
    <3>2. CASE IsEp(c)
      BY <1>1, <1>2, <3>1, <3>2 DEF EpNames
    <3>3. CASE ~IsEp(c)
      BY <1>2, <3>1, <3>3
    <3>4. QED BY <3>2, <3>3
  <2>4. \A d, e \in EpConns : next[d].id # 0 /\ next[d].id = next[e].id => d = e
    BY <1>1, <1>3, <2>3 DEF EpNames
  <2>5. QED BY <2>2, <2>4 DEF EpNamesIn
<1>6. Cardinality({d \in EpConns : next[d] # NoEp}) <= EpMax
  <2> DEFINE S == {d \in EpConns : IsEp(d)}
  <2>1. IsFiniteSet(S) /\ Cardinality(S) \in Nat /\ Cardinality(S) <= EpMax /\ EpMax \in Nat
    BY FS_Subset, FS_CardinalityType, EpAssumption DEF EpInv, Count, EpAssumption
  <2>2. {d \in EpConns : next[d] # NoEp} = S \cup {c}
    BY <1>2, <1>3, EpNothing DEF IsEp
  <2>3. Cardinality(S \cup {c}) <= EpMax
    <3>1. CASE c \in S
      <4>1. S \cup {c} = S
        BY <3>1
      <4>2. QED BY <2>1, <4>1
    <3>2. CASE c \notin S
      <4>1. Cardinality(S \cup {c}) = Cardinality(S) + 1
        BY <2>1, <3>2, FS_AddElement
      <4>2. Cardinality(S) < EpMax
        BY <3>2 DEF Count
      <4>3. QED BY <2>1, <4>1, <4>2
    <3>3. QED BY <3>1, <3>2
  <2>4. QED BY <2>2, <2>3
<1>7. QED BY <1>3, <1>5, <1>6 DEF EpRegistry, next, r, n

\* Under the gate an endpoint is issued or gets another secret: its operation is to bind it
\* or to store the secret, and whoever else works on the connection has met it.
LEMMA EpMintIssues ==
    ASSUME EpAssumption, EpInv, NEW t \in EpTasks, task[t].pc = "mint", NEW c \in EpConns, c = task[t].c,
           IsEp(c) \/ Count < EpMax,
           minted < EpMaxSec, minted' = minted + 1,
           reg' = [reg EXCEPT ![c] = Issued(c, minted + 1)], epfile' = OnDisk(reg'),
           task' = [task EXCEPT ![t].ep = Captured(reg'[c]),
                          ![t].pc = IF KeepsListener(c) THEN "park" ELSE "bind"],
           scar' = IF \E u \in EpTasks \ {t} : task[u].c = c
                   THEN [scar EXCEPT !.raced = @ \cup {reg'[c].id}] ELSE scar,
           UNCHANGED <<ssh, target, barred, lis, kept, run, due>>
    PROVE  EpInv'
<1> DEFINE n == minted + 1
           r == Issued(c, n)
           live == KeepsListener(c)
           place == IF live THEN "park" ELSE "bind"
           q == [task[t] EXCEPT !.ep = Captured(r), !.pc = place]
<1>1. /\ minted \in Nat /\ n \in 0 .. EpMaxSec /\ n # 0 /\ reg[c] \in EpRecords /\ task[t] \in EpTaskRecords
      /\ scar \in EpScars /\ target[c] \in Nat /\ EpNames /\ run = "up" /\ task[t].op = "issue"
  BY EpAssumption DEF EpInv, EpShape, EpFits, EpFitsIn, EpAssumption
<1>0. live \in BOOLEAN /\ place \in {"park", "bind"}
  BY DEF KeepsListener
<1>a. minted' = n /\ reg' = [reg EXCEPT ![c] = r]
      /\ task' = [task EXCEPT ![t].ep = Captured(reg'[c]), ![t].pc = place]
  OBVIOUS
<1>c. /\ minted < n /\ minted' = n /\ minted <= minted' /\ minted' \in Nat /\ n <= n
      /\ \A i \in Nat : i <= minted => i # n /\ i <= n
  BY <1>1, <1>a
<1> HIDE DEF n, live, place
<1>2. /\ r \in EpRecords /\ r.sec = n /\ r.plain = n /\ r.id # 0
      /\ IsEp(c) => r.id = reg[c].id /\ r.tgt = reg[c].tgt /\ r.exp = reg[c].exp
      /\ ~IsEp(c) => r.id = n /\ r.tgt = target[c]
  BY <1>1, EpRecordIssued
<1>e. EpRegistry(reg', minted')
  BY EpIssues
<1> HIDE DEF r
<1>3. /\ reg' \in [EpConns -> EpRecords] /\ reg'[c] = r
      /\ \A d \in EpConns \ {c} : reg'[d] = reg[d]
  BY <1>2, <1>a DEF EpInv, EpShape
<1>4. /\ q \in EpTaskRecords /\ q.ep = Captured(r) /\ q.op = "issue" /\ q.c = c
      /\ q.pc = place
  <2>1. Captured(r) \in EpRecords
    BY <1>2, EpNothing
  <2>2. QED BY <1>0, <1>1, <2>1 DEF EpTaskRecords
<1>5. task' = [task EXCEPT ![t] = q]
  BY <1>1, <1>3, <1>a DEF EpInv, EpShape, EpTaskRecords
<1>b. /\ (live => place = "park" /\ IsEp(c) /\ lis[reg[c].id] # 0 /\ c \notin ssh)
      /\ (~live => place = "bind")
  BY DEF live, place, KeepsListener
<1>d. PICK id0 \in EpIds : id0 = r.id
  BY <1>2 DEF EpRecords, EpIds
<1>6. r.id \in EpIds /\ Captured(r).id = r.id /\ Captured(r).sec = r.sec /\ Captured(r).plain = r.plain
  BY <1>2, EpNothing DEF EpRecords, EpIds
<1> HIDE DEF q
<1>7. EpTaskStep(t, q)
  BY <1>4, <1>5, EpGoes DEF EpInv
<1>8. /\ scar' \in EpScars /\ scar.raced \subseteq scar'.raced
      /\ scar'.unkept = scar.unkept /\ scar'.unrevoked = scar.unrevoked /\ scar'.torn = scar.torn
      /\ scar'.stray = scar.stray
      /\ (\E u \in EpTasks \ {t} : task[u].c = c) => r.id \in scar'.raced
  <2>1. CASE \E u \in EpTasks \ {t} : task[u].c = c
    <3>1. scar' = [scar EXCEPT !.raced = @ \cup {r.id}] /\ r.id \in 0 .. EpMaxSec
      BY <1>2, <1>3, <2>1 DEF EpRecords
    <3>2. QED BY <1>1, <3>1 DEF EpScars, EpMarks
  <2>2. CASE ~\E u \in EpTasks \ {t} : task[u].c = c
    BY <1>1, <2>2
  <2>3. QED BY <2>1, <2>2
<1>9. EpShape'
  <2>1. minted' \in 0 .. EpMaxSec /\ kept' \in [EpIds -> 0 .. minted']
    BY <1>1, <1>a, EpAssumption DEF EpInv, EpShape, EpAssumption, n
  <2>2. QED BY <1>1, <1>3, <1>7, <1>8, <2>1 DEF EpInv, EpShape, EpTaskStep
<1>10. EpNames'
  BY <1>e DEF EpNames, EpNamesIn, EpRegistry
<1>11. EpTargetKept'
  <2>1. \A d \in EpConns : IsEp(d) /\ reg[d].id \notin scar.torn \cup scar.stray => reg[d].tgt = target[d]
    BY DEF EpInv, EpTargetKept
  <2>2. QED BY <1>2, <1>3, <1>8, <2>1 DEF EpTargetKept, IsEp
<1>12. Count' <= EpMax
  BY <1>e DEF EpRegistry, Count, IsEp
<1>13. EpFitsIn(q, reg', minted', lis', scar'.raced)
  <2>1. \A d \in EpConns : reg'[d].id = r.id => d = c
    BY <1>2, <1>3, <1>10 DEF EpNames
  <2>2. q.pc \in {"park", "bind"}
    BY <1>0, <1>4
  <2>3. r.id <= minted' /\ r.sec <= minted' /\ r.sec # 0
    BY <1>1, <1>2, <1>3, <1>10 DEF EpNames
  <2>4. QED BY <1>2, <1>3, <1>4, <1>6, <2>1, <2>2, <2>3 DEF EpFitsIn
<1>14. \A u \in EpTasks : EpFits(task[u])'
  <2>1. ASSUME NEW v \in EpTasks \ {t}, NEW d \in EpConns, reg'[d].id = task[v].ep.id, task[v].ep.id # 0
        PROVE  /\ reg[d].id = task[v].ep.id
               /\ task[v].ep.id \notin scar'.raced => Captured(reg'[d]) = Captured(reg[d])
               /\ lis[task[v].ep.id] # 0 => lis'[task[v].ep.id] # 0
    <3>1. EpFitsIn(task[v], reg, minted, lis, scar.raced) /\ task[v].ep.id \in Nat
      BY DEF EpInv, EpFits, EpShape, EpTaskRecords, EpRecords
    <3>2. CASE d # c
      BY <1>3, <2>1, <3>2
    <3>3. CASE d = c
      <4>1. r.id = task[v].ep.id /\ r.id # n
        BY <1>3, <1>c, <2>1, <3>1, <3>3 DEF EpFitsIn
      <4>2. reg[c].id = task[v].ep.id
        BY <1>2, <4>1
      <4>3. task[v].c = c
        BY <2>1, <3>1, <4>2 DEF EpFitsIn
      <4>4. QED BY <1>8, <3>3, <4>1, <4>2, <4>3
    <3>4. QED BY <3>2, <3>3
  <2>2. minted' \in Nat /\ minted <= minted'
    BY <1>1
  <2>3. QED BY <1>7, <1>8, <1>13, <2>1, <2>2, EpTasksFit
<1>15. ASSUME NEW id PROVE (EpBinds(id) => EpBinds(id)') /\ (EpParks(id) => EpParks(id)')
  BY <1>7, EpOthers DEF EpBinding, EpParking
<1>16. EpParks(id0)' /\ (~live => EpBinds(id0)')
  <2>1. EpParking(q, id0) /\ (~live => EpBinding(q, id0))
    BY <1>0, <1>4, <1>6, <1>b, <1>d DEF EpBinding, EpParking
  <2>2. QED BY <1>7, <2>1, EpOthers
<1>17. ASSUME NEW d \in EpConns PROVE EpHeard(d)' /\ EpTold(d)'
  <2>1. EpHeard(d) /\ EpTold(d)
    BY DEF EpInv
  <2>2. CASE d # c
    BY <1>3, <1>8, <1>15, <2>1, <2>2 DEF EpHeard, EpTold, Address
  <2>3. CASE d = c
    <3>0. run' = "up" /\ lis' = lis /\ r.plain # 0
      BY <1>1, <1>2
    <3>1. EpHeard(c)'
      BY <1>2, <1>3, <1>16, <1>b, <1>d, <3>0 DEF EpHeard
    <3>3. ASSUME ~live PROVE EpTold(c)'
      BY <1>3, <1>16, <1>d, <3>0, <3>3 DEF EpTold
    <3>4. ASSUME live PROVE EpTold(c)'
      <4>1. r.id = reg[c].id /\ reg[c].id # 0 /\ Address(c, reg[c].sec) = 1
        BY <1>2, <1>b, <3>4 DEF Address
      <4>2. id0 \notin scar.raced \cup scar.unkept \cup scar.unrevoked \cup scar.stray =>
              lis[id0] \in {0, 1} \/ EpBinds(id0)
        BY <1>d, <2>1, <2>3, <4>1 DEF EpTold
      <4>3. Address(c, reg[c].sec)' = 1
        BY <1>b, <3>4 DEF Address
      <4>4. QED BY <1>3, <1>8, <1>15, <1>16, <1>d, <3>0, <4>2, <4>3 DEF EpTold
    <3>5. QED BY <2>3, <3>1, <3>3, <3>4
  <2>4. QED BY <2>2, <2>3
<1>18. EpRegistry(epfile', minted')
  BY <1>e, <1>c, EpDisk
<1>19. QED BY <1>9, <1>10, <1>11, <1>12, <1>14, <1>17, <1>18 DEF EpInv

\* Fewer endpoints do not pass the limit.
LEMMA EpFewer ==
    ASSUME EpAssumption, Count <= EpMax, \A c \in EpConns : IsEp(c)' => IsEp(c)
    PROVE  Count' <= EpMax
<1> DEFINE S == {c \in EpConns : IsEp(c)}
<1>1. IsFiniteSet(S) /\ S' \subseteq S
  BY FS_Subset, EpAssumption DEF EpAssumption
<1>2. IsFiniteSet(S') /\ Cardinality(S') <= Cardinality(S)
  BY <1>1, FS_Subset
<1>3. Cardinality(S) \in Nat /\ Cardinality(S') \in Nat /\ EpMax \in Nat
  BY <1>1, <1>2, FS_CardinalityType, EpAssumption DEF EpAssumption
<1>4. QED BY <1>2, <1>3 DEF Count

\* A listener is bound: what has to be stored still is, and what is renewed is listened to.
LEMMA EpBindKeeps ==
    ASSUME EpAssumption, EpInv, NEW t \in EpTasks, task[t].pc = "bind",
           NEW c \in EpConns, c = task[t].c, NEW e \in EpRecords, e = task[t].ep,
           lis' = [lis EXCEPT ![e.id] = Address(c, Plain(e))],
           kept' = IF c \in ssh /\ e.plain # 0 THEN [kept EXCEPT ![e.id] = e.plain] ELSE kept,
           task' = [task EXCEPT ![t].pc = IF task[t].op = "issue" THEN "park" ELSE "renew"],
           epfile' \in {epfile, OnDisk(reg)},
           UNCHANGED <<ssh, target, barred, reg, minted, run, due, scar>>
    PROVE  EpInv'
<1> DEFINE place == IF task[t].op = "issue" THEN "park" ELSE "renew"
           q == [task[t] EXCEPT !.pc = place]
<1>1. /\ EpFitsIn(task[t], reg, minted, lis, scar.raced) /\ task[t] \in EpTaskRecords
      /\ e.id \in EpIds /\ e.sec \in 0 .. minted /\ e.plain \in 0 .. minted /\ minted \in Nat /\ minted <= EpMaxSec
      /\ kept[e.id] \in 0 .. minted /\ EpNames /\ e.plain \in {0, e.sec} /\ e.id # 0
  <2>1. EpFitsIn(task[t], reg, minted, lis, scar.raced) /\ task[t] \in EpTaskRecords /\ minted \in 0 .. EpMaxSec
    BY DEF EpInv, EpShape, EpFits
  <2>2. e.id # 0 /\ e.sec <= minted /\ e.plain \in {0, e.sec}
    BY <2>1 DEF EpFitsIn
  <2>3. e.id \in EpIds /\ e.sec \in 0 .. minted /\ e.plain \in 0 .. minted /\ minted \in Nat /\ minted <= EpMaxSec
    BY <2>1, <2>2, EpAssumption DEF EpRecords, EpIds, EpAssumption
  <2>4. QED BY <2>1, <2>2, <2>3 DEF EpInv, EpShape
<1>2. /\ q \in EpTaskRecords /\ q.pc = place /\ place \in {"park", "renew"} /\ q.op = task[t].op
      /\ q.c = c /\ q.ep = e /\ (place = "park" <=> q.op = "issue")
  BY <1>1 DEF EpTaskRecords
<1>3. EpTaskStep(t, q)
  <2>1. task' = [task EXCEPT ![t] = q]
    BY DEF EpInv, EpShape
  <2> HIDE DEF q, place
  <2>2. QED BY <1>2, <2>1, EpGoes DEF EpInv
<1> HIDE DEF q, place
<1>4. Plain(e) \in 0 .. minted /\ Address(c, Plain(e)) \in 1 .. EpLegacy
  <2>1. Plain(e) \in 0 .. minted
    BY <1>1 DEF Plain
  <2>2. QED BY <1>1, <2>1, EpAssumption DEF Address, EpLegacy, EpAssumption
<1>5. /\ lis' \in [EpIds -> 0 .. EpLegacy] /\ lis'[e.id] = Address(c, Plain(e)) /\ lis'[e.id] # 0
      /\ \A i \in EpIds : i # e.id => lis'[i] = lis[i]
  BY <1>1, <1>4 DEF EpInv, EpShape
<1>6. /\ kept' \in [EpIds -> 0 .. minted]
      /\ kept'[e.id] = IF c \in ssh /\ e.plain # 0 THEN e.plain ELSE kept[e.id]
      /\ \A i \in EpIds : i # e.id => kept'[i] = kept[i]
  BY <1>1 DEF EpInv, EpShape
<1>7. EpShape'
  <2>1. run = "up"
    BY DEF EpInv, EpShape
  <2>2. QED BY <1>3, <1>5, <1>6, <2>1 DEF EpInv, EpShape, EpTaskStep
<1>8. EpNames' /\ EpTargetKept' /\ Count' <= EpMax
  BY DEF EpInv, EpNames, EpTargetKept, Count, IsEp
<1>9. \A u \in EpTasks : EpFits(task[u])'
  <2>1. EpFitsIn(q, reg', minted', lis', scar'.raced)
    BY <1>1, <1>2, <1>5 DEF EpFitsIn
  <2>2. ASSUME NEW v \in EpTasks \ {t}, task[v].ep.id # 0
        PROVE  lis[task[v].ep.id] # 0 => lis'[task[v].ep.id] # 0
    <3>1. task[v].ep.id \in EpIds
      BY <2>2 DEF EpInv, EpShape, EpTaskRecords, EpRecords, EpIds
    <3>2. QED BY <1>5, <3>1
  <2>3. \A v \in EpTasks \ {t}, d \in EpConns : reg'[d].id = task[v].ep.id /\ task[v].ep.id # 0 =>
          /\ reg[d].id = task[v].ep.id
          /\ task[v].ep.id \notin scar'.raced => Captured(reg'[d]) = Captured(reg[d])
          /\ lis[task[v].ep.id] # 0 => lis'[task[v].ep.id] # 0
    BY <2>2
  <2>4. minted' \in Nat /\ minted <= minted' /\ scar.raced \subseteq scar'.raced
    BY <1>1
  <2>5. QED BY <1>3, <2>1, <2>3, <2>4, EpTasksFit
<1>10. ASSUME NEW id \in EpIds
       PROVE  /\ EpParks(id) => EpParks(id)'
              /\ id # e.id => (EpBinds(id) => EpBinds(id)')
  BY <1>2, <1>3, EpOthers DEF EpBinding, EpParking
<1>11. ASSUME NEW d \in EpConns PROVE EpHeard(d)' /\ EpTold(d)'
  <2>1. EpHeard(d) /\ EpTold(d) /\ (reg[d].id # 0 => reg[d].id \in EpIds)
    BY DEF EpInv, EpShape, EpRecords, EpIds
  <2>2. CASE reg[d].id # e.id
    BY <1>5, <1>6, <1>10, <2>1, <2>2 DEF EpHeard, EpTold, Address
  <2>3. CASE reg[d].id = e.id
    <3>1. d = c /\ (e.id \notin scar.raced => e = Captured(reg[c]))
      BY <1>1, <2>3 DEF EpFitsIn
    <3>2. e.id \notin scar.raced => e.sec = reg[c].sec /\ e.plain = reg[c].plain
      BY <3>1, EpNothing DEF EpInv, EpShape
    <3>3. EpHeard(d)'
      BY <1>5, <2>3 DEF EpHeard
    <3>4. ASSUME e.id \notin scar.raced \cup scar.unkept \cup scar.unrevoked \cup scar.stray
          PROVE  /\ reg[c].plain = 0 => kept'[e.id] = reg[c].sec
                 /\ kept'[e.id] = reg[c].sec \/ EpParks(e.id)
                 /\ Plain(e) = reg[c].sec
      <4>1. /\ reg[c].plain = 0 => kept[e.id] = reg[c].sec
            /\ kept[e.id] = reg[c].sec \/ EpParks(e.id)
        BY <1>1, <2>1, <2>3, <3>1, <3>4 DEF EpTold
      <4>2. QED BY <1>1, <1>6, <3>2, <3>4, <4>1 DEF Plain
    <3>5. EpTold(d)'
      BY <1>5, <1>10, <2>1, <2>3, <3>1, <3>4, <1>1 DEF EpTold, Address
    <3>6. QED BY <3>3, <3>5
  <2>4. QED BY <2>2, <2>3
<1>12. EpRegistry(epfile', minted')
  BY EpRegs, EpWritten
<1>13. QED BY <1>7, <1>8, <1>9, <1>11, <1>12 DEF EpInv

\* A record whose listener could not be bound is withdrawn, or marked when that fails too.
LEMMA EpWithdrawKeeps ==
    ASSUME EpAssumption, EpInv, NEW t \in EpTasks, NEW q, EpTaskStep(t, q), NEW id \in EpIds, Withdraw(id),
           EpFitsIn(q, reg, minted, lis, scar.raced),
           \A i \in EpIds \ {id} : EpDone(t, i),
           run # "up" => \A u \in EpTasks : task'[u].pc = "idle",
           UNCHANGED <<ssh, target, barred, lis, kept, minted, run>>,
           due \ {id} \subseteq due', due' \subseteq due
    PROVE  EpInv'
<1>1. /\ minted \in Nat /\ scar \in EpScars /\ EpNames
      /\ \A c \in EpConns : reg[c].id # 0 => reg[c].id \in EpIds
  BY EpAssumption DEF EpInv, EpShape, EpAssumption, EpRecords, EpIds
<1>0. EpRegistry(EpWithout(id), minted) /\ EpRegistry(epfile', minted')
  <2>1. /\ EpWithout(id) \in [EpConns -> EpRecords]
        /\ \A c \in EpConns : EpWithout(id)[c] \in {reg[c], NoEp}
    BY EpNothing DEF EpWithout, EpInv, EpShape
  <2>2. EpRegistry(EpWithout(id), minted)
    BY <2>1, EpRegs, EpSame
  <2>3. epfile' \in {epfile, OnDisk(EpWithout(id))}
    BY DEF Withdraw, Persist, PersistFails
  <2>4. QED BY <1>1, <2>2, <2>3, EpWritten
<1>2. /\ reg' \in [EpConns -> EpRecords]
      /\ \A c \in EpConns : \/ reg'[c] = NoEp
                            \/ /\ reg'[c] = reg[c]
                               /\ reg[c].id = id => id \in scar'.unrevoked
      /\ scar' \in EpScars /\ scar'.raced = scar.raced /\ scar'.unkept = scar.unkept
      /\ scar.unrevoked \subseteq scar'.unrevoked /\ scar'.torn = scar.torn /\ scar'.stray = scar.stray
  <2>1. CASE reg' = EpWithout(id) /\ UNCHANGED scar
    BY <1>1, <2>1, EpNothing DEF EpWithout, EpInv, EpShape
  <2>2. CASE UNCHANGED reg /\ scar' = Marked("unrevoked", {id})
    <3>1. {id} \in SUBSET (0 .. EpMaxSec)
      BY EpAssumption DEF EpIds, EpAssumption
    <3>2. /\ scar' \in EpScars /\ scar'.raced = scar.raced /\ scar'.unkept = scar.unkept
          /\ scar'.unrevoked = scar.unrevoked \cup {id} /\ scar'.torn = scar.torn
          /\ scar'.stray = scar.stray
      BY <1>1, <2>2, <3>1, EpHit
    <3>3. QED BY <2>2, <3>2 DEF EpInv, EpShape
  <2>3. QED BY <2>1, <2>2 DEF Withdraw, Persist, PersistFails
<1>3. EpShape'
  BY <1>2 DEF EpInv, EpShape, EpTaskStep
<1>4. EpNames'
  BY <1>1, <1>2, EpNothing DEF EpNames
<1>5. EpTargetKept'
  BY <1>2 DEF EpInv, EpTargetKept, IsEp
<1>6. Count' <= EpMax
  BY <1>2, EpFewer DEF EpInv, IsEp
<1>7. \A u \in EpTasks : EpFits(task[u])'
  <2>1. EpFitsIn(q, reg', minted', lis', scar'.raced)
    BY <1>2, EpNothing DEF EpFitsIn
  <2>2. QED BY <1>1, <1>2, <2>1, EpTasksFit, EpNothing
<1>8. ASSUME NEW i \in EpIds, i # id
      PROVE  (EpBinds(i) => EpBinds(i)') /\ (EpParks(i) => EpParks(i)')
  BY <1>8, EpOthers DEF EpDone
<1>9. ASSUME NEW c \in EpConns PROVE EpHeard(c)' /\ EpTold(c)'
  <2>1. CASE reg'[c] = NoEp
    BY <2>1, EpNothing DEF EpHeard, EpTold
  <2>2. CASE reg'[c] = reg[c] /\ (reg[c].id = id => id \in scar'.unrevoked)
    <3>1. EpHeard(c) /\ EpTold(c)
      BY DEF EpInv
    <3>2. EpHeard(c)'
      BY <1>1, <1>2, <1>8, <2>2, <3>1 DEF EpHeard
    <3>3. EpTold(c)'
      BY <1>1, <1>2, <1>8, <2>2, <3>1 DEF EpTold, Address
    <3>4. QED BY <3>2, <3>3
  <2>3. QED BY <1>2, <2>1, <2>2
<1>10. QED BY <1>0, <1>3, <1>4, <1>5, <1>6, <1>7, <1>9 DEF EpInv

\* The operation of t, and the endpoint it works on.
LEMMA EpWorks ==
    ASSUME EpAssumption, EpInv, NEW t \in EpTasks, task[t].pc \in {"bind", "park", "renew", "show"}
    PROVE  /\ task[t] \in EpTaskRecords /\ task[t].c \in EpConns /\ task[t].ep \in EpRecords
           /\ task[t].ep.id \in EpIds /\ task[t].ep.id # 0 /\ task[t].ep.sec \in 0 .. minted
           /\ EpFitsIn(task[t], reg, minted, lis, scar.raced)
           /\ run = "up" /\ minted \in Nat /\ scar \in EpScars
           /\ \A i \in EpIds \ {task[t].ep.id} : EpDone(t, i)
<1>1. /\ task[t] \in EpTaskRecords /\ EpFitsIn(task[t], reg, minted, lis, scar.raced)
      /\ run = "up" /\ minted \in Nat /\ scar \in EpScars
  BY EpAssumption DEF EpInv, EpShape, EpFits, EpAssumption
<1>2. task[t].c \in EpConns /\ task[t].ep \in EpRecords /\ task[t].ep.id # 0 /\ task[t].ep.sec <= minted
  BY <1>1 DEF EpFitsIn, EpTaskRecords
<1>3. task[t].ep.id \in EpIds /\ task[t].ep.sec \in 0 .. minted
  BY <1>1, <1>2, EpAssumption DEF EpRecords, EpIds, EpAssumption
<1>4. QED BY <1>1, <1>2, <1>3 DEF EpDone, EpBinding, EpParking

\* A listener is bound outside the gate, or it is not.
LEMMA EpBindSteps ==
    ASSUME EpAssumption, EpInv, NEW t \in EpTasks, EpBind(t) PROVE EpInv'
<1>1. task[t].pc = "bind" /\ UNCHANGED <<ssh, target, barred, minted, run, due>>
  BY DEF EpBind
<1>2. PICK c \in EpConns, e \in EpRecords : c = task[t].c /\ e = task[t].ep
  BY <1>1, EpWorks
<1>3. CASE /\ lis' = [lis EXCEPT ![e.id] = Address(c, Plain(e))]
           /\ kept' = IF c \in ssh /\ e.plain # 0 THEN [kept EXCEPT ![e.id] = e.plain] ELSE kept
           /\ task' = [task EXCEPT ![t].pc = IF task[t].op = "issue" THEN "park" ELSE "renew"]
           /\ epfile' \in {epfile, OnDisk(reg)} /\ UNCHANGED <<reg, scar>>
  BY <1>1, <1>2, <1>3, EpBindKeeps
<1>4. CASE task[t].op = "issue" /\ Withdraw(e.id) /\ End(t) /\ UNCHANGED <<lis, kept>>
  <2>1. EpTaskStep(t, NoTask) /\ EpFitsIn(NoTask, reg, minted, lis, scar.raced)
    BY <1>1, <1>4, EpEnds, EpFitsNone, EpWorks DEF EpInv
  <2>2. PICK id \in EpIds : id = e.id
    BY <1>1, <1>2, EpWorks
  <2>3. /\ Withdraw(id) /\ \A i \in EpIds \ {id} : EpDone(t, i)
        /\ run = "up"
    BY <1>1, <1>2, <1>4, <2>2, EpWorks
  <2>4. due \ {id} \subseteq due' /\ due' \subseteq due
    BY <1>1
  <2>5. QED BY <1>1, <1>4, <2>1, <2>3, <2>4, EpWithdrawKeeps
<1>5. CASE task[t].op # "issue" /\ UNCHANGED <<reg, epfile, scar>> /\ End(t) /\ UNCHANGED <<lis, kept>>
  <2>1. EpTaskStep(t, NoTask) /\ EpFitsIn(NoTask, reg, minted, lis, scar.raced)
    BY <1>1, <1>5, EpEnds, EpFitsNone, EpWorks DEF EpInv
  <2>2. \A id \in EpIds : EpDone(t, id)
    BY <1>5 DEF EpDone, EpBinding, EpParking
  <2>3. /\ run = "up" /\ scar' \in EpScars /\ scar' = scar
        /\ minted' \in 0 .. EpMaxSec /\ minted <= minted' /\ EpRegistry(epfile', minted')
    BY <1>1, <1>5, EpWorks, EpRegs
  <2>4. QED BY <1>1, <1>5, <2>1, <2>2, <2>3, EpTraceless
<1>6. QED BY <1>2, <1>3, <1>4, <1>5 DEF EpBind, Bound, Keep

\* What an operation holds goes to the vault, or it is known that it did not, or is still
\* to go there.
LEMMA EpStoreKeeps ==
    ASSUME EpAssumption, EpInv, NEW t \in EpTasks, task[t].pc \in {"park", "show"},
           NEW q, EpTaskStep(t, q), EpFitsIn(q, reg, minted, lis, scar.raced),
           NEW e \in EpRecords, e = task[t].ep,
           UNCHANGED <<ssh, target, barred, reg, epfile, lis, minted, run, due>>,
           kept' = kept \/ (kept' = [kept EXCEPT ![e.id] = e.plain] /\ e.plain # 0),
           /\ scar' \in EpScars /\ scar'.raced = scar.raced /\ scar.unkept \subseteq scar'.unkept
           /\ scar'.unrevoked = scar.unrevoked /\ scar'.torn = scar.torn /\ scar'.stray = scar.stray,
           EpParking(task[t], e.id) =>
              kept'[e.id] = e.plain \/ e.id \in scar'.unkept \/ EpParking(q, e.id)
    PROVE  EpInv'
<1>1. /\ e.id \in EpIds /\ e.id # 0 /\ e.sec \in 0 .. minted /\ run = "up" /\ minted \in Nat
      /\ e.plain \in {0, e.sec} /\ EpFitsIn(task[t], reg, minted, lis, scar.raced)
      /\ task[t].op = "issue" => e.plain = e.sec
  BY EpWorks DEF EpFitsIn
<1>2. /\ kept' \in [EpIds -> 0 .. minted]
      /\ \A i \in EpIds : i # e.id => kept'[i] = kept[i]
      /\ kept'[e.id] = kept[e.id] \/ (kept'[e.id] = e.sec /\ e.plain = e.sec)
  BY <1>1 DEF EpInv, EpShape
<1>3. EpShape'
  BY <1>1, <1>2 DEF EpInv, EpShape, EpTaskStep
<1>4. EpNames' /\ EpTargetKept' /\ Count' <= EpMax /\ EpRegistry(epfile', minted')
  BY DEF EpInv, EpNames, EpTargetKept, Count, IsEp
<1>5. \A u \in EpTasks : EpFits(task[u])'
  <2>1. EpFitsIn(q, reg', minted', lis', scar'.raced) /\ minted' \in Nat /\ minted <= minted'
        /\ scar.raced \subseteq scar'.raced
    BY <1>1
  <2>2. QED BY <2>1, EpTasksFit
<1>6. ASSUME NEW i \in EpIds
      PROVE  /\ EpBinds(i) => EpBinds(i)'
             /\ EpParks(i) => EpParks(i)' \/ (i = e.id /\ (kept'[i] = e.plain \/ i \in scar'.unkept)
                                                       /\ task[t].op = "issue")
  BY EpOthers DEF EpBinding, EpParking
<1>7. ASSUME NEW c \in EpConns PROVE EpHeard(c)' /\ EpTold(c)'
  <2>1. EpHeard(c) /\ EpTold(c) /\ (reg[c].id # 0 => reg[c].id \in EpIds)
    BY DEF EpInv, EpShape, EpRecords, EpIds
  <2>2. EpHeard(c)'
    BY <1>6, <2>1 DEF EpHeard
  <2>3. ASSUME reg[c].id # e.id PROVE EpTold(c)'
    BY <1>2, <1>6, <2>1, <2>3 DEF EpTold, Address
  <2>4. ASSUME reg[c].id = e.id PROVE EpTold(c)'
    <3>1. e.id \notin scar.raced => e.sec = reg[c].sec
      BY <1>1, <2>4, EpNothing DEF EpFitsIn, EpInv, EpShape
    <3>2. QED BY <1>1, <1>2, <1>6, <2>1, <2>4, <3>1 DEF EpTold, Address
  <2>5. QED BY <2>2, <2>3, <2>4
<1>8. QED BY <1>3, <1>4, <1>5, <1>7 DEF EpInv

\* The secret that was issued is stored, or will be tried once more.
LEMMA EpParkSteps ==
    ASSUME EpAssumption, EpInv, NEW t \in EpTasks, EpPark(t) PROVE EpInv'
<1> DEFINE q == [task[t] EXCEPT !.pc = "show"]
<1>1. task[t].pc = "park" /\ UNCHANGED <<ssh, target, barred, reg, epfile, lis, minted, run, due>>
      /\ task' = [task EXCEPT ![t].pc = "show"]
  BY DEF EpPark
<1>2. PICK e \in EpRecords : e = task[t].ep
  BY <1>1, EpWorks
<1>3. /\ task[t] \in EpTaskRecords /\ EpFitsIn(task[t], reg, minted, lis, scar.raced)
      /\ scar \in EpScars /\ e.id # 0 /\ task[t].op = "issue"
  BY <1>1, <1>2, EpWorks DEF EpFitsIn
<1>4. q \in EpTaskRecords /\ q.pc = "show" /\ q.op = task[t].op /\ q.c = task[t].c /\ q.ep = e
  BY <1>2, <1>3 DEF EpTaskRecords
<1>5. EpTaskStep(t, q)
  <2>1. task' = [task EXCEPT ![t] = q]
    BY <1>1 DEF EpInv, EpShape
  <2> HIDE DEF q
  <2>2. QED BY <1>4, <2>1, EpGoes DEF EpInv
<1> HIDE DEF q
<1>6. EpFitsIn(q, reg, minted, lis, scar.raced) /\ EpParking(q, e.id) /\ e.plain # 0
  BY <1>1, <1>2, <1>3, <1>4 DEF EpFitsIn, EpParking
<1>7. kept' = kept \/ kept' = [kept EXCEPT ![e.id] = e.plain]
  BY <1>2 DEF EpPark, Keep
<1>8. /\ scar' \in EpScars /\ scar'.raced = scar.raced /\ scar.unkept \subseteq scar'.unkept
      /\ scar'.unrevoked = scar.unrevoked /\ scar'.torn = scar.torn /\ scar'.stray = scar.stray
  BY <1>3, EpHit DEF EpPark
<1>9. QED BY <1>1, <1>2, <1>5, <1>6, <1>7, <1>8, EpStoreKeeps

\* The address is shown.
LEMMA EpShowSteps ==
    ASSUME EpAssumption, EpInv, NEW t \in EpTasks, EpShow(t) PROVE EpInv'
<1>1. /\ task[t].pc = "show" /\ End(t)
      /\ UNCHANGED <<ssh, target, barred, reg, epfile, lis, minted, run, due>>
  BY DEF EpShow
<1>2. PICK e \in EpRecords : e = task[t].ep
  BY <1>1, EpWorks
<1>0. /\ e.id \in EpIds /\ e.id # 0 /\ scar \in EpScars /\ minted \in Nat
      /\ EpFitsIn(task[t], reg, minted, lis, scar.raced)
  BY <1>1, <1>2, EpWorks
<1>3. /\ EpTaskStep(t, NoTask) /\ EpFitsIn(NoTask, reg, minted, lis, scar.raced)
      /\ task[t].op = "issue" => e.plain # 0
      /\ kept \in [EpIds -> 0 .. minted]
  <2>1. EpTaskStep(t, NoTask) /\ kept \in [EpIds -> 0 .. minted]
    BY <1>1, EpEnds DEF EpInv, EpShape
  <2>2. task[t].op = "issue" => e.plain # 0
    BY <1>0, <1>1, <1>2 DEF EpFitsIn
  <2>3. QED BY <1>0, <2>1, <2>2, EpFitsNone
<1>4. \/ /\ kept' = [kept EXCEPT ![e.id] = e.plain] /\ e.plain # 0 /\ scar' = scar
      \/ e.plain = 0 /\ kept' = kept /\ scar' = scar
      \/ kept[e.id] = e.plain /\ kept' = kept /\ scar' = Hit
      \/ kept' = kept /\ scar' = Marked("unkept", {e.id})
  BY <1>2 DEF EpShow, Keep
<1>5. {e.id} \in SUBSET (0 .. EpMaxSec)
  BY <1>0, EpAssumption DEF EpIds, EpAssumption
<1>6. /\ scar' \in EpScars /\ scar'.raced = scar.raced /\ scar.unkept \subseteq scar'.unkept
      /\ scar'.unrevoked = scar.unrevoked /\ scar'.torn = scar.torn /\ scar'.stray = scar.stray
      /\ scar' = Marked("unkept", {e.id}) => e.id \in scar'.unkept
  <2>1. CASE scar' = scar \/ scar' = Hit
    <3>1. /\ scar' \in EpScars /\ scar'.raced = scar.raced /\ scar'.unkept = scar.unkept
          /\ scar'.unrevoked = scar.unrevoked /\ scar'.torn = scar.torn /\ scar'.stray = scar.stray
      BY <1>0, <2>1, EpHit
    <3>2. Marked("unkept", {e.id}).unkept = scar.unkept \cup {e.id}
      BY <1>0, <1>5, EpHit
    <3>3. QED BY <3>1, <3>2
  <2>2. CASE scar' = Marked("unkept", {e.id})
    <3>1. /\ scar' \in EpScars /\ scar'.raced = scar.raced /\ scar'.unkept = scar.unkept \cup {e.id}
          /\ scar'.unrevoked = scar.unrevoked /\ scar'.torn = scar.torn /\ scar'.stray = scar.stray
      BY <1>0, <1>5, <2>2, EpHit
    <3>2. QED BY <3>1
  <2>3. QED BY <1>4, <2>1, <2>2
<1>7. EpParking(task[t], e.id) => kept'[e.id] = e.plain \/ e.id \in scar'.unkept
  BY <1>0, <1>3, <1>4, <1>6 DEF EpParking
<1>8. kept' = kept \/ (kept' = [kept EXCEPT ![e.id] = e.plain] /\ e.plain # 0)
  BY <1>4
<1>9. QED BY <1>0, <1>1, <1>2, <1>3, <1>6, <1>7, <1>8, EpStoreKeeps

\* An endpoint's id is one.
LEMMA EpNamed ==
    ASSUME EpInv, NEW c \in EpConns
    PROVE  (reg[c].id # 0 => reg[c].id \in EpIds) /\ EpHeard(c) /\ EpTold(c)
BY DEF EpInv, EpShape, EpRecords, EpIds

\* What has a place among the operations.
LEMMA EpMintSteps ==
    ASSUME EpAssumption, EpInv, NEW t \in EpTasks, EpMint(t) PROVE EpInv'
<1>1. task[t].pc = "mint" /\ UNCHANGED <<ssh, target, barred, lis, kept, run, due>>
      /\ minted \in Nat /\ minted \in 0 .. EpMaxSec
  BY EpRegs DEF EpMint, EpInv, EpShape
<1>2. PICK c \in EpConns : c = task[t].c
  BY <1>1 DEF EpInv, EpFits, EpFitsIn
<1> DEFINE next == [reg EXCEPT ![c] = Issued(c, minted + 1)]
<1>3. CASE End(t) /\ UNCHANGED <<reg, epfile, minted, scar>>
  <2>1. minted' \in 0 .. EpMaxSec /\ minted <= minted' /\ EpRegistry(epfile', minted')
    BY <1>1, <1>3, EpRegs
  <2>2. QED BY <1>1, <1>3, <2>1, EpMintFails
<1>4. CASE /\ IsEp(c) \/ ~(Count >= EpMax)
           /\ minted < EpMaxSec /\ minted' = minted + 1 /\ EpMinted(t, next)
  <2>1. Count \in Nat /\ EpMax \in Nat
    BY FS_Subset, FS_CardinalityType, EpAssumption DEF EpAssumption, Count
  <2>2. IsEp(c) \/ Count < EpMax
    BY <1>4, <2>1
  <2>3. minted' \in 0 .. EpMaxSec /\ minted <= minted' /\ minted' \in Nat
    BY <1>1, <1>4, EpAssumption DEF EpAssumption
  <2>4. CASE /\ reg' = next /\ epfile' = OnDisk(next)
             /\ task' = [task EXCEPT ![t].ep = Captured(next[c]),
                                    ![t].pc = IF KeepsListener(c) THEN "park" ELSE "bind"]
             /\ scar' = IF \E u \in EpTasks \ {t} : task[u].c = c
                        THEN [scar EXCEPT !.raced = @ \cup {next[c].id}] ELSE scar
    <3> HIDE DEF next
    <3>1. /\ epfile' = OnDisk(reg')
          /\ task' = [task EXCEPT ![t].ep = Captured(reg'[c]),
                                 ![t].pc = IF KeepsListener(c) THEN "park" ELSE "bind"]
          /\ scar' = IF \E u \in EpTasks \ {t} : task[u].c = c
                     THEN [scar EXCEPT !.raced = @ \cup {reg'[c].id}] ELSE scar
      BY <2>4
    <3>2. reg' = [reg EXCEPT ![c] = Issued(c, minted + 1)]
      BY <2>4 DEF next
    <3>3. QED BY <1>1, <1>2, <1>4, <2>2, <3>1, <3>2, EpMintIssues
  <2>5. CASE PersistFails("file", next) /\ scar' = Hit /\ End(t)
    <3>1. EpRegistry(next, minted')
      BY <1>4, <2>2, EpIssues
    <3> HIDE DEF next
    <3>2. EpRegistry(epfile', minted') /\ UNCHANGED reg
      BY <2>3, <2>5, <3>1, EpWritten DEF PersistFails
    <3>3. QED BY <1>1, <2>3, <2>5, <3>2, EpMintFails
  <2>6. QED BY <1>2, <1>4, <2>4, <2>5 DEF EpMinted, Persist
<1>5. QED BY <1>2, <1>3, <1>4 DEF EpMint

\* The deadline moves, or the listener bound for an endpoint that is gone is stopped.
LEMMA EpExtendedSteps ==
    ASSUME EpAssumption, EpInv, NEW t \in EpTasks, EpExtended(t) PROVE EpInv'
<1>1. task[t].pc = "renew" /\ UNCHANGED <<ssh, target, barred, kept, minted, run, due>>
  BY DEF EpExtended
<1>2. PICK c \in EpConns, e \in EpRecords : c = task[t].c /\ e = task[t].ep
  BY <1>1, EpWorks
<1>3. /\ e.id \in EpIds /\ e.id # 0 /\ run = "up" /\ minted \in Nat /\ scar \in EpScars
      /\ task[t] \in EpTaskRecords /\ EpFitsIn(task[t], reg, minted, lis, scar.raced)
      /\ EpFitsIn(NoTask, reg', minted', lis', scar'.raced)
      /\ \A i \in EpIds : EpDone(t, i)
  BY <1>1, <1>2, EpWorks, EpFitsNone DEF EpDone, EpBinding, EpParking
<1>4. ASSUME NEW q, EpTaskStep(t, q), NEW i \in EpIds
      PROVE (EpBinds(i) => EpBinds(i)') /\ (EpParks(i) => EpParks(i)')
  BY <1>3, <1>4, EpOthers DEF EpDone
<1> DEFINE next == [reg EXCEPT ![c].exp = IF task[t].op = "keep" THEN "never" ELSE "live"]
<1>n. /\ next \in [EpConns -> EpRecords] /\ next[c].exp # "lapsed"
      /\ \A d \in EpConns : /\ next[d].id = reg[d].id /\ next[d].sec = reg[d].sec
                            /\ next[d].plain = reg[d].plain /\ next[d].tgt = reg[d].tgt
                            /\ d # c => next[d] = reg[d]
  BY DEF EpInv, EpShape, EpRecords
<1>r. reg[c].id = e.id => EpRegistry(next, minted)
  <2> HIDE DEF next
  <2>1. ASSUME reg[c].id = e.id PROVE \A d \in EpConns : \/ next[d] = NoEp
                              \/ /\ next[d].id = reg[d].id /\ next[d].sec = reg[d].sec
                                 /\ next[d].plain \in {0, reg[d].plain} /\ reg[d] # NoEp
    BY <1>3, <1>n, <2>1, EpNothing
  <2>2. QED BY <1>3, <1>n, <2>1, EpRegs, EpSame
<1> HIDE DEF next
<1>5. CASE /\ UNCHANGED <<reg, lis>> /\ End(t) /\ scar' \in {scar, Hit}
           /\ EpRegistry(epfile', minted')
  <2>1. /\ EpTaskStep(t, NoTask) /\ EpFitsIn(NoTask, reg, minted', lis, scar.raced)
        /\ minted' \in 0 .. EpMaxSec /\ minted <= minted'
    BY <1>1, <1>3, <1>5, EpEnds, EpFitsNone, EpRegs DEF EpInv
  <2>2. /\ scar' \in EpScars /\ scar'.raced = scar.raced /\ scar'.unkept = scar.unkept
        /\ scar'.unrevoked = scar.unrevoked /\ scar'.torn = scar.torn /\ scar'.stray = scar.stray
    BY <1>3, <1>5, EpHit
  <2>3. QED BY <1>1, <1>3, <1>5, <2>1, <2>2, EpTraceless
<1>6. CASE /\ reg[c].id # e.id /\ lis' = [lis EXCEPT ![e.id] = 0] /\ End(t)
           /\ UNCHANGED <<reg, epfile, scar>>
  <2>0. EpTaskStep(t, NoTask)
    BY <1>6, EpEnds DEF EpInv
  <2>1. \A d \in EpConns : reg[d].id # e.id
    BY <1>2, <1>3, <1>6 DEF EpFitsIn
  <2>2. lis' \in [EpIds -> 0 .. EpLegacy] /\ \A i \in EpIds : i # e.id => lis'[i] = lis[i]
    BY <1>3, <1>6, EpAssumption DEF EpInv, EpShape, EpLegacy, EpAssumption
  <2>3. EpShape'
    BY <1>1, <1>3, <1>6, <2>0, <2>2 DEF EpInv, EpShape, EpTaskStep
  <2>4. EpNames' /\ EpTargetKept' /\ Count' <= EpMax
    BY <1>1, <1>6 DEF EpInv, EpNames, EpTargetKept, Count, IsEp
  <2>5. ASSUME NEW d \in EpConns, reg[d].id # 0 PROVE reg[d].id \in EpIds /\ lis'[reg[d].id] = lis[reg[d].id]
    BY <2>1, <2>2, <2>5, EpNamed
  <2>6. \A u \in EpTasks : EpFits(task[u])'
    <3>1. \A v \in EpTasks \ {t}, d \in EpConns : reg'[d].id = task[v].ep.id /\ task[v].ep.id # 0 =>
            /\ reg[d].id = task[v].ep.id
            /\ task[v].ep.id \notin scar'.raced => Captured(reg'[d]) = Captured(reg[d])
            /\ lis[task[v].ep.id] # 0 => lis'[task[v].ep.id] # 0
      BY <1>6, <2>5
    <3>2. minted' \in Nat /\ minted <= minted' /\ scar.raced \subseteq scar'.raced
      BY <1>1, <1>3, <1>6
    <3>3. QED BY <1>3, <2>0, <3>1, <3>2, EpTasksFit
  <2>7. ASSUME NEW d \in EpConns PROVE EpHeard(d)' /\ EpTold(d)'
    <3>1. EpHeard(d) /\ EpTold(d)
      BY DEF EpInv
    <3>2. EpHeard(d)'
      BY <1>1, <1>4, <1>6, <2>0, <2>5, <3>1 DEF EpHeard
    <3>3. EpTold(d)'
      BY <1>1, <1>4, <1>6, <2>0, <2>5, <3>1 DEF EpTold, Address
    <3>4. QED BY <3>2, <3>3
  <2>8. EpRegistry(epfile', minted')
    BY <1>1, <1>6, EpRegs
  <2>9. QED BY <2>3, <2>4, <2>6, <2>7, <2>8 DEF EpInv
<1>7. CASE /\ reg[c].id = e.id /\ reg' = next /\ epfile' = OnDisk(next)
           /\ task' = [task EXCEPT ![t].ep = Captured(reg[c]), ![t].pc = "show"]
           /\ UNCHANGED <<lis, scar>>
  <2> DEFINE q == [task[t] EXCEPT !.ep = Captured(reg[c]), !.pc = "show"]
  <2>0. /\ q \in EpTaskRecords /\ q.pc = "show" /\ q.c = c /\ q.ep = Captured(reg[c])
        /\ q.op = task[t].op /\ task[t].op # "issue"
    <3>1. Captured(reg[c]) \in EpRecords /\ task[t].op # "issue"
      BY <1>1, <1>3, EpNothing DEF EpInv, EpShape, EpFitsIn
    <3>2. QED BY <1>2, <1>3, <3>1 DEF EpTaskRecords
  <2>t. EpTaskStep(t, q)
    <3>1. task' = [task EXCEPT ![t] = q]
      BY <1>3, <1>7 DEF EpInv, EpShape, EpTaskRecords
    <3> HIDE DEF q
    <3>2. QED BY <2>0, <3>1, EpGoes DEF EpInv
  <2> HIDE DEF q
  <2>1. /\ reg' \in [EpConns -> EpRecords] /\ reg'[c].exp # "lapsed"
        /\ \A d \in EpConns : /\ reg'[d].id = reg[d].id /\ reg'[d].sec = reg[d].sec
                              /\ reg'[d].plain = reg[d].plain /\ reg'[d].tgt = reg[d].tgt
                              /\ d # c => reg'[d] = reg[d]
    BY <1>7, <1>n
  <2>2. lis[e.id] # 0
    BY <1>1, <1>2, <1>3, <1>7 DEF EpFitsIn
  <2>3. EpShape'
    BY <1>1, <1>3, <1>7, <2>1, <2>t DEF EpInv, EpShape, EpTaskStep
  <2>4. EpNames' /\ Count' <= EpMax /\ EpRegistry(epfile', minted')
    <3>1. EpRegistry(reg', minted') /\ minted' \in Nat
      BY <1>1, <1>3, <1>7, <1>r
    <3>2. EpRegistry(epfile', minted')
      BY <1>7, <3>1, EpDisk
    <3>3. QED BY <3>1, <3>2 DEF EpNames, EpNamesIn, EpRegistry, Count, IsEp
  <2>5. \A d \in EpConns : IsEp(d)' => IsEp(d)
    BY <1>3, <1>7, <2>1, EpNothing DEF IsEp
  <2>6. EpTargetKept'
    BY <1>1, <1>7, <2>1, <2>5 DEF EpInv, EpTargetKept
  <2>7. \A d \in EpConns : Captured(reg'[d]) = Captured(reg[d])
    BY <2>1 DEF Captured
  <2>8. \A u \in EpTasks : EpFits(task[u])'
    <3>1. minted' \in Nat /\ minted <= minted' /\ scar.raced \subseteq scar'.raced
      BY <1>1, <1>3, <1>7
    <3>2. \A v \in EpTasks \ {t}, d \in EpConns : reg'[d].id = task[v].ep.id /\ task[v].ep.id # 0 =>
            /\ reg[d].id = task[v].ep.id
            /\ task[v].ep.id \notin scar'.raced => Captured(reg'[d]) = Captured(reg[d])
            /\ lis[task[v].ep.id] # 0 => lis'[task[v].ep.id] # 0
      BY <1>7, <2>1, <2>7
    <3>3. reg[c] \in EpRecords /\ EpNames /\ reg[c].id # 0
      BY <1>3, <1>7 DEF EpInv, EpShape
    <3>4. EpFitsIn(q, reg, minted, lis, scar.raced)
      BY <1>3, <2>0, <3>3, EpNothing DEF EpFitsIn, EpNames
    <3>5. EpFitsIn(q, reg', minted', lis', scar'.raced)
      BY <1>1, <1>7, <2>0, <2>1, <2>7, <3>4 DEF EpFitsIn
    <3>6. QED BY <2>t, <3>1, <3>2, <3>5, EpTasksFit
  <2>9. ASSUME NEW d \in EpConns PROVE EpHeard(d)' /\ EpTold(d)'
    <3>1. EpHeard(d) /\ EpTold(d) /\ (reg[d].id # 0 => reg[d].id \in EpIds)
      BY EpNamed
    <3>2. EpHeard(d)'
      BY <1>1, <1>4, <1>7, <2>1, <2>2, <2>t, <3>1 DEF EpHeard
    <3>3. EpTold(d)'
      BY <1>1, <1>4, <1>7, <2>1, <2>t, <3>1 DEF EpTold, Address
    <3>4. QED BY <3>2, <3>3
  <2>10. QED BY <2>3, <2>4, <2>6, <2>8, <2>9 DEF EpInv
<1>8. ASSUME PersistFails("file", next), reg[c].id = e.id PROVE EpRegistry(epfile', minted') /\ UNCHANGED reg
  <2>1. EpRegistry(next, minted') /\ minted' \in Nat /\ minted <= minted'
    BY <1>1, <1>3, <1>8, <1>r
  <2>2. epfile' \in {epfile, OnDisk(next)} /\ UNCHANGED reg
    BY <1>8 DEF PersistFails
  <2>3. QED BY <2>1, <2>2, EpWritten
<1>9. UNCHANGED epfile => EpRegistry(epfile', minted')
  BY <1>1, EpRegs
<1>10. \/ reg[c].id # e.id /\ lis' \in {lis, [lis EXCEPT ![e.id] = 0]} /\ End(t) /\ UNCHANGED <<reg, epfile, scar>>
       \/ /\ reg[c].id = e.id /\ reg' = next /\ epfile' = OnDisk(next)
          /\ task' = [task EXCEPT ![t].ep = Captured(reg[c]), ![t].pc = "show"]
          /\ UNCHANGED <<lis, scar>>
       \/ reg[c].id = e.id /\ PersistFails("file", next) /\ scar' = Hit /\ End(t) /\ UNCHANGED lis
       \/ End(t) /\ UNCHANGED <<reg, epfile, lis, scar>>
  BY <1>2 DEF EpExtended, Persist, next
<1>11. QED BY <1>5, <1>6, <1>7, <1>8, <1>9, <1>10

\* Nothing moves among the operations, and what they captured is still so, or gone.
LEMMA EpUntouched ==
    ASSUME EpAssumption, EpInv, UNCHANGED <<task, minted>>, scar.raced \subseteq scar'.raced,
           \A c \in EpConns : \/ reg'[c].id = 0
                             \/ /\ reg'[c].id = reg[c].id
                                /\ Captured(reg'[c]) = Captured(reg[c])
                                /\ lis[reg[c].id] # 0 => lis'[reg[c].id] # 0
    PROVE  /\ \A u \in EpTasks : EpFits(task[u])'
           /\ \A id : (EpBinds(id)' <=> EpBinds(id)) /\ (EpParks(id)' <=> EpParks(id))
<1>1. ASSUME NEW v \in EpTasks PROVE EpFitsIn(task[v], reg', minted', lis', scar'.raced)
  <2>1. minted' \in Nat /\ minted <= minted'
    BY EpAssumption DEF EpInv, EpShape, EpAssumption
  <2>2. \A c \in EpConns : reg'[c].id = task[v].ep.id /\ task[v].ep.id # 0 =>
          /\ reg[c].id = task[v].ep.id
          /\ task[v].ep.id \notin scar'.raced => Captured(reg'[c]) = Captured(reg[c])
          /\ lis[task[v].ep.id] # 0 => lis'[task[v].ep.id] # 0
    OBVIOUS
  <2>3. QED BY <2>1, <2>2, EpFitsStays
<1>2. QED BY <1>1 DEF EpFits, EpBinds, EpParks

\* A deadline passes.
LEMMA EpLapseSteps ==
    ASSUME EpAssumption, EpInv, NEW c \in EpConns, EpLapse(c) PROVE EpInv'
<1>1. /\ IsEp(c) /\ reg' = [reg EXCEPT ![c].exp = "lapsed"]
      /\ UNCHANGED <<ssh, target, barred, lis, kept, minted, task, run, due, scar>>
  BY DEF EpLapse
<1>2. /\ reg' \in [EpConns -> EpRecords] /\ reg'[c].exp = "lapsed"
      /\ \A d \in EpConns : /\ reg'[d].id = reg[d].id /\ reg'[d].sec = reg[d].sec
                            /\ reg'[d].plain = reg[d].plain /\ reg'[d].tgt = reg[d].tgt
                            /\ d # c => reg'[d] = reg[d]
  BY <1>1 DEF EpInv, EpShape, EpRecords
<1>3. \A d \in EpConns : IsEp(d)' => IsEp(d)
  BY <1>1, <1>2 DEF IsEp
<1>4. EpShape'
  BY <1>1, <1>2 DEF EpInv, EpShape
<1>5. EpNames'
  <2>1. reg[c].id # 0
    BY <1>1 DEF EpInv, EpNames, IsEp
  <2>2. QED BY <1>1, <1>2, <2>1 DEF EpInv, EpNames
<1>6. EpTargetKept' /\ Count' <= EpMax
  BY <1>1, <1>2, <1>3, EpFewer DEF EpInv, EpTargetKept
<1>7. \A d \in EpConns : Captured(reg'[d]) = Captured(reg[d])
  BY <1>2 DEF Captured
<1>8. /\ \A u \in EpTasks : EpFits(task[u])'
      /\ \A id : (EpBinds(id)' <=> EpBinds(id)) /\ (EpParks(id)' <=> EpParks(id))
  BY <1>1, <1>2, <1>7, EpUntouched
<1>9. ASSUME NEW d \in EpConns PROVE EpHeard(d)' /\ EpTold(d)'
  <2>1. EpHeard(d) /\ EpTold(d)
    BY EpNamed
  <2>2. EpHeard(d)'
    BY <1>1, <1>2, <1>8, <2>1 DEF EpHeard
  <2>3. EpTold(d)'
    BY <1>1, <1>2, <1>8, <2>1 DEF EpTold, Address
  <2>4. QED BY <2>2, <2>3
<1>10. EpRegistry(epfile', minted')
  <2>0. EpRegistry(epfile, minted) /\ epfile \in [EpConns -> EpRecords] /\ minted \in Nat /\ minted' = minted
    BY <1>1, EpRegs DEF EpRegistry
  <2>1. epfile' = [d \in EpConns |->
          IF d = c /\ epfile[c].exp = "live" THEN [epfile[c] EXCEPT !.exp = "lapsed"] ELSE epfile[d]]
    BY DEF EpLapse
  <2>2. /\ epfile' \in [EpConns -> EpRecords]
        /\ \A d \in EpConns : /\ epfile'[d].id = epfile[d].id /\ epfile'[d].sec = epfile[d].sec
                              /\ epfile'[d].plain = epfile[d].plain
                              /\ epfile[d].exp = "never" => epfile'[d] = epfile[d]
    BY <2>0, <2>1 DEF EpRecords
  <2>3. NoEp.exp = "never"
    BY EpNothing
  <2>4. \A d \in EpConns : \/ epfile'[d] = NoEp
                           \/ /\ epfile'[d].id = epfile[d].id /\ epfile'[d].sec = epfile[d].sec
                              /\ epfile'[d].plain \in {0, epfile[d].plain} /\ epfile[d] # NoEp
    BY <2>2, <2>3
  <2>5. QED BY <2>0, <2>2, <2>4, EpSame
<1>11. QED BY <1>4, <1>5, <1>6, <1>8, <1>9, <1>10 DEF EpInv

\* Agents are let in or shut out.
LEMMA EpSwitchSteps ==
    ASSUME EpAssumption, EpInv, NEW c \in EpConns, EpSwitch(c) PROVE EpInv'
<1>1. UNCHANGED <<ssh, target, reg, epfile, lis, kept, minted, task, run, due, scar>>
  BY DEF EpSwitch
<1>2. EpShape'
  BY <1>1 DEF EpSwitch, EpInv, EpShape
<1>3. EpNames' /\ EpTargetKept' /\ Count' <= EpMax /\ EpRegistry(epfile', minted')
  BY <1>1 DEF EpInv, EpNames, EpTargetKept, Count, IsEp
<1>4. /\ \A u \in EpTasks : EpFits(task[u])'
      /\ \A id : (EpBinds(id)' <=> EpBinds(id)) /\ (EpParks(id)' <=> EpParks(id))
  BY <1>1, EpUntouched
<1>5. ASSUME NEW d \in EpConns PROVE EpHeard(d)' /\ EpTold(d)'
  <2>1. EpHeard(d) /\ EpTold(d)
    BY EpNamed
  <2>2. QED BY <1>1, <1>4, <2>1 DEF EpHeard, EpTold, Address
<1>6. QED BY <1>2, <1>3, <1>4, <1>5 DEF EpInv

\* Without some of the records a registry is one.
LEMMA EpGoneRegistry ==
    ASSUME EpAssumption, EpInv, NEW cs \in SUBSET EpConns
    PROVE  /\ EpGone(cs) \in [EpConns -> EpRecords] /\ EpRegistry(EpGone(cs), minted)
           /\ \A c \in EpConns : EpGone(cs)[c] = IF c \in cs THEN NoEp ELSE reg[c]
<1>1. /\ EpGone(cs) \in [EpConns -> EpRecords]
      /\ \A c \in EpConns : EpGone(cs)[c] = IF c \in cs THEN NoEp ELSE reg[c]
  BY EpNothing DEF EpGone, EpInv, EpShape
<1>2. EpRegistry(EpGone(cs), minted)
  <2> DEFINE next == EpGone(cs)
  <2> HIDE DEF next
  <2>1. next \in [EpConns -> EpRecords] /\ \A c \in EpConns : next[c] \in {NoEp, reg[c]}
    BY <1>1 DEF next
  <2>2. EpRegistry(next, minted)
    BY <2>1, EpRegs, EpSame, EpNothing
  <2>3. QED BY <2>2 DEF next
<1>3. QED BY <1>1, <1>2

\* Endpoints end, with their listeners and perhaps their plaintexts; the others stay.
LEMMA EpGoneKeeps ==
    ASSUME EpAssumption, EpInv, NEW cs \in SUBSET EpConns,
           reg' = EpGone(cs), epfile' = OnDisk(EpGone(cs)), lis' = Silent(cs, lis), kept' \in {kept, Silent(cs, kept)},
           target' \in [EpConns -> Nat], \A c \in EpConns \ cs : target'[c] = target[c],
           UNCHANGED <<ssh, barred, minted, task, run, due, scar>>
    PROVE  EpInv'
<1>1. /\ reg' \in [EpConns -> EpRecords] /\ EpRegistry(reg', minted)
      /\ \A c \in EpConns : reg'[c] = IF c \in cs THEN NoEp ELSE reg[c]
  BY EpGoneRegistry
<1>2. 0 \in 0 .. EpLegacy /\ 0 \in 0 .. minted
  BY EpAssumption DEF EpInv, EpShape, EpLegacy, EpAssumption
<1>3. lis' \in [EpIds -> 0 .. EpLegacy] /\ kept' \in [EpIds -> 0 .. minted]
  <2>1. lis \in [EpIds -> 0 .. EpLegacy] /\ kept \in [EpIds -> 0 .. minted]
    BY DEF EpInv, EpShape
  <2>2. \A i \in EpIds : lis[i] \in 0 .. EpLegacy /\ kept[i] \in 0 .. minted
    BY <2>1
  <2>3. Silent(cs, lis) \in [EpIds -> 0 .. EpLegacy] /\ Silent(cs, kept) \in [EpIds -> 0 .. minted]
    BY <1>2, <2>2 DEF Silent
  <2>4. QED BY <2>1, <2>3
<1>4. ASSUME NEW d \in EpConns \ cs, reg[d].id # 0
      PROVE  lis'[reg[d].id] = lis[reg[d].id] /\ kept'[reg[d].id] = kept[reg[d].id]
  <2>1. reg[d].id \in EpIds
    BY <1>4, EpNamed
  <2>2. ~\E c \in cs : reg[c].id = reg[d].id
    BY <1>4 DEF EpInv, EpNames
  <2>3. QED BY <2>1, <2>2 DEF Silent
<1>5. EpShape'
  BY <1>1, <1>3 DEF EpInv, EpShape
<1>6. EpNames'
  BY <1>1 DEF EpNames, EpNamesIn, EpRegistry
<1>7. EpTargetKept' /\ Count' <= EpMax /\ EpRegistry(epfile', minted')
  <2>1. EpRegistry(epfile', minted')
    BY EpGoneRegistry, EpRegs, EpDisk
  <2>2. QED BY <1>1, <2>1 DEF EpInv, EpTargetKept, EpRegistry, Count, IsEp
<1>8. /\ \A u \in EpTasks : EpFits(task[u])'
      /\ \A id : (EpBinds(id)' <=> EpBinds(id)) /\ (EpParks(id)' <=> EpParks(id))
  <2>1. \A c \in EpConns : \/ reg'[c].id = 0
                          \/ /\ reg'[c].id = reg[c].id
                             /\ Captured(reg'[c]) = Captured(reg[c])
                             /\ lis[reg[c].id] # 0 => lis'[reg[c].id] # 0
    BY <1>1, <1>4, EpNothing
  <2>2. QED BY <2>1, EpUntouched
<1>9. ASSUME NEW d \in EpConns PROVE EpHeard(d)' /\ EpTold(d)'
  <2>1. ASSUME d \in cs PROVE EpHeard(d)' /\ EpTold(d)'
    BY <1>1, <2>1, EpNothing DEF EpHeard, EpTold
  <2>2. ASSUME d \notin cs PROVE EpHeard(d)' /\ EpTold(d)'
    <3>1. EpHeard(d) /\ EpTold(d) /\ reg'[d] = reg[d]
      BY <1>1, <2>2, EpNamed
    <3>2. EpHeard(d)'
      BY <1>4, <1>8, <2>2, <3>1 DEF EpHeard
    <3>3. EpTold(d)'
      BY <1>4, <1>8, <2>2, <3>1 DEF EpTold, Address
    <3>4. QED BY <3>2, <3>3
  <2>3. QED BY <2>1, <2>2
<1>10. QED BY <1>5, <1>6, <1>7, <1>8, <1>9 DEF EpInv

\* The destination of a connection moves, and its endpoint could not be written off; or
\* nothing but the file is what it was not.
LEMMA EpUnwritten ==
    ASSUME EpAssumption, EpInv, target' \in [EpConns -> Nat], EpRegistry(epfile', minted'),
           /\ scar' \in EpScars /\ scar'.raced = scar.raced /\ scar'.unkept = scar.unkept
           /\ scar'.unrevoked = scar.unrevoked /\ scar'.stray = scar.stray
           /\ scar.torn \subseteq scar'.torn,
           \A d \in EpConns : target'[d] = target[d] \/ reg[d].id \in scar'.torn \/ reg[d] = NoEp,
           UNCHANGED <<ssh, barred, reg, lis, kept, minted, task, run, due>>
    PROVE  EpInv'
<1>1. EpShape'
  BY DEF EpInv, EpShape
<1>2. EpNames' /\ Count' <= EpMax
  BY DEF EpInv, EpNames, Count, IsEp
<1>3. EpTargetKept'
  BY DEF EpInv, EpTargetKept, IsEp
<1>4. /\ \A u \in EpTasks : EpFits(task[u])'
      /\ \A id : (EpBinds(id)' <=> EpBinds(id)) /\ (EpParks(id)' <=> EpParks(id))
  BY EpUntouched
<1>5. ASSUME NEW d \in EpConns PROVE EpHeard(d)' /\ EpTold(d)'
  <2>1. EpHeard(d) /\ EpTold(d)
    BY EpNamed
  <2>2. EpHeard(d)'
    BY <1>4, <2>1 DEF EpHeard
  <2>3. EpTold(d)'
    BY <1>4, <2>1 DEF EpTold, Address
  <2>4. QED BY <2>2, <2>3
<1>6. QED BY <1>1, <1>2, <1>3, <1>4, <1>5 DEF EpInv

\* Endpoints are revoked, or their connection changes.
LEMMA EpEndSteps ==
    ASSUME EpAssumption, EpInv,
           \/ \E cs \in SUBSET EpConns : EpRevoke(cs)
           \/ \E c \in EpConns, new \in Nat : EpChange(c, new)
    PROVE  EpInv'
<1>0. scar \in EpScars /\ minted \in Nat /\ EpRegistry(epfile, minted)
  BY EpRegs DEF EpInv, EpShape
<1>1. ASSUME NEW cs \in SUBSET EpConns, EpRevoke(cs) PROVE EpInv'
  <2>1. target' = target /\ target \in [EpConns -> Nat] /\ UNCHANGED <<ssh, barred, minted, task, run, due>>
    BY <1>1 DEF EpRevoke, EpInv, EpShape
  <2>2. CASE /\ Persist(EpGone(cs)) /\ kept' = Silent(cs, kept) /\ lis' = Silent(cs, lis)
             /\ UNCHANGED scar
    BY <2>1, <2>2, EpGoneKeeps DEF Persist
  <2>3. CASE PersistFails("revoke", EpGone(cs)) /\ scar' = Hit /\ UNCHANGED <<kept, lis>>
    <3>1. UNCHANGED reg /\ epfile' \in {epfile, OnDisk(EpGone(cs))}
      BY <2>3 DEF PersistFails
    <3>2. EpRegistry(epfile', minted')
      BY <1>0, <2>1, <3>1, EpGoneRegistry, EpWritten
    <3>3. /\ scar' \in EpScars /\ scar'.raced = scar.raced /\ scar'.unkept = scar.unkept
          /\ scar'.unrevoked = scar.unrevoked /\ scar'.torn = scar.torn /\ scar'.stray = scar.stray
      BY <1>0, <2>3, EpHit
    <3>4. QED BY <2>1, <2>3, <3>1, <3>2, <3>3, EpUnwritten
  <2>4. QED BY <1>1, <2>2, <2>3 DEF EpRevoke
<1>2. ASSUME NEW c \in EpConns, NEW new \in Nat, EpChange(c, new) PROVE EpInv'
  <2>1. /\ target' \in [EpConns -> Nat] /\ \A d \in EpConns \ {c} : target'[d] = target[d]
        /\ UNCHANGED <<ssh, barred, kept, minted, task, run, due>>
    BY <1>2 DEF EpChange, EpInv, EpShape
  <2>2. CASE ~IsEp(c) /\ UNCHANGED <<reg, epfile, lis, scar>>
    <3>1. \A d \in EpConns : target'[d] = target[d] \/ reg[d] = NoEp
      BY <2>1, <2>2 DEF IsEp
    <3>2. QED BY <1>0, <2>1, <2>2, <3>1, EpUnwritten
  <2>3. CASE Persist(EpGone({c})) /\ lis' = Silent({c}, lis) /\ UNCHANGED scar
    <3>1. {c} \in SUBSET EpConns
      OBVIOUS
    <3>2. QED BY <2>1, <2>3, <3>1, EpGoneKeeps DEF Persist
  <2>4. CASE /\ PersistFails("file", EpGone({c})) /\ scar' = Marked("torn", {reg[c].id})
             /\ UNCHANGED lis
    <3>1. {c} \in SUBSET EpConns /\ {reg[c].id} \in SUBSET (0 .. EpMaxSec)
      BY DEF EpInv, EpShape, EpRecords
    <3>2. UNCHANGED reg /\ epfile' \in {epfile, OnDisk(EpGone({c}))}
      BY <2>4 DEF PersistFails
    <3>3. EpRegistry(epfile', minted')
      BY <1>0, <2>1, <3>1, <3>2, EpGoneRegistry, EpWritten
    <3>4. /\ scar' \in EpScars /\ scar'.raced = scar.raced /\ scar'.unkept = scar.unkept
          /\ scar'.unrevoked = scar.unrevoked /\ scar'.torn = scar.torn \cup {reg[c].id}
          /\ scar'.stray = scar.stray
      BY <1>0, <2>4, <3>1, EpHit
    <3>5. \A d \in EpConns : target'[d] = target[d] \/ reg[d].id \in scar'.torn
      BY <2>1, <3>4
    <3>6. QED BY <2>1, <2>4, <3>2, <3>3, <3>4, <3>5, EpUnwritten
  <2>5. QED BY <1>2, <2>2, <2>3, <2>4 DEF EpChange
<1>3. QED BY <1>1, <1>2

\* The process ends: memory is what the file has; an endpoint the two had otherwise is
\* marked, and so is one whose secret was still to be stored.
LEMMA EpStopSteps == ASSUME EpAssumption, EpInv, EpStop PROVE EpInv'
<1> DEFINE lost == {task[t].ep.id : t \in {u \in EpTasks : task[u].op = "issue"}}
           odd == {epfile[c].id : c \in {d \in EpConns : epfile[d] # OnDisk(reg)[d]}}
<1>1. /\ run' = "down" /\ due' = {} /\ lis' = [i \in EpIds |-> 0]
      /\ task' = [t \in EpTasks |-> NoTask] /\ reg' = epfile
      /\ scar' = [scar EXCEPT !.unkept = @ \cup lost, !.stray = @ \cup odd]
      /\ UNCHANGED <<ssh, target, barred, epfile, kept, minted>>
  BY DEF EpStop
<1>2. /\ lost \in EpMarks /\ odd \in EpMarks /\ scar \in EpScars /\ minted \in Nat
      /\ EpRegistry(reg, minted) /\ EpRegistry(epfile, minted)
  <2>1. scar \in EpScars /\ minted \in Nat /\ EpRegistry(reg, minted) /\ EpRegistry(epfile, minted)
    BY EpRegs DEF EpInv, EpShape
  <2>2. \A t \in EpTasks : task[t].ep.id \in 0 .. EpMaxSec
    BY DEF EpInv, EpShape, EpTaskRecords, EpRecords
  <2>3. \A c \in EpConns : epfile[c].id \in 0 .. EpMaxSec
    BY <2>1 DEF EpRegistry, EpRecords
  <2>4. QED BY <2>1, <2>2, <2>3 DEF EpMarks
<1>3. /\ \A t \in EpTasks : task[t].op = "issue" => task[t].ep.id \in lost
      /\ \A c \in EpConns : epfile[c].id \notin odd => epfile[c] = OnDisk(reg)[c]
  OBVIOUS
<1> HIDE DEF lost, odd
<1>4. /\ scar' \in EpScars /\ scar'.raced = scar.raced /\ scar'.unkept = scar.unkept \cup lost
      /\ scar'.unrevoked = scar.unrevoked /\ scar'.torn = scar.torn /\ scar'.stray = scar.stray \cup odd
  BY <1>1, <1>2 DEF EpScars, EpMarks
<1>5. ASSUME NEW c \in EpConns, reg'[c].id \notin scar'.stray, reg'[c].id # 0
      PROVE  /\ reg'[c].id = reg[c].id /\ reg'[c].sec = reg[c].sec /\ reg'[c].tgt = reg[c].tgt
             /\ reg'[c].id \notin scar.stray /\ reg[c] # NoEp
  <2>1. reg'[c] = OnDisk(reg)[c] /\ reg'[c].id \notin scar.stray
    BY <1>1, <1>3, <1>4, <1>5
  <2>2. /\ OnDisk(reg)[c].id = reg[c].id /\ OnDisk(reg)[c].sec = reg[c].sec
        /\ OnDisk(reg)[c].tgt = reg[c].tgt
    BY <1>2, EpDisk
  <2>3. QED BY <1>5, <2>1, <2>2, EpNothing
<1>6. EpShape'
  <2>1. lis' \in [EpIds -> 0 .. EpLegacy]
    BY <1>1, EpAssumption DEF EpLegacy, EpAssumption
  <2>2. task' \in [EpTasks -> EpTaskRecords] /\ \A t \in EpTasks : task'[t].pc = "idle"
    BY <1>1, EpNothing
  <2>3. reg' \in [EpConns -> EpRecords]
    BY <1>1, <1>2 DEF EpRegistry
  <2>4. QED BY <1>1, <1>4, <2>1, <2>2, <2>3 DEF EpInv, EpShape
<1>7. EpNames' /\ Count' <= EpMax /\ EpRegistry(epfile', minted')
  BY <1>1, <1>2 DEF EpNames, EpNamesIn, EpRegistry, Count, IsEp
<1>8. EpTargetKept'
  <2>1. ASSUME NEW c \in EpConns, reg'[c] # NoEp, reg'[c].id \notin scar'.torn \cup scar'.stray
        PROVE  reg'[c].tgt = target'[c]
    <3>1. reg'[c].id # 0
      BY <1>7, <2>1 DEF EpNames
    <3>2. reg[c] # NoEp /\ reg'[c].tgt = reg[c].tgt /\ reg[c].id \notin scar.torn \cup scar.stray
      BY <1>4, <1>5, <2>1, <3>1
    <3>3. reg[c].tgt = target[c]
      BY <3>2 DEF EpInv, EpTargetKept, IsEp
    <3>4. QED BY <1>1, <3>2, <3>3
  <2>2. QED BY <2>1 DEF EpTargetKept, IsEp
<1>9. ASSUME NEW u \in EpTasks PROVE EpFits(task[u])'
  <2>1. minted' \in Nat /\ task'[u] = NoTask
    BY <1>1, <1>2
  <2>2. QED BY <2>1, EpFitsNone DEF EpFits
<1>10. ASSUME NEW c \in EpConns PROVE EpHeard(c)' /\ EpTold(c)'
  <2>1. EpHeard(c)'
    BY <1>1 DEF EpHeard
  <2>2. ASSUME NEW i, i = reg'[c].id, i # 0,
               i \notin scar'.raced \cup scar'.unkept \cup scar'.unrevoked \cup scar'.stray
        PROVE  kept'[i] = reg'[c].sec /\ lis'[i] = 0
    <3>1. i = reg[c].id /\ reg'[c].sec = reg[c].sec /\ reg[c] # NoEp /\ i \notin scar.stray
      BY <1>5, <2>2
    <3>2. kept[i] = reg[c].sec \/ EpParks(i)
      BY <1>4, <2>2, <3>1, EpNamed DEF EpTold
    <3>3. ASSUME EpParks(i) PROVE FALSE
      <4>1. PICK t \in EpTasks : EpParking(task[t], i)
        BY <3>3 DEF EpParks
      <4>2. i \in lost
        BY <1>3, <4>1 DEF EpParking
      <4>3. QED BY <1>4, <2>2, <4>2
    <3>4. i \in EpIds
      BY <2>2, <3>1, EpNamed
    <3>5. QED BY <1>1, <3>1, <3>2, <3>3, <3>4
  <2>3. EpTold(c)'
    BY <2>2 DEF EpTold
  <2>4. QED BY <2>1, <2>3
<1>11. QED BY <1>6, <1>7, <1>8, <1>9, <1>10 DEF EpInv

\* The broker starts, and when every endpoint had its turn it serves.
LEMMA EpStartSteps == ASSUME EpAssumption, EpInv, EpStart \/ EpUp PROVE EpInv'
<1>1. UNCHANGED <<ssh, target, barred, reg, epfile, lis, kept, minted, task, scar>>
  BY DEF EpStart, EpUp
<1>2. /\ run # "up" /\ run' \in {"starting", "up"} /\ due' \subseteq EpIds
      /\ run' = "starting" => \A c \in EpConns : reg[c].id # 0 => reg[c].id \in due'
      /\ run' = "up" => run = "starting" /\ due = {}
  <2>1. CASE EpStart
    <3>1. \A c \in EpConns : reg[c].id # 0 => IsEp(c)
      BY EpNothing DEF IsEp
    <3>2. \A c \in EpConns : IsEp(c) => reg[c].id \in EpIds
      BY EpNamed DEF EpInv, EpNames, IsEp
    <3>3. QED BY <2>1, <3>1, <3>2 DEF EpStart
  <2>2. CASE EpUp
    BY <2>2 DEF EpUp, EpInv, EpShape
  <2>3. QED BY <2>1, <2>2
<1>3. EpShape'
  BY <1>1, <1>2 DEF EpInv, EpShape
<1>4. EpNames' /\ EpTargetKept' /\ Count' <= EpMax /\ EpRegistry(epfile', minted')
  BY <1>1 DEF EpInv, EpNames, EpTargetKept, Count, IsEp
<1>5. /\ \A u \in EpTasks : EpFits(task[u])'
      /\ \A id : (EpBinds(id)' <=> EpBinds(id)) /\ (EpParks(id)' <=> EpParks(id))
  BY <1>1, EpUntouched
<1>6. ASSUME NEW d \in EpConns PROVE EpHeard(d)' /\ EpTold(d)'
  <2>1. EpHeard(d) /\ EpTold(d)
    BY EpNamed
  <2>2. EpHeard(d)'
    BY <1>1, <1>2, <2>1 DEF EpHeard
  <2>3. EpTold(d)'
    BY <1>1, <1>5, <2>1 DEF EpTold, Address
  <2>4. QED BY <2>2, <2>3
<1>7. QED BY <1>3, <1>4, <1>5, <1>6 DEF EpInv

\* A listener is bound again at the start, from the secret in the vault.
LEMMA EpReboundKeeps ==
    ASSUME EpAssumption, EpInv, NEW c \in EpConns, reg[c].id # 0, run = "starting",
           lis' = [lis EXCEPT ![reg[c].id] = Address(c, Plain(reg[c]))],
           UNCHANGED <<ssh, target, barred, reg, kept, minted, task, run, scar>>,
           epfile' \in {epfile, OnDisk(reg)}, due' = due \ {reg[c].id}
    PROVE  EpInv'
<1>1. /\ reg[c].id \in EpIds /\ EpNames /\ minted \in Nat /\ minted <= EpMaxSec
      /\ reg[c].plain \in 0 .. minted /\ reg[c].sec \in 0 .. minted /\ reg[c].plain \in {0, reg[c].sec}
      /\ kept[reg[c].id] \in 0 .. minted
  <2>1. /\ reg[c].id \in EpIds /\ EpNames /\ minted \in Nat /\ minted <= EpMaxSec
        /\ reg[c].sec \in Nat
    BY EpNamed, EpAssumption DEF EpInv, EpShape, EpRecords, EpAssumption
  <2>2. reg[c].sec <= minted /\ reg[c].plain \in {0, reg[c].sec}
    BY <2>1 DEF EpNames
  <2>3. QED BY <2>1, <2>2 DEF EpInv, EpShape
<1>2. Plain(reg[c]) \in 0 .. minted /\ Address(c, Plain(reg[c])) \in 1 .. EpLegacy
  <2>1. Plain(reg[c]) \in 0 .. minted
    BY <1>1 DEF Plain
  <2>2. QED BY <1>1, <2>1, EpAssumption DEF Address, EpLegacy, EpAssumption
<1>3. /\ lis' \in [EpIds -> 0 .. EpLegacy] /\ lis'[reg[c].id] = Address(c, Plain(reg[c]))
      /\ lis'[reg[c].id] # 0
      /\ \A i \in EpIds : i # reg[c].id => lis'[i] = lis[i]
  BY <1>1, <1>2 DEF EpInv, EpShape
<1>4. EpShape'
  BY <1>3 DEF EpInv, EpShape
<1>5. EpNames' /\ EpTargetKept' /\ Count' <= EpMax
  BY DEF EpInv, EpNames, EpTargetKept, Count, IsEp
<1>6. /\ \A u \in EpTasks : EpFits(task[u])'
      /\ \A id : (EpBinds(id)' <=> EpBinds(id)) /\ (EpParks(id)' <=> EpParks(id))
  <2>1. \A d \in EpConns : reg[d].id # 0 /\ lis[reg[d].id] # 0 => lis'[reg[d].id] # 0
    BY <1>3, EpNamed
  <2>2. \A d \in EpConns : \/ reg'[d].id = 0
                          \/ /\ reg'[d].id = reg[d].id
                             /\ Captured(reg'[d]) = Captured(reg[d])
                             /\ lis[reg[d].id] # 0 => lis'[reg[d].id] # 0
    BY <2>1
  <2>3. QED BY <2>2, EpUntouched
<1>7. \A id : ~EpParks(id)
  BY DEF EpInv, EpShape, EpParks, EpParking
<1>8. ASSUME NEW d \in EpConns PROVE EpHeard(d)' /\ EpTold(d)'
  <2>1. EpHeard(d) /\ EpTold(d) /\ (reg[d].id # 0 => reg[d].id \in EpIds)
    BY EpNamed
  <2>2. EpHeard(d)'
    BY <1>3, <2>1 DEF EpHeard
  <2>3. ASSUME d # c PROVE EpTold(d)'
    <3>1. reg[d].id # 0 => reg[d].id # reg[c].id
      BY <1>1, <2>3 DEF EpNames
    <3>2. QED BY <1>3, <1>6, <2>1, <3>1 DEF EpTold, Address
  <2>4. ASSUME d = c PROVE EpTold(d)'
    <3>1. reg[c].id \notin scar.raced \cup scar.unkept \cup scar.unrevoked \cup scar.stray =>
            kept[reg[c].id] = reg[c].sec /\ Plain(reg[c]) = reg[c].sec
      BY <1>1, <1>7, <2>1, <2>4 DEF EpTold, Plain
    <3>2. QED BY <1>3, <2>4, <3>1 DEF EpTold, Address
  <2>5. QED BY <2>2, <2>3, <2>4
<1>9. EpRegistry(epfile', minted')
  BY EpRegs, EpWritten
<1>10. QED BY <1>4, <1>5, <1>6, <1>8, <1>9 DEF EpInv

\* An endpoint has its turn at the start: one that lapsed is left alone, one whose
\* connection is gone or whose address is taken is withdrawn.
LEMMA EpRebindSteps ==
    ASSUME EpAssumption, EpInv, NEW id \in EpIds, EpRebind(id) PROVE EpInv'
<1>1. /\ run = "starting" /\ due' = due \ {id} /\ id # 0 /\ due \subseteq EpIds
      /\ UNCHANGED <<ssh, target, barred, kept, minted, task, run>>
  BY DEF EpRebind, EpIds, EpInv, EpShape
<1>2. PICK c \in EpConns :
        /\ reg[c].id = id
        /\ \/ Expired(reg[c]) /\ UNCHANGED <<reg, epfile, lis, scar>>
           \/ Withdraw(id) /\ UNCHANGED lis
           \/ /\ lis' = [lis EXCEPT ![id] = Address(c, Plain(reg[c]))]
              /\ epfile' \in {epfile, OnDisk(reg)} /\ UNCHANGED <<reg, scar>>
  BY DEF EpRebind, Bound
<1>3. CASE Expired(reg[c]) /\ UNCHANGED <<reg, epfile, lis, scar>>
  <2>1. EpShape'
    BY <1>1, <1>3 DEF EpInv, EpShape
  <2>2. EpNames' /\ EpTargetKept' /\ Count' <= EpMax /\ EpRegistry(epfile', minted')
    BY <1>1, <1>3 DEF EpInv, EpNames, EpTargetKept, Count, IsEp
  <2>3. /\ \A u \in EpTasks : EpFits(task[u])'
        /\ \A i : (EpBinds(i)' <=> EpBinds(i)) /\ (EpParks(i)' <=> EpParks(i))
    BY <1>1, <1>3, EpUntouched
  <2>4. ASSUME NEW d \in EpConns PROVE EpHeard(d)' /\ EpTold(d)'
    <3>1. EpHeard(d) /\ EpTold(d)
      BY EpNamed
    <3>2. reg[d].id = id => d = c
      BY <1>1, <1>2 DEF EpInv, EpNames
    <3>3. EpHeard(d)'
      BY <1>1, <1>3, <3>1, <3>2 DEF EpHeard, Expired
    <3>4. EpTold(d)'
      BY <1>1, <1>3, <2>3, <3>1 DEF EpTold, Address
    <3>5. QED BY <3>3, <3>4
  <2>5. QED BY <2>1, <2>2, <2>3, <2>4 DEF EpInv
<1>4. CASE Withdraw(id) /\ UNCHANGED lis
  <2>1. PICK t \in EpTasks : TRUE
    BY EpAssumption DEF EpTasks, EpAssumption
  <2>2. task[t].pc = "idle" /\ task \in [EpTasks -> EpTaskRecords] /\ task' = task
        /\ EpFitsIn(task[t], reg, minted, lis, scar.raced)
        /\ \A u \in EpTasks : task'[u].pc = "idle"
    BY <1>1 DEF EpInv, EpShape, EpFits
  <2>3. EpTaskStep(t, task[t])
    BY <2>2 DEF EpTaskStep
  <2>4. \A i \in EpIds \ {id} : EpDone(t, i)
    BY <2>2 DEF EpDone, EpBinding, EpParking
  <2>5. due \ {id} \subseteq due' /\ due' \subseteq due
    BY <1>1
  <2>6. PICK q \in EpTaskRecords : q = task[t]
    BY <2>2
  <2>7. EpTaskStep(t, q) /\ EpFitsIn(q, reg, minted, lis, scar.raced)
    BY <2>2, <2>3, <2>6
  <2>8. QED BY <1>1, <1>4, <2>2, <2>4, <2>5, <2>7, EpWithdrawKeeps
<1>5. CASE /\ lis' = [lis EXCEPT ![id] = Address(c, Plain(reg[c]))]
           /\ epfile' \in {epfile, OnDisk(reg)} /\ UNCHANGED <<reg, scar>>
  BY <1>1, <1>2, <1>5, EpReboundKeeps
<1>6. QED BY <1>2, <1>3, <1>4, <1>5

\* Every step keeps the invariant.
LEMMA EpKeeps == ASSUME EpAssumption, EpInv, [EpNext]_epVars PROVE EpInv'
<1>1. ASSUME NEW t \in EpTasks, EpMint(t) \/ EpBind(t) \/ EpPark(t) \/ EpExtended(t) \/ EpShow(t) PROVE EpInv'
  BY <1>1, EpMintSteps, EpBindSteps, EpParkSteps, EpExtendedSteps, EpShowSteps
<1>2. ASSUME NEW t \in EpTasks, NEW c \in EpConns,
             EpIssue(t, c) \/ EpRead(t, c) \/ \E op \in {"renew", "keep"} : EpExtend(t, c, op)
      PROVE  EpInv'
  BY <1>2, EpBeginKeeps
<1>3. ASSUME NEW c \in EpConns, EpLapse(c) \/ EpSwitch(c) PROVE EpInv'
  BY <1>3, EpLapseSteps, EpSwitchSteps
<1>4. ASSUME NEW c \in EpConns, EpRevoke({c}) \/ EpChange(c, 0) \/ EpChange(c, target[c] + 1)
      PROVE  EpInv'
  <2>1. {c} \in SUBSET EpConns /\ 0 \in Nat /\ target[c] + 1 \in Nat
    BY DEF EpInv, EpShape
  <2>2. QED BY <1>4, <2>1, EpEndSteps
<1>5. ASSUME EpRevoke({c \in EpConns : IsEp(c)}) PROVE EpInv'
  BY <1>5, EpEndSteps
<1>6. ASSUME NEW id \in EpIds, EpRebind(id) PROVE EpInv'
  BY <1>6, EpRebindSteps
<1>7. CASE UNCHANGED epVars
  <2>1. EpShape' /\ EpNames' /\ EpTargetKept' /\ Count' <= EpMax /\ EpRegistry(epfile', minted')
    BY <1>7 DEF epVars, EpInv, EpShape, EpNames, EpTargetKept, Count, IsEp
  <2>2. /\ \A u \in EpTasks : EpFits(task[u])'
        /\ \A i : (EpBinds(i)' <=> EpBinds(i)) /\ (EpParks(i)' <=> EpParks(i))
    BY <1>7, EpUntouched DEF epVars
  <2>3. \A d \in EpConns : EpHeard(d)' /\ EpTold(d)'
    BY <1>7, <2>2 DEF epVars, EpInv, EpHeard, EpTold, Address
  <2>4. QED BY <2>1, <2>2, <2>3 DEF EpInv
<1>8. QED
  BY <1>1, <1>2, <1>3, <1>4, <1>5, <1>6, <1>7, EpStopSteps, EpStartSteps DEF EpNext

\* For any connections, operations under way, limits and faults, writes that are in place
\* although they failed among them: a secret that still authenticates has a listener of
\* ours unless its withdrawal could not be written; the address and the secret that are
\* shown are those that work unless two operations on one connection met, the vault refused
\* or the process ended while memory and file disagreed; and an address granted for one
\* destination covers no other (broker.rs ui_issue_endpoint, ui_renew_endpoint,
\* endpoint_info, rebind_endpoints; endpoints.rs persist; domain.rs).
THEOREM EndpointsHold == EpSpec => []EndpointsSound
<1>1. EpInit => EpInv
  BY EpStarts, EpAssumption
<1>2. EpInv /\ [EpNext]_epVars => EpInv'
  BY EpKeeps, EpAssumption
<1>3. EpInv => EndpointsSound
  BY EpMeans, EpAssumption
<1>4. QED
  BY <1>1, <1>2, <1>3, PTL DEF EpSpec
=============================================================================
