---------------------------- MODULE StorageProofs ----------------------------
(***************************************************************************)
(* What the broker keeps on disk, for any secrets, keys, files and starts: *)
(* the file vault, the seal on the state files, the two keychains, the     *)
(* credentials of the agents, the access table, the catalog and the log.   *)
(***************************************************************************)
EXTENDS Audit, Catalog, Access, FileVault, Integrity, Keychain, Identity,
        SequenceTheorems, FiniteSetTheorems, WellFoundedInduction, TLAPS

----------------------------------------------------------------------------
(* The file vault                                                          *)

\* An item as it can be: a value under the key of the vault it lies in, or nothing.
FvItems == {i \in [val : Nat, key : FvKeys \cup {"none"}] : i.val = 0 => i = NoItem}
FvTables == [FvIds -> FvItems]

\* The type of each variable.
FvShape ==
    /\ fvenv \in FvKeys \cup {"none", "bad"} /\ fvopen \in Backends \cup {"closed"}
    /\ fvrec \in Backends \cup {"none"} /\ fvnext \in Nat \ {0}
    /\ fvmem \in FvTables
    /\ fvfile \in [Backends -> FvTables \cup {Absent}]
    /\ fvtrue \in [FvIds -> Nat] /\ fvkept \in [FvIds -> Nat]

\* One backend has the values the next start owes, all of them, under one key; the record,
\* when there is one, names it.
FvHome ==
    /\ \A b, c \in Backends : Present(b) /\ Present(c) => b = c
    /\ \A b \in Backends : Present(b) => \A id \in FvIds : fvfile[b][id].val = fvkept[id]
    /\ (\A b \in Backends : ~Present(b)) => \A id \in FvIds : fvkept[id] = 0
    /\ \A b \in Backends : Present(b) => fvrec \in {b, "none"}
    /\ \A i, j \in Held(Loaded(Sealed)) : Loaded(Sealed)[i].key = Loaded(Sealed)[j].key

\* A running broker writes to that backend alone and has in memory what the store owes; what
\* lies sealed, in memory and on disk, does so under the key of its environment.
FvRunning ==
    fvopen # "closed" =>
        /\ fvopen = Selected(fvenv) /\ fvenv # "bad"
        /\ \A b \in Backends : Present(b) => b = fvopen
        /\ \A id \in FvIds : fvmem[id].val = fvtrue[id]
        /\ fvrec \in {fvopen, "none"}
        /\ fvopen = Sealed => /\ \A id \in Held(fvmem) : fvmem[id].key = fvenv
                              /\ \A id \in Held(Loaded(Sealed)) : Loaded(Sealed)[id].key = fvenv

\* The inductive invariant of the file vault.
FvInv == FvShape /\ FvHome /\ FvRunning

\* The two backends, and what their tables are made of.
LEMMA FvKinds ==
    ASSUME FvAssumption
    PROVE  /\ Sealed # Clear /\ Sealed # "closed" /\ Clear # "closed" /\ Sealed # "none" /\ Clear # "none"
           /\ Empty \in FvTables /\ (FvIds # {} => Absent \notin FvTables) /\ Held(Empty) = {}
<1>1. NoItem \in FvItems
  BY DEF FvItems, NoItem
<1>2. ASSUME NEW id \in FvIds, Absent \in FvTables PROVE FALSE
  <2>1. Absent[id] \in FvItems /\ Absent[id] = [val |-> 0, key |-> "absent"]
    BY <1>2 DEF FvTables, Absent
  <2>2. Absent[id] = NoItem
    BY <2>1 DEF FvItems
  <2>3. QED BY <2>1, <2>2 DEF NoItem
<1>3. QED
  BY <1>1, <1>2 DEF Sealed, Clear, Empty, FvTables, Held, NoItem

\* A store that was never written keeps the invariant.
LEMMA FvInitInv == ASSUME FvAssumption, FvInit PROVE FvInv
<1>1. FvShape
  BY FvKinds DEF FvInit, FvShape, Backends
<1>2. \A b \in Backends : ~Present(b) /\ Loaded(b) = Empty
  BY DEF FvInit, Present, Loaded
<1>3. FvHome
  BY <1>2, FvKinds DEF FvInit, FvHome, Backends
<1>4. QED BY <1>1, <1>3 DEF FvInv, FvRunning, FvInit

\* What the files hold, in a backend that has a file or in the one a start would use when
\* there is none, is what the next start owes.
LEMMA FvOnDisk ==
    ASSUME FvAssumption, FvInv, NEW b \in Backends, \A c \in Backends : Present(c) => c = b
    PROVE  \A id \in FvIds : Loaded(b)[id].val = fvkept[id]
<1>1. CASE Present(b)
  BY <1>1 DEF FvInv, FvHome, Loaded
<1>2. CASE ~Present(b)
  <2>1. \A c \in Backends : ~Present(c)
    BY <1>2
  <2>2. \A id \in FvIds : Loaded(b)[id].val = 0
    BY <1>2 DEF Loaded, Empty, NoItem
  <2>3. QED BY <2>1, <2>2 DEF FvInv, FvHome
<1>3. QED BY <1>1, <1>2

\* A broker that opens finds the one file there is, or none, and the key of its values.
LEMMA FvOpenInv ==
    ASSUME FvAssumption, FvInv, NEW env \in FvKeys \cup {"none", "bad"}, NEW probe \in FvIds,
           NEW recorded \in Endings, FvOpen(env, probe, recorded)
    PROVE  FvInv'
<1> DEFINE b == Selected(env)
           opens == Check(env) /\ env # "bad" /\ (b = Sealed => Unseals(env, probe))
<1>1. b \in Backends
  BY DEF Selected, Backends
<1>2. /\ fvenv' = env /\ fvfile' = fvfile /\ fvtrue' = fvkept /\ fvkept' = fvkept /\ fvnext' = fvnext
      /\ fvopen' = IF opens /\ recorded = "done" THEN b ELSE "closed"
      /\ fvmem' = IF opens /\ recorded = "done" THEN Loaded(b) ELSE Empty
      /\ fvrec' = IF opens /\ recorded # "failed" THEN b ELSE fvrec
  BY DEF FvOpen
<1>3. \A c \in Backends : Present(c)' = Present(c) /\ Loaded(c)' = Loaded(c)
  BY <1>2 DEF Present, Loaded
<1>4. Loaded(b) \in FvTables
  BY <1>1, FvKinds DEF FvInv, FvShape, Loaded, Present
<1>5. FvShape'
  BY <1>1, <1>2, <1>4, FvKinds DEF FvInv, FvShape
<1>6. ASSUME opens, NEW c \in Backends, Present(c) PROVE c = b
  BY <1>6, <1>1, FvKinds DEF Check, Recorded, FvInv, FvHome, Backends
<1>7. FvHome'
  BY <1>1, <1>2, <1>3, <1>6 DEF FvInv, FvHome, Backends, Held
<1>8. ASSUME opens, b = Sealed, NEW id \in Held(Loaded(b)) PROVE Loaded(b)[id].key = env
  <2>1. probe \in Held(Loaded(Sealed))
    BY <1>8 DEF FvOpen
  <2>2. QED BY <1>8, <2>1 DEF Unseals, FvInv, FvHome
<1>9. ASSUME opens PROVE \A id \in FvIds : Loaded(b)[id].val = fvkept[id]
  BY <1>1, <1>6, <1>9, FvOnDisk
<1>10. ASSUME opens, recorded = "done" PROVE FvRunning'
  <2>1. fvopen' = b /\ fvmem' = Loaded(b) /\ fvrec' = b
    BY <1>2, <1>10
  <2>2. \A id \in FvIds : fvmem'[id].val = fvtrue'[id]
    BY <1>2, <1>9, <1>10, <2>1
  <2>3. b = Sealed => /\ \A id \in Held(Loaded(b)) : Loaded(b)[id].key = env
                      /\ Loaded(Sealed)' = Loaded(Sealed)
    BY <1>1, <1>3, <1>8, <1>10
  <2>4. \A c \in Backends : Present(c)' => c = b
    BY <1>3, <1>6, <1>10
  <2>5. env # "bad"
    BY <1>10
  <2> HIDE DEF b, opens
  <2>6. b = Selected(env)
    BY DEF b
  <2>7. QED BY <1>2, <2>1, <2>2, <2>3, <2>4, <2>5, <2>6 DEF FvRunning, Held
<1>11. CASE ~(opens /\ recorded = "done")
  BY <1>2, <1>5, <1>7, <1>11, FvKinds DEF FvInv, FvRunning
<1>12. QED BY <1>5, <1>7, <1>10, <1>11 DEF FvInv

\* A running broker has a backend, and a key where that one seals.
LEMMA FvMemory ==
    ASSUME FvAssumption, FvInv, fvopen # "closed"
    PROVE  /\ \A id \in FvIds : fvmem[id].val = fvtrue[id]
           /\ fvopen \in Backends /\ (fvopen = Sealed => fvenv \in FvKeys)
  BY FvKinds DEF FvInv, FvShape, FvRunning, Selected

\* However a write ends, one backend holds what the next start owes, and memory what this
\* process does.
LEMMA FvWriteInv ==
    ASSUME FvAssumption, FvInv, fvopen # "closed", FvIds # {}, NEW how \in Endings,
           NEW items \in FvTables, NEW owed \in [FvIds -> Nat],
           \A id \in FvIds : items[id].val = owed[id],
           fvopen = Sealed => \A id \in Held(items) : items[id].key = fvenv,
           FvWrite(items, owed, how), fvnext' \in Nat \ {0}
    PROVE  FvInv'
<1>1. fvopen \in Backends
  BY FvMemory
<1>2. fvenv' = fvenv /\ fvopen' = fvopen /\ fvrec' = fvrec
  BY DEF FvWrite
<1>3. \/ fvmem' = items /\ fvtrue' = owed
      \/ fvmem' = fvmem /\ fvtrue' = fvtrue
  BY DEF FvWrite, Endings
<1>4. /\ \A id \in FvIds : fvmem'[id].val = fvtrue'[id]
      /\ fvopen = Sealed => \A id \in Held(fvmem)' : fvmem'[id].key = fvenv
      /\ fvmem' \in FvTables /\ fvtrue' \in [FvIds -> Nat]
  <2>1. CASE fvmem' = items /\ fvtrue' = owed
    BY <2>1 DEF Held
  <2>2. CASE fvmem' = fvmem /\ fvtrue' = fvtrue
    BY <2>2, FvMemory DEF FvInv, FvRunning, FvShape, Held
  <2>3. QED BY <1>3, <2>1, <2>2
<1>5. CASE fvfile' = fvfile /\ fvkept' = fvkept
  <2>1. \A c \in Backends : Present(c)' = Present(c) /\ Loaded(c)' = Loaded(c)
    BY <1>5 DEF Present, Loaded
  <2>2. Held(Loaded(Sealed))' = Held(Loaded(Sealed)) /\ Loaded(Sealed)' = Loaded(Sealed)
    BY <1>5 DEF Held, Present, Loaded
  <2>3. FvShape'
    BY <1>2, <1>4, <1>5 DEF FvInv, FvShape
  <2>4. FvHome'
    BY <1>2, <1>5, <2>1, <2>2 DEF FvInv, FvHome
  <2>5. FvRunning'
    BY <1>2, <1>4, <2>1, <2>2 DEF FvInv, FvRunning
  <2>6. QED BY <2>3, <2>4, <2>5 DEF FvInv
<1>6. CASE fvfile' = [fvfile EXCEPT ![fvopen] = items] /\ fvkept' = owed
  <2>1. fvfile'[fvopen] = items /\ \A b \in Backends \ {fvopen} : fvfile'[b] = fvfile[b]
    BY <1>1, <1>6 DEF FvInv, FvShape
  <2>2. Present(fvopen)' /\ Loaded(fvopen)' = items
    BY <1>1, <1>2, <2>1, FvKinds DEF Present, Loaded
  <2>3. \A b \in Backends : Present(b)' => b = fvopen
    BY <2>1 DEF FvInv, FvRunning, Present
  <2>4. FvShape'
    BY <1>1, <1>2, <1>4, <1>6 DEF FvInv, FvShape
  <2>5. /\ fvopen = Sealed => \A i \in Held(Loaded(Sealed))' : Loaded(Sealed)'[i].key = fvenv
        /\ fvopen # Sealed => Held(Loaded(Sealed))' = {}
    <3>1. CASE fvopen = Sealed
      BY <3>1, <1>2, <2>2 DEF Held
    <3>2. CASE fvopen # Sealed
      <4>1. Sealed \in Backends
        BY DEF Backends
      <4>2. ~Present(Sealed)'
        BY <3>2, <2>3, <4>1
      <4>3. Loaded(Sealed)' = Empty
        BY <4>2 DEF Loaded, Empty
      <4>4. QED BY <3>2, <4>3, FvKinds DEF Held
    <3>3. QED BY <3>1, <3>2
  <2>6. \A id \in FvIds : fvfile'[fvopen][id].val = fvkept'[id]
    BY <1>6, <2>1
  <2>7. FvHome'
    BY <1>1, <1>2, <2>2, <2>3, <2>5, <2>6 DEF FvInv, FvHome, FvRunning
  <2>8. FvRunning'
    BY <1>2, <1>4, <2>3, <2>5 DEF FvInv, FvRunning
  <2>9. QED BY <2>4, <2>7, <2>8 DEF FvInv
<1>7. QED BY <1>5, <1>6 DEF FvWrite, Endings

\* The steps of the file vault, one by one.
LEMMA FvStepInv == ASSUME FvAssumption, FvInv, [FvNext]_fvVars PROVE FvInv'
<1>1. ASSUME NEW env \in FvKeys \cup {"none", "bad"}, NEW probe \in FvIds,
             NEW recorded \in Endings, FvOpen(env, probe, recorded)
      PROVE  FvInv'
  BY <1>1, FvOpenInv
<1>2. CASE FvClose
  BY <1>2, FvKinds DEF FvClose, FvInv, FvShape, FvHome, FvRunning, Present, Loaded, Held
<1>3. CASE FvLoseRecord
  BY <1>3 DEF FvLoseRecord, FvInv, FvShape, FvHome, FvRunning, Present, Loaded, Held
<1>4. ASSUME NEW id \in FvIds, NEW how \in Endings, FvSet(id, how) PROVE FvInv'
  <2> DEFINE item == [val |-> fvnext, key |-> IF fvopen = Sealed THEN fvenv ELSE "none"]
             items == [fvmem EXCEPT ![id] = item]
             owed == [fvtrue EXCEPT ![id] = fvnext]
  <2>1. fvopen # "closed" /\ FvWrite(items, owed, how) /\ fvnext' = fvnext + 1
    BY <1>4 DEF FvSet
  <2>2. fvnext \in Nat \ {0} /\ fvnext' \in Nat \ {0} /\ fvmem \in FvTables /\ fvtrue \in [FvIds -> Nat]
    BY <2>1 DEF FvInv, FvShape
  <2>3. item \in FvItems
    BY <2>1, <2>2, FvMemory DEF FvItems
  <2>4. items \in FvTables /\ owed \in [FvIds -> Nat]
    BY <2>2, <2>3 DEF FvTables
  <2>5. \A i \in FvIds : items[i].val = owed[i]
    BY <2>1, <2>2, FvMemory DEF FvTables
  <2>6. fvopen = Sealed => \A i \in Held(items) : items[i].key = fvenv
    BY <2>1, <2>2 DEF FvInv, FvRunning, Held, FvTables
  <2>7. QED BY <2>1, <2>2, <2>4, <2>5, <2>6, FvWriteInv
<1>5. ASSUME NEW id \in FvIds, NEW how \in Endings, FvDelete(id, how) PROVE FvInv'
  <2> DEFINE items == [fvmem EXCEPT ![id] = NoItem]
             owed == [fvtrue EXCEPT ![id] = 0]
  <2>1. fvopen # "closed" /\ FvWrite(items, owed, how) /\ fvnext' = fvnext
    BY <1>5 DEF FvDelete
  <2>2. fvnext' \in Nat \ {0} /\ fvmem \in FvTables /\ fvtrue \in [FvIds -> Nat]
    BY <2>1 DEF FvInv, FvShape
  <2>3. NoItem \in FvItems /\ NoItem.val = 0
    BY DEF FvItems, NoItem
  <2>4. items \in FvTables /\ owed \in [FvIds -> Nat]
    BY <2>2, <2>3 DEF FvTables
  <2>5. \A i \in FvIds : items[i].val = owed[i]
    BY <2>1, <2>2, <2>3, FvMemory DEF FvTables
  <2>6. fvopen = Sealed => \A i \in Held(items) : items[i].key = fvenv
    BY <2>1, <2>2, <2>3 DEF FvInv, FvRunning, Held, FvTables
  <2>7. QED BY <2>1, <2>2, <2>4, <2>5, <2>6, FvWriteInv
<1>6. ASSUME NEW id \in FvIds, NEW how \in Endings, FvRetitle(id, how) PROVE FvInv'
  <2>1. fvopen # "closed" /\ FvWrite(fvmem, fvtrue, how) /\ fvnext' = fvnext
    BY <1>6 DEF FvRetitle
  <2>2. fvnext' \in Nat \ {0} /\ fvmem \in FvTables /\ fvtrue \in [FvIds -> Nat]
    BY <2>1 DEF FvInv, FvShape
  <2>3. fvopen = Sealed => \A i \in Held(fvmem) : fvmem[i].key = fvenv
    BY <2>1 DEF FvInv, FvRunning
  <2>4. QED BY <2>1, <2>2, <2>3, FvMemory, FvWriteInv
<1>7. CASE UNCHANGED fvVars
  BY <1>7 DEF fvVars, FvInv, FvShape, FvHome, FvRunning, Present, Loaded, Held
<1>8. QED BY <1>1, <1>2, <1>3, <1>4, <1>5, <1>6, <1>7 DEF FvNext

\* The invariant says what the vault promises.
LEMMA FvInvSound == ASSUME FvAssumption, FvInv PROVE FileVaultSound
<1>1. FvShowsAll
  <2> SUFFICES ASSUME fvopen # "closed", NEW id \in FvIds PROVE FvGet(id) = fvtrue[id]
    BY DEF FvShowsAll
  <2>1. fvmem[id].val # 0 /\ fvopen = Sealed => fvmem[id].key = fvenv
    BY DEF FvInv, FvRunning, Held
  <2>2. QED BY <2>1, FvMemory DEF FvGet
<1>2. ~(Present(Sealed) /\ Present(Clear))
  BY FvKinds DEF FvInv, FvHome, Backends
<1>3. Cardinality({Loaded(Sealed)[id].key : id \in Held(Loaded(Sealed))}) <= 1
  <2> DEFINE S == {Loaded(Sealed)[id].key : id \in Held(Loaded(Sealed))}
  <2>1. CASE S = {}
    <3>1. Cardinality(S) = 0
      BY <2>1, FS_EmptySet, Zenon
    <3>2. QED BY <3>1
  <2>2. CASE S # {}
    <3>1. PICK k \in S : TRUE
      BY <2>2
    <3>2. S = {k}
      <4>1. \A x, y \in S : x = y
        BY DEF FvInv, FvHome
      <4>2. QED BY <3>1, <4>1
    <3>3. Cardinality(S) = 1
      BY <3>2, FS_Singleton, Zenon
    <3>4. QED BY <3>3
  <2>3. QED BY <2>1, <2>2
<1>4. QED BY <1>1, <1>2, <1>3 DEF FileVaultSound, FvOneHome

\* For any ids, keys and number of values: a vault that opens shows every value that was
\* stored and not deleted, and the values of a store lie in one file under one key
\* (check_vault_backend, non_macos_vault and the two vaults of vault.rs).
THEOREM FileVaultKeeps == FvSpec => []FileVaultSound
<1>1. FvInit => FvInv
  BY FvAssumption, FvInitInv
<1>2. FvInv /\ [FvNext]_fvVars => FvInv'
  BY FvAssumption, FvStepInv
<1>3. FvInv => FileVaultSound
  BY FvAssumption, FvInvSound
<1>4. QED BY <1>1, <1>2, <1>3, PTL DEF FvSpec

----------------------------------------------------------------------------
(* The seal on the state files                                             *)

SlForms == {"absent", "bare", "legacy", "sealed", "newer"}
SlReads == {"unread", "absent", "trusted", "verified", "tampered", "unsupported"}

\* The type of each variable; only a seal names a key, and no key is one of a start to come.
SlShape ==
    /\ slkey \in 0 .. slstarts /\ slstarts \in Nat
    /\ slfile \in [SlFiles -> [form : SlForms, by : Nat]]
    /\ \A f \in SlFiles : slfile[f].by <= slstarts
    /\ \A f \in SlFiles : slfile[f].form \in {"absent", "bare"} => slfile[f].by = 0
    /\ slup \in {"down", "reading", "up"}
    /\ slmine \in [key : Nat, established : BOOLEAN]
    /\ slread \in [SlFiles -> SlReads]

\* What a process that has read a file knows of it.
SlReading ==
    slup # "down" =>
        /\ slmine.key = slkey /\ slkey # 0
        /\ \A f \in SlFiles : slread[f] \notin {"tampered", "unsupported"}
        /\ \A f \in SlFiles : slread[f] \in {"trusted", "verified"} =>
               slfile[f].form # "bare" /\ slfile[f].by = slkey
        /\ slup = "up" => \A f \in SlFiles : slread[f] # "unread"
        /\ (\E f \in SlFiles : slread[f] = "trusted") => ~slmine.established
        /\ ~slmine.established => \A f \in SlFiles : slfile[f].by \in {0, slkey}
        /\ ~slmine.established => \A f \in SlFiles : slread[f] = "absent" =>
               slfile[f].form # "bare"

\* A store that only brokers wrote: before the first start nothing is sealed, and after it
\* every file is, under the one key.
SlHonest ==
    slodd = {} =>
        /\ \A f \in SlFiles : slread[f] # "tampered"
        /\ slkey = 0 => slup = "down" /\ \A f \in SlFiles : slfile[f].form \in {"absent", "bare"}
        /\ \A f \in SlFiles : slfile[f].by \in {0, slkey}
        /\ \A f \in SlFiles : slfile[f].form \notin {"absent", "bare"} => slfile[f].by = slkey
        /\ slkey # 0 /\ (slup = "down" \/ slmine.established) =>
               \A f \in SlFiles : slfile[f].form # "bare"

\* The inductive invariant of the seal.
SlInv == SlShape /\ SlReading /\ SlHonest

\* A store nobody has opened keeps the invariant.
LEMMA SlInitInv == ASSUME SlInit PROVE SlInv
<1>1. slfile \in [SlFiles -> [form : SlForms, by : Nat]]
      /\ \A f \in SlFiles : slfile[f].by = 0 /\ slfile[f].form \in {"absent", "bare"}
  BY DEF SlInit, None, Bare, SlForms
<1>2. QED
  BY <1>1 DEF SlInit, SlInv, SlShape, SlReading, SlHonest, SlReads

\* A start takes the key, or makes the first one.
LEMMA SlStartInv == ASSUME SlInv, SlStart PROVE SlInv'
<1>1. /\ slup = "down" /\ slup' = "reading" /\ slstarts' = slstarts + 1
      /\ slread' = [f \in SlFiles |-> "unread"] /\ slfile' = slfile /\ slodd' = slodd
      /\ slkey' = IF slkey = 0 THEN slstarts + 1 ELSE slkey
      /\ slmine' = [key |-> slkey', established |-> slkey # 0 \/ SealedExists]
  BY DEF SlStart, OpenKey
<1>2. slkey \in Nat /\ slkey <= slstarts /\ slstarts \in Nat
  BY DEF SlInv, SlShape
<1>3. slkey' \in 0 .. slstarts' /\ slkey' # 0 /\ slkey' \in Nat
  BY <1>1, <1>2
<1>4. slmine'.key = slkey' /\ slmine'.established = (slkey # 0 \/ SealedExists)
  BY <1>1
<1>5. slmine' \in [key : Nat, established : BOOLEAN]
  BY <1>1, <1>3
<1>6. slread' \in [SlFiles -> SlReads] /\ \A f \in SlFiles : slread'[f] = "unread"
  BY <1>1 DEF SlReads
<1>7. SlShape'
  BY <1>1, <1>2, <1>3, <1>5, <1>6 DEF SlInv, SlShape
<1>8. ~SealedExists => \A f \in SlFiles : slfile[f].by = 0
  BY DEF SealedExists, SlInv, SlShape
<1>9. SlReading'
  BY <1>1, <1>3, <1>4, <1>6, <1>8 DEF SlReading
<1>10. SlHonest'
  <2> SUFFICES ASSUME slodd = {} PROVE
        /\ \A f \in SlFiles : slread'[f] # "tampered"
        /\ slkey' # 0
        /\ \A f \in SlFiles : slfile[f].by \in {0, slkey'}
        /\ \A f \in SlFiles : slfile[f].form \notin {"absent", "bare"} => slfile[f].by = slkey'
        /\ slmine'.established => \A f \in SlFiles : slfile[f].form # "bare"
    BY <1>1 DEF SlHonest
  <2>1. CASE slkey = 0
    BY <2>1, <1>1, <1>3, <1>4, <1>6 DEF SlInv, SlHonest, SlShape, SealedExists
  <2>2. CASE slkey # 0
    BY <2>2, <1>1, <1>6 DEF SlInv, SlHonest
  <2>3. QED BY <2>1, <2>2
<1>11. QED BY <1>7, <1>9, <1>10 DEF SlInv

\* What reading a file finds, in terms of its content.
LEMMA VerdictIs ==
    ASSUME SlShape, NEW f \in SlFiles
    PROVE  /\ Verdict(f) \in SlReads \ {"unread"}
           /\ Verdict(f) = "absent" => slfile[f].form = "absent"
           /\ Verdict(f) = "trusted" => slfile[f].form = "bare" /\ ~slmine.established
           /\ Verdict(f) = "verified" => slfile[f].form \in {"legacy", "sealed"} /\ slfile[f].by = slmine.key
           /\ Verdict(f) = "tampered" =>
                  \/ slfile[f].form = "bare" /\ slmine.established
                  \/ slfile[f].form \notin {"absent", "bare"} /\ slfile[f].by # slmine.key
<1> DEFINE c == slfile[f]
<1>1. c.form \in SlForms /\ slmine.established \in BOOLEAN
  BY DEF SlShape
<1>2. CASE c.form = "absent"
  BY <1>2 DEF Verdict, SlReads
<1>3. CASE c.form = "bare"
  BY <1>1, <1>3 DEF Verdict, SlReads
<1>4. CASE c.form \notin {"absent", "bare"} /\ c.by # slmine.key
  BY <1>4 DEF Verdict, SlReads
<1>5. CASE c.form \in {"legacy", "sealed", "newer"} /\ c.by = slmine.key
  BY <1>5 DEF Verdict, SlReads
<1>6. QED BY <1>1, <1>2, <1>3, <1>4, <1>5 DEF SlForms

\* A process reads one more file, seals it when it must, and goes on or gives up.
LEMMA SlReadInv ==
    ASSUME SlInv, NEW f \in SlFiles, NEW works \in BOOLEAN, SlRead(f, works)
    PROVE  SlInv'
<1> DEFINE v == Verdict(f)
           rewrites == v = "trusted" \/ (v = "verified" /\ slfile[f].form = "legacy")
           reseal == [form |-> "sealed", by |-> slmine.key]
           fails == v \in {"tampered", "unsupported"} \/ (v = "trusted" /\ ~works)
<1>1. /\ slup = "reading" /\ slread[f] = "unread"
      /\ slfile' = IF rewrites /\ works THEN [slfile EXCEPT ![f] = reseal] ELSE slfile
      /\ slread' = [slread EXCEPT ![f] = v]
      /\ slup' = IF fails THEN "down"
                 ELSE IF \A g \in SlFiles \ {f} : slread[g] # "unread" THEN "up" ELSE "reading"
      /\ slodd' = IF slup' = "down" /\ ~slmine.established THEN slodd \cup {"halted"} ELSE slodd
      /\ slkey' = slkey /\ slmine' = slmine /\ slstarts' = slstarts
  BY DEF SlRead, Seal
<1>2. SlShape /\ SlReading /\ SlHonest
  BY DEF SlInv
<1>3. slmine.key = slkey /\ slkey # 0 /\ slkey \in Nat /\ slkey <= slstarts /\ reseal \in [form : SlForms, by : Nat]
  BY <1>1, <1>2 DEF SlReading, SlShape, SlForms
<1>4. v \in SlReads \ {"unread"}
  BY <1>2, VerdictIs
<1>5. SlShape'
  BY <1>1, <1>2, <1>3, <1>4 DEF SlShape
<1>6. /\ slread'[f] = v /\ \A g \in SlFiles \ {f} : slread'[g] = slread[g] /\ slfile'[g] = slfile[g]
      /\ slfile'[f] = slfile[f] \/ (rewrites /\ works /\ slfile'[f] = reseal)
      /\ rewrites /\ works => slfile'[f] = reseal
  BY <1>1, <1>2 DEF SlShape
<1>7. ~fails => /\ v \in {"trusted", "verified"} => slfile'[f].form # "bare" /\ slfile'[f].by = slkey
                /\ v = "trusted" => ~slmine.established
                /\ v = "absent" => slfile'[f].form # "bare"
                /\ v \notin {"tampered", "unsupported"}
  BY <1>2, <1>3, <1>6, VerdictIs
<1>8. SlReading'
  <2> SUFFICES ASSUME slup' # "down" PROVE
        /\ \A g \in SlFiles : slread'[g] \notin {"tampered", "unsupported"}
        /\ \A g \in SlFiles : slread'[g] \in {"trusted", "verified"} =>
               slfile'[g].form # "bare" /\ slfile'[g].by = slkey
        /\ slup' = "up" => \A g \in SlFiles : slread'[g] # "unread"
        /\ (\E g \in SlFiles : slread'[g] = "trusted") => ~slmine.established
        /\ ~slmine.established => \A g \in SlFiles : slfile'[g].by \in {0, slkey}
        /\ ~slmine.established => \A g \in SlFiles : slread'[g] = "absent" => slfile'[g].form # "bare"
    BY <1>1, <1>3 DEF SlReading
  <2>1. ~fails
    BY <1>1
  <2>2. \A g \in SlFiles : slread'[g] \notin {"tampered", "unsupported"}
    BY <2>1, <1>1, <1>2, <1>6, <1>7 DEF SlReading
  <2>3. \A g \in SlFiles : slread'[g] \in {"trusted", "verified"} =>
               slfile'[g].form # "bare" /\ slfile'[g].by = slkey
    BY <2>1, <1>1, <1>2, <1>6, <1>7 DEF SlReading
  <2>4. slup' = "up" => \A g \in SlFiles : slread'[g] # "unread"
    BY <2>1, <1>1, <1>4, <1>6
  <2>5. (\E g \in SlFiles : slread'[g] = "trusted") => ~slmine.established
    BY <2>1, <1>1, <1>2, <1>6, <1>7 DEF SlReading
  <2>6. ~slmine.established => \A g \in SlFiles : slfile'[g].by \in {0, slkey}
    BY <1>1, <1>2, <1>3, <1>6 DEF SlReading
  <2>7. ~slmine.established => \A g \in SlFiles : slread'[g] = "absent" => slfile'[g].form # "bare"
    BY <2>1, <1>1, <1>2, <1>6, <1>7 DEF SlReading
  <2>8. QED BY <2>2, <2>3, <2>4, <2>5, <2>6, <2>7
<1>9. SlHonest'
  <2> SUFFICES ASSUME slodd' = {} PROVE
        /\ \A g \in SlFiles : slread'[g] # "tampered"
        /\ \A g \in SlFiles : slfile'[g].by \in {0, slkey}
        /\ \A g \in SlFiles : slfile'[g].form \notin {"absent", "bare"} => slfile'[g].by = slkey
        /\ slup' = "down" \/ slmine.established => \A g \in SlFiles : slfile'[g].form # "bare"
    BY <1>1, <1>3 DEF SlHonest
  <2>1. slodd = {} /\ (slup' = "down" => slmine.established)
    BY <1>1
  <2>2. v # "tampered"
    <3>1. slmine.established => slfile[f].form # "bare"
      BY <2>1, <1>2, <1>3 DEF SlHonest
    <3>2. slfile[f].form \notin {"absent", "bare"} => slfile[f].by = slmine.key
      BY <2>1, <1>2, <1>3 DEF SlHonest
    <3>3. QED BY <3>1, <3>2, <1>2, VerdictIs
  <2>3. \A g \in SlFiles : slread'[g] # "tampered"
    BY <2>1, <2>2, <1>2, <1>6 DEF SlHonest
  <2>4. \A g \in SlFiles : slfile'[g].by \in {0, slkey}
    BY <2>1, <1>2, <1>3, <1>6 DEF SlHonest
  <2>5. \A g \in SlFiles : slfile'[g].form \notin {"absent", "bare"} => slfile'[g].by = slkey
    BY <2>1, <1>2, <1>3, <1>6 DEF SlHonest
  <2>6. slmine.established => \A g \in SlFiles : slfile'[g].form # "bare"
    BY <2>1, <1>2, <1>3, <1>6 DEF SlHonest
  <2>7. QED BY <2>1, <2>3, <2>4, <2>5, <2>6
<1>10. QED BY <1>5, <1>8, <1>9 DEF SlInv

\* A file is replaced while no process runs.
LEMMA SlReplaceInv ==
    ASSUME SlInv, NEW f \in SlFiles, SlReplace(f)
    PROVE  SlInv'
<1>1. /\ slup = "down" /\ slup' = "down" /\ slkey # 0 /\ slkey' = slkey /\ slmine' = slmine
      /\ slread' = slread /\ slstarts' = slstarts
  BY DEF SlReplace
<1>2. \/ "touch" \in slodd' /\ slfile' = [slfile EXCEPT ![f] = Bare]
      \/ "touch" \in slodd' /\ slfile' = [slfile EXCEPT ![f] = Seal("sealed", 0)]
      \/ /\ slodd' = slodd
         /\ \E form \in {"legacy", "newer"} : slfile' = [slfile EXCEPT ![f] = Seal(form, slkey)]
  BY DEF SlReplace
<1>3. SlShape'
  BY <1>1, <1>2 DEF SlInv, SlShape, Seal, Bare, SlForms
<1>4. SlReading'
  BY <1>1 DEF SlReading
<1>5. SlHonest'
  BY <1>1, <1>2 DEF SlInv, SlShape, SlHonest, Seal
<1>6. QED BY <1>3, <1>4, <1>5 DEF SlInv

\* The steps of the seal, one by one.
LEMMA SlStepInv == ASSUME SlInv, [SlNext]_slVars PROVE SlInv'
<1>1. CASE SlStart
  BY <1>1, SlStartInv
<1>2. CASE SlStop
  <2>1. /\ slup # "down" /\ slup' = "down" /\ slkey' = slkey /\ slmine' = slmine /\ slfile' = slfile
        /\ slread' = slread /\ slstarts' = slstarts
        /\ slodd' = IF slup = "reading" /\ ~slmine.established THEN slodd \cup {"halted"} ELSE slodd
    BY <1>2 DEF SlStop
  <2>2. SlShape' /\ SlReading'
    BY <2>1 DEF SlInv, SlShape, SlReading
  <2>3. ASSUME slodd' = {}, NEW g \in SlFiles PROVE slfile[g].form # "bare"
    <3>1. CASE slmine.established
      BY <3>1, <2>1, <2>3 DEF SlInv, SlHonest, SlReading
    <3>2. CASE ~slmine.established
      <4>1. slup = "up"
        BY <3>2, <2>1, <2>3 DEF SlInv, SlShape
      <4>2. slread[g] \in {"absent", "trusted", "verified"}
        BY <4>1, <2>1 DEF SlInv, SlShape, SlReading, SlReads
      <4>3. QED BY <3>2, <4>1, <4>2 DEF SlInv, SlReading
    <3>3. QED BY <3>1, <3>2
  <2>4. SlHonest'
    BY <2>1, <2>3 DEF SlInv, SlHonest
  <2>5. QED BY <2>2, <2>4 DEF SlInv
<1>3. CASE SlLoseKey
  <2>1. "unkey" \in slodd'
    BY <1>3 DEF SlLoseKey
  <2>2. QED
    BY <1>3, <2>1 DEF SlLoseKey, SlInv, SlShape, SlReading, SlHonest
<1>4. ASSUME NEW f \in SlFiles, NEW works \in BOOLEAN, SlRead(f, works) PROVE SlInv'
  BY <1>4, SlReadInv
<1>5. ASSUME NEW f \in SlFiles, SlWrite(f) PROVE SlInv'
  BY <1>5 DEF SlWrite, Seal, SlInv, SlShape, SlForms, SlReading, SlHonest
<1>6. ASSUME NEW f \in SlFiles, SlReplace(f) PROVE SlInv'
  BY <1>6, SlReplaceInv
<1>7. CASE UNCHANGED slVars
  BY <1>7 DEF slVars, SlInv, SlShape, SlReading, SlHonest
<1>8. QED BY <1>1, <1>2, <1>3, <1>4, <1>5, <1>6, <1>7 DEF SlNext

\* The invariant says what the seal promises.
LEMMA SlInvSound == ASSUME SlInv PROVE IntegritySound
<1>1. SlTrustedOnce
  BY DEF SlInv, SlReading, SlTrustedOnce
<1>2. SlAllSealed
  BY DEF SlInv, SlShape, SlReading, SlAllSealed, SlReads
<1>3. SlHonestOpens
  BY DEF SlInv, SlHonest, SlHonestOpens
<1>4. QED BY <1>1, <1>2, <1>3 DEF IntegritySound

\* For any files and any number of starts: a file without a seal is trusted by the first
\* start alone, what a running broker read lies sealed under its key, and a store that
\* only brokers wrote always opens (open_with_established_state and read_verified of
\* integrity.rs).
THEOREM SealHolds == SlSpec => []IntegritySound
<1>1. SlInit => SlInv
  BY SlInitInv
<1>2. SlInv /\ [SlNext]_slVars => SlInv'
  BY SlStepInv
<1>3. SlInv => IntegritySound
  BY SlInvSound
<1>4. QED BY <1>1, <1>2, <1>3, PTL DEF SlSpec

----------------------------------------------------------------------------
(* The two keychains                                                       *)

\* The type of each variable.
KcShape ==
    /\ kcopen \in Chains \cup {"closed"} /\ kcmark \in Chains \cup {"none"}
    /\ kcitem \in [Chains -> Nat] /\ kcexists \in BOOLEAN /\ kctrue \in Nat /\ kcnext \in Nat \ {0}
    /\ kcread \in [at : {"none", "legacy", "copy", "cleanup"}, val : Nat, due : Nat]
    /\ kcread.at = "none" => kcread = Unread
    /\ kcgone \in {"none", "found", "missed"}
    /\ kcread # Unread \/ kcgone # "none" => kcopen # "closed"
    /\ kcread # Unread => kcopen = DP
    /\ kcgot \in [val : Nat, due : Nat]

\* Where the value is while nothing odd has happened: in the newer keychain, or, when that
\* one has none, in the older; a broker that uses the older, or a marker that says so,
\* finds the newer one empty.
KcPlace ==
    /\ kcgone = "none" => kctrue = IF kcitem[DP] # 0 THEN kcitem[DP] ELSE kcitem[Login]
    /\ kcitem[DP] # 0 \/ kcitem[Login] # 0 => kcexists
    /\ kcmark = Login \/ kcopen = Login => kcitem[DP] = 0
    /\ kcopen = DP => kcmark \in {DP, "none"}
    /\ kcopen = Login => kcmark \in {Login, "none"}

\* What a read and a deletion under way rest on: that the item has not changed since.
KcUnderWay ==
    /\ kcread # Unread => kcgone = "none" /\ kcread.due = kctrue
    /\ kcread.at \in {"legacy", "copy"} => kcitem[DP] = 0
    /\ kcread.at = "copy" => kcread.val = kctrue /\ kctrue # 0
    /\ kcread.at = "cleanup" => kcread.val = kctrue /\ kcitem[DP] = kctrue /\ kctrue # 0
    /\ kcgone # "none" => kcitem[kcopen] = 0
    /\ kcgone = "missed" => kcopen = DP /\ kcitem[Login] # 0
    /\ kcgot.val = kcgot.due

\* The inductive invariant of the keychains.
KcInv == KcShape /\ (kcodd = {} => KcPlace /\ KcUnderWay)

\* The names are different.
LEMMA KcNames ==
    /\ DP # Login /\ DP # "closed" /\ Login # "closed" /\ DP # "none" /\ Login # "none"
    /\ DP # "refused" /\ Login # "refused" /\ DP # "auto" /\ Login # "auto"
    /\ Chains = {DP, Login}
BY DEF DP, Login, Chains

\* A fresh store and one of the older release keep the invariant.
LEMMA KcInitInv == ASSUME KcInit PROVE KcInv
<1> USE KcNames DEF Unread, NoAnswer
<1>1. kcitem \in [Chains -> Nat] /\ kctrue \in Nat /\ kcexists \in BOOLEAN
      /\ kcitem[DP] = 0 /\ kcitem[Login] = kctrue /\ (kctrue # 0 => kcexists)
  <2>1. CASE kctrue = 1
    <3>1. kcitem = [c \in Chains |-> IF c = Login THEN 1 ELSE 0] /\ kcexists = TRUE
      BY <2>1 DEF KcInit
    <3>2. QED BY <2>1, <3>1
  <2>2. CASE kctrue = 0
    <3>1. kcitem = [c \in Chains |-> 0] /\ kcexists = FALSE
      BY <2>2 DEF KcInit
    <3>2. QED BY <2>2, <3>1
  <2>3. QED BY <2>1, <2>2 DEF KcInit
<1>2. KcShape
  BY <1>1 DEF KcInit, KcShape
<1>3. KcPlace /\ KcUnderWay
  BY <1>1 DEF KcInit, KcPlace, KcUnderWay
<1>4. QED BY <1>2, <1>3 DEF KcInv

\* A process opens the keychain the marker names, or the newer one.
LEMMA KcOpenInv ==
    ASSUME KcInv, NEW requested \in {"auto", DP, Login}, NEW signed \in BOOLEAN, NEW marked \in BOOLEAN,
           KcOpen(requested, signed, marked)
    PROVE  KcInv'
<1> DEFINE c == Resolve(requested, kcmark, kcexists, signed)
<1>1. /\ kcopen = "closed" /\ c # "refused" /\ kcopen' = c
      /\ kcmark' = IF marked THEN c ELSE kcmark
      /\ kcodd' = kcodd \cup (IF requested = Login THEN {"forced"} ELSE {})
                       \cup (IF ~marked /\ kcmark # "none" /\ kcmark # c THEN {"misled"} ELSE {})
      /\ kcitem' = kcitem /\ kcexists' = kcexists /\ kctrue' = kctrue /\ kcnext' = kcnext
      /\ kcread' = kcread /\ kcgone' = kcgone /\ kcgot' = kcgot
  BY DEF KcOpen
<1>2. c \in Chains /\ (c = Login /\ requested # Login => kcmark = Login \/ (kcmark = "none" /\ ~kcexists))
  BY <1>1, KcNames DEF Resolve, KcInv, KcShape
<1>3. KcShape'
  BY <1>1, <1>2, KcNames DEF KcInv, KcShape
<1>4. ASSUME kcodd' = {} PROVE KcPlace' /\ KcUnderWay'
  <2>1. kcodd = {} /\ requested # Login /\ (marked \/ kcmark \in {"none", c})
    BY <1>1, <1>4
  <2>2. KcPlace /\ KcUnderWay /\ kcread = Unread /\ kcgone = "none"
    BY <2>1, <1>1 DEF KcInv, KcShape
  <2>3. KcPlace'
    BY <1>1, <1>2, <2>1, <2>2, KcNames DEF KcPlace
  <2>4. KcUnderWay'
    BY <1>1, <2>2 DEF KcUnderWay, Unread
  <2>5. QED BY <2>3, <2>4
<1>5. QED BY <1>3, <1>4 DEF KcInv

\* The steps of the keychains, one by one.
LEMMA KcStepInv == ASSUME KcInv, [KcNext]_kcVars PROVE KcInv'
<1> USE KcNames
<1>1. ASSUME NEW r \in {"auto", DP, Login}, NEW signed \in BOOLEAN, NEW marked \in BOOLEAN,
             KcOpen(r, signed, marked)
      PROVE  KcInv'
  BY <1>1, KcOpenInv
<1>2. CASE KcClose
  <2>1. KcShape'
    BY <1>2 DEF KcClose, KcInv, KcShape, Unread
  <2>2. ASSUME kcodd' = {} PROVE KcPlace' /\ KcUnderWay'
    <3>1. kcodd = {} /\ kcgone = "none"
      BY <1>2, <2>2 DEF KcClose
    <3>2. QED BY <1>2, <3>1 DEF KcClose, KcInv, KcPlace, KcUnderWay, Unread
  <2>3. QED BY <2>1, <2>2 DEF KcInv
<1>3. CASE KcLoseMarker
  BY <1>3 DEF KcLoseMarker, KcInv, KcShape, KcPlace, KcUnderWay
<1>4. CASE KcSet
  <2>1. KcShape'
    BY <1>4 DEF KcSet, KcInv, KcShape
  <2>2. ASSUME kcodd' = {} PROVE KcPlace' /\ KcUnderWay'
    <3>1. kcodd = {} /\ kcread = Unread
      BY <1>4, <2>2 DEF KcSet, Raced
    <3>2. QED BY <1>4, <3>1 DEF KcSet, KcInv, KcShape, KcPlace, KcUnderWay, Unread
  <2>3. QED BY <2>1, <2>2 DEF KcInv
<1>5. CASE KcDelete
  <2>1. KcShape'
    BY <1>5 DEF KcDelete, KcInv, KcShape
  <2>2. ASSUME kcodd' = {} PROVE KcPlace' /\ KcUnderWay'
    <3>1. kcodd = {} /\ kcread = Unread
      BY <1>5, <2>2 DEF KcDelete, Raced
    <3>2. QED BY <1>5, <3>1 DEF KcDelete, KcInv, KcShape, KcPlace, KcUnderWay, Unread
  <2>3. QED BY <2>1, <2>2 DEF KcInv
<1>6. ASSUME NEW works \in BOOLEAN, KcDeleteLegacy(works) PROVE KcInv'
  <2>1. KcShape'
    BY <1>6 DEF KcDeleteLegacy, KcInv, KcShape
  <2>2. ASSUME kcodd' = {} PROVE KcPlace' /\ KcUnderWay'
    <3>1. kcodd = {} /\ works
      BY <1>6, <2>2 DEF KcDeleteLegacy
    <3>2. KcPlace /\ KcUnderWay /\ KcShape /\ kcread = Unread /\ kcgone # "none"
      BY <1>6, <3>1 DEF KcInv, KcUnderWay, KcDeleteLegacy
    <3>3. /\ kcitem' = IF kcopen = DP /\ kcitem[Login] # 0 THEN [kcitem EXCEPT ![Login] = 0] ELSE kcitem
          /\ kctrue' = IF kcgone = "found" \/ (kcopen = DP /\ kcitem[Login] # 0) THEN 0 ELSE kctrue
          /\ kcgone' = "none" /\ kcread' = kcread /\ kcgot' = kcgot /\ kcexists' = kcexists
          /\ kcopen' = kcopen /\ kcmark' = kcmark
      BY <1>6, <3>1 DEF KcDeleteLegacy
    <3>4. kcitem'[DP] = 0 /\ kcitem'[Login] = 0 /\ kctrue' = 0
      BY <3>2, <3>3 DEF KcPlace, KcUnderWay, KcShape
    <3>5. QED BY <3>2, <3>3, <3>4 DEF KcPlace, KcUnderWay, Unread
  <2>3. QED BY <2>1, <2>2 DEF KcInv
<1>7. CASE KcReadFirst
  <2>1. KcShape'
    BY <1>7 DEF KcReadFirst, KcInv, KcShape, Unread
  <2>2. ASSUME kcodd' = {} PROVE KcPlace' /\ KcUnderWay'
    <3>1. kcodd = {} /\ kcgone = "none"
      BY <1>7, <2>2 DEF KcReadFirst
    <3>2. QED BY <1>7, <3>1 DEF KcReadFirst, KcInv, KcShape, KcPlace, KcUnderWay, Unread
  <2>3. QED BY <2>1, <2>2 DEF KcInv
<1>8. CASE KcReadLegacy
  <2>1. /\ kcread.at = "legacy" /\ kcopen' = kcopen /\ kcmark' = kcmark /\ kcitem' = kcitem
        /\ kcexists' = kcexists /\ kctrue' = kctrue /\ kcnext' = kcnext /\ kcgone' = kcgone /\ kcodd' = kcodd
    BY <1>8 DEF KcReadLegacy
  <2>2. KcShape /\ kcread # Unread
    BY <2>1 DEF KcInv, Unread
  <2>3. CASE kcitem[Login] = 0
    <3>1. kcread' = Unread /\ kcgot' = [val |-> 0, due |-> kcread.due]
      BY <1>8, <2>3 DEF KcReadLegacy
    <3>2. KcShape'
      BY <2>1, <2>2, <3>1 DEF KcShape, Unread
    <3>3. KcPlace /\ KcUnderWay => KcPlace' /\ KcUnderWay'
      BY <2>1, <2>2, <2>3, <3>1 DEF KcPlace, KcUnderWay, Unread
    <3>4. QED BY <2>1, <3>2, <3>3 DEF KcInv
  <2>4. CASE kcitem[Login] # 0
    <3>1. kcread' = [kcread EXCEPT !.at = "copy", !.val = kcitem[Login]] /\ kcgot' = kcgot
      BY <1>8, <2>4 DEF KcReadLegacy
    <3>2. kcread' = [at |-> "copy", val |-> kcitem[Login], due |-> kcread.due]
      BY <2>2, <3>1 DEF KcShape
    <3>3. KcShape'
      BY <2>1, <2>2, <3>1, <3>2 DEF KcShape, Unread
    <3>4. KcPlace /\ KcUnderWay => KcPlace' /\ KcUnderWay'
      BY <2>1, <2>2, <2>4, <3>1, <3>2 DEF KcPlace, KcUnderWay, Unread
    <3>5. QED BY <2>1, <3>3, <3>4 DEF KcInv
  <2>5. QED BY <2>3, <2>4
<1>9. ASSUME NEW works \in BOOLEAN, KcCopy(works) PROVE KcInv'
  <2>1. KcShape'
    BY <1>9 DEF KcCopy, KcInv, KcShape, Unread
  <2>2. QED BY <1>9, <2>1 DEF KcCopy, KcInv, KcShape, KcPlace, KcUnderWay, Unread
<1>10. ASSUME NEW works \in BOOLEAN, KcCleanup(works) PROVE KcInv'
  <2>1. KcShape'
    BY <1>10 DEF KcCleanup, KcInv, KcShape, Unread
  <2>2. QED BY <1>10, <2>1 DEF KcCleanup, KcInv, KcShape, KcPlace, KcUnderWay, Unread
<1>11. CASE UNCHANGED kcVars
  BY <1>11 DEF kcVars, KcInv, KcShape, KcPlace, KcUnderWay
<1>12. QED
  BY <1>1, <1>2, <1>3, <1>4, <1>5, <1>6, <1>7, <1>8, <1>9, <1>10, <1>11 DEF KcNext

\* The invariant says what the vault promises.
LEMMA KcInvSound == ASSUME KcInv PROVE KeychainSound
BY KcNames DEF KcInv, KcShape, KcPlace, KcUnderWay, KeychainSound, KcNotEmptied, KcReadsLatest, Visible, Quiet

\* For any number of values: a process that was never told to use the login keychain finds
\* the value last given, whatever became of the marker and wherever a migration stopped,
\* and a read returns it (resolve_for_store, read_migrating and the vault of
\* keychain/mod.rs).
THEOREM KeychainKeeps == KcSpec => []KeychainSound
<1>1. KcInit => KcInv
  BY KcInitInv
<1>2. KcInv /\ [KcNext]_kcVars => KcInv'
  BY KcStepInv
<1>3. KcInv => KeychainSound
  BY KcInvSound
<1>4. QED BY <1>1, <1>2, <1>3, PTL DEF KcSpec
----------------------------------------------------------------------------
(* The broker's own credentials                                            *)

\* An alias, and a superseded key, as they can be.
IdAliases == [key : Keys, used : 0 .. IdMaxTime, exp : Nat]
IdSups == [key : Keys, at : 0 .. IdMaxTime]

\* Superseded keys: no more than there is room for, and none of them twice.
IdSupList(sup) ==
    /\ sup \subseteq IdSups /\ IsFiniteSet(sup) /\ Cardinality(sup) <= IdMaxSup
    /\ \A d, e \in sup : d.key = e.key => d = e

\* A record as it can be once n is the next key: every credential in it was minted, and
\* none of them is there twice.
IdRecord(s, n) ==
    /\ s \in [cur : Keys, used : 0 .. IdMaxTime, sup : SUBSET IdSups,
              aliases : SUBSET IdAliases, mgr : [key : 0 .. IdMaxKey, exp : 0 .. Never]]
    /\ IdSupList(s.sup)
    /\ \A a, b \in s.aliases : a.key # s.cur /\ (a.key = b.key => a = b)
    /\ s.cur < n /\ s.mgr.key < n /\ \A a \in s.aliases : a.key < n
    /\ s.mgr.key # s.cur /\ \A a \in s.aliases : a.key # s.mgr.key

\* The type of each variable.
IdShape ==
    /\ idup \in BOOLEAN /\ idfile \in 0 .. IdMaxKey /\ idhalf \in 0 .. IdMaxKey /\ idnext \in 2 .. IdMaxKey + 1 /\ idwall \in 0 .. IdMaxTime
    /\ idproj \in 0 .. Unasked
    /\ idlegacy \in {{}, {[key |-> 1, used |-> 0]}}
    /\ idout \subseteq Keys /\ idlapsed \subseteq Keys
    /\ IF idup THEN IdRecord(idmem, idnext) /\ iddisk # NoRecord ELSE idmem = NoRecord
    /\ iddisk # NoRecord => IdRecord(iddisk, idnext)

\* None of the retired keys opens anything in a record.
IdDead(s, out) ==
    \A k \in out : k # s.cur /\ k # s.mgr.key /\ \A a \in s.aliases : a.key # k

\* A retired key was minted, and neither the record in memory nor the one on disk, from
\* which the next process starts, has it.
IdRetired ==
    /\ \A k \in idout : k < idnext
    /\ idup => IdDead(idmem, idout)
    /\ IF iddisk = NoRecord THEN idout = {} ELSE IdDead(iddisk, idout)

\* A refused key has lapsed by the process's own clock, which the wall clock does not
\* overtake.
IdLapsed ==
    idup =>
        /\ idproj # Unasked => idwall <= idproj
        /\ idlapsed # {} => idproj # Unasked
        /\ \A k \in idlapsed :
              /\ k < idnext /\ k # idmem.cur
              /\ idmem.mgr.key = k => idmem.mgr.exp <= idproj
              /\ \A a \in idmem.aliases : a.key = k => a.exp <= idproj \/ idproj > a.used + IdTtl

\* The inductive invariant of the broker's credentials.
IdInv == IdShape /\ IdRetired /\ IdLapsed /\ IdFileWorks

\* The constants are numbers.
LEMMA IdLimits ==
    /\ IdTtl \in Nat /\ IdRecovery \in Nat /\ IdSupTtl \in Nat /\ IdMaxSup \in Nat
    /\ IdMaxKey \in Nat \ {0} /\ IdMaxTime \in Nat \ {0}
    /\ Unasked = IdMaxTime + 1 /\ Never = IdMaxTime + IdTtl + 1 /\ Keys = 1 .. IdMaxKey
<1>1. {IdTtl, IdRecovery, IdRefresh, IdSupTtl, IdMaxSup} \subseteq Nat
  BY IdAssumption
<1>2. {IdMaxKey, IdMaxTime} \subseteq Nat \ {0}
  BY IdAssumption
<1>3. QED BY <1>1, <1>2 DEF Unasked, Never, Keys

\* The n newest of some keys are at most n.
LEMMA NewestBound ==
    ASSUME NEW S \in SUBSET IdSups, IsFiniteSet(S), \A d, e \in S : d.key = e.key => d = e, NEW n \in Nat
    PROVE  Newest(S, n) \subseteq S /\ IsFiniteSet(Newest(S, n)) /\ Cardinality(Newest(S, n)) <= n
<1> DEFINE Above(e) == {d \in S : d.key > e.key}
           T == Newest(S, n)
           rank == [e \in T |-> Cardinality(Above(e))]
<1>1. T \subseteq S /\ \A e \in T : Cardinality(Above(e)) < n
  BY DEF Newest
<1>2. \A e \in S : IsFiniteSet(Above(e)) /\ Cardinality(Above(e)) \in Nat
  BY FS_Subset, FS_CardinalityType
<1>3. rank \in [T -> 0 .. n - 1] /\ \A e \in T : rank[e] = Cardinality(Above(e))
  <2>1. ASSUME NEW e \in T PROVE Cardinality(Above(e)) \in 0 .. n - 1
    <3>1. e \in S
      BY <1>1
    <3>2. Cardinality(Above(e)) \in Nat
      BY <1>2, <3>1
    <3>3. Cardinality(Above(e)) < n
      BY <1>1
    <3> HIDE DEF Above
    <3>4. QED BY <3>2, <3>3
  <2> HIDE DEF Above, T
  <2>2. QED BY <2>1
<1>4. ASSUME NEW d \in T, NEW e \in T, d.key < e.key PROVE rank[e] < rank[d]
  <2>1. d \in S /\ e \in S /\ d.key \in Nat /\ e.key \in Nat
    BY <1>1, IdLimits DEF IdSups
  <2>2. Above(e) \cup {e} \in SUBSET Above(d)
    BY <2>1, <1>4, IdLimits DEF IdSups
  <2>3. e \notin Above(e)
    BY <2>1
  <2>4. Cardinality(Above(e) \cup {e}) = Cardinality(Above(e)) + 1
    BY <1>2, <2>1, <2>3, FS_AddElement
  <2>5. IsFiniteSet(Above(d)) /\ Cardinality(Above(d)) \in Nat /\ Cardinality(Above(e)) \in Nat
    BY <1>2, <2>1
  <2> HIDE DEF Above
  <2>6. Cardinality(Above(e) \cup {e}) <= Cardinality(Above(d))
    BY <2>2, <2>5, FS_Subset
  <2>7. Cardinality(Above(e)) < Cardinality(Above(d))
    BY <2>4, <2>5, <2>6
  <2>8. QED BY <2>7, <1>3
<1>5. \A d, e \in T : rank[d] = rank[e] => d = e
  <2> SUFFICES ASSUME NEW d \in T, NEW e \in T, rank[d] = rank[e] PROVE d = e
    OBVIOUS
  <2>1. d.key \in Nat /\ e.key \in Nat /\ rank[d] \in Int /\ rank[e] \in Int
    BY <1>1, <1>3, IdLimits DEF IdSups
  <2>2. d.key = e.key
    BY <2>1, <1>4
  <2>3. QED BY <2>2, <1>1
<1>6. rank \in Injection(T, 0 .. n - 1)
  BY <1>3, <1>5 DEF Injection, IsInjective
<1>7. IsFiniteSet(0 .. n - 1) /\ Cardinality(0 .. n - 1) = n
  BY FS_Interval
<1>8. IsFiniteSet(T) /\ Cardinality(T) <= n
  <2> HIDE DEF T, rank
  <2>1. QED BY <1>6, <1>7, FS_Injection
<1>9. QED BY <1>1, <1>8

\* What a rotation makes of the superseded keys.
LEMMA SupersededList ==
    ASSUME IdShape, idup PROVE IdSupList(Superseded)
<1> DEFINE old == {e \in idmem.sup : idwall <= e.at + IdSupTtl /\ e.key # idmem.cur}
           new == [key |-> idmem.cur, at |-> idwall]
<1>1. IdSupList(idmem.sup) /\ new \in IdSups
  BY DEF IdShape, IdRecord, IdSups
<1>2. old \in SUBSET idmem.sup
  OBVIOUS
<1>3. IsFiniteSet(old)
  BY <1>1, <1>2, FS_Subset DEF IdSupList
<1>4. IsFiniteSet(old \cup {new})
  BY <1>3, FS_AddElement
<1>5. old \cup {new} \in SUBSET IdSups
  BY <1>1, <1>2 DEF IdSupList
<1>6. \A d, e \in old \cup {new} : d.key = e.key => d = e
  BY <1>1 DEF IdSupList
<1>7. Superseded = Newest(old \cup {new}, IdMaxSup)
  BY DEF Superseded
<1> HIDE DEF old, new
<1>8. QED BY <1>4, <1>5, <1>6, <1>7, NewestBound, IdLimits DEF IdSupList

\* A record stays one when more keys are minted.
LEMMA IdRecordLater ==
    ASSUME NEW s, NEW n \in Nat, IdRecord(s, n) PROVE IdRecord(s, n + 1) /\ s # NoRecord
<1>1. s.cur \in Nat \ {0} /\ s.mgr.key \in Nat /\ \A a \in s.aliases : a.key \in Nat
  BY IdLimits DEF IdRecord, IdAliases
<1>2. QED BY <1>1, IdLimits DEF IdRecord, NoRecord

\* The record of a first open, of one that lost the plaintext, and of a rotation.
LEMMA IdNewRecords ==
    ASSUME IdShape, idnext <= IdMaxKey
    PROVE  /\ IdRecord(Fresh, idnext + 1)
           /\ iddisk # NoRecord => IdRecord(Reminted, idnext + 1)
           /\ idup => IdRecord(Rotated, idnext + 1)
<1> USE IdLimits
<1>1. idnext \in Nat /\ idnext \in Keys /\ idnext > 1 /\ idwall \in 0 .. IdMaxTime
  BY DEF IdShape
<1>2. IdRecord(Fresh, idnext + 1)
  <2>1. Inherited \subseteq {[key |-> 1, used |-> 0, exp |-> 0 + IdTtl]}
    BY DEF Inherited, IdShape
  <2>2. IdSupList({})
    BY FS_EmptySet DEF IdSupList
  <2>3. Inherited \subseteq IdAliases
    BY <2>1 DEF IdAliases
  <2>4. QED BY <1>1, <2>1, <2>2, <2>3 DEF Fresh, IdRecord, NoToken
<1>3. ASSUME iddisk # NoRecord PROVE IdRecord(Reminted, idnext + 1)
  <2> DEFINE alias == [key |-> iddisk.cur, used |-> idwall, exp |-> idwall + Least(IdRecovery, IdTtl)]
             rest == {a \in iddisk.aliases : a.key # iddisk.cur}
  <2>1. IdRecord(iddisk, idnext)
    BY <1>3 DEF IdShape
  <2>2. alias \in IdAliases
    BY <2>1, <1>1 DEF IdRecord, IdAliases, Least
  <2>3. Reminted = [iddisk EXCEPT !.cur = idnext, !.used = idwall, !.aliases = rest \cup {alias}]
    BY DEF Reminted
  <2>4. Reminted = [cur |-> idnext, used |-> idwall, sup |-> iddisk.sup,
                    aliases |-> rest \cup {alias}, mgr |-> iddisk.mgr]
    BY <2>1, <2>3 DEF IdRecord
  <2>5. \A a \in rest \cup {alias} : a \in IdAliases /\ a.key < idnext /\ a.key # iddisk.mgr.key
    BY <2>1, <2>2 DEF IdRecord
  <2>6. \A a, b \in rest \cup {alias} : a.key = b.key => a = b
    BY <2>1 DEF IdRecord
  <2>7. iddisk.sup \in SUBSET IdSups /\ IdSupList(iddisk.sup)
        /\ iddisk.mgr \in [key : 0 .. IdMaxKey, exp : 0 .. Never] /\ iddisk.mgr.key < idnext
    BY <2>1 DEF IdRecord
  <2>8. \A a \in rest \cup {alias} : a.key \in Nat
    BY <2>5 DEF IdAliases
  <2> HIDE DEF rest, alias
  <2>9. QED BY <1>1, <2>4, <2>5, <2>6, <2>7, <2>8 DEF IdRecord
<1>4. ASSUME idup PROVE IdRecord(Rotated, idnext + 1)
  <2>1. IdRecord(idmem, idnext)
    BY <1>4 DEF IdShape
  <2>2. idmem \in [cur : Keys, used : 0 .. IdMaxTime, sup : SUBSET IdSups,
                    aliases : SUBSET IdAliases, mgr : [key : 0 .. IdMaxKey, exp : 0 .. Never]]
    BY <2>1 DEF IdRecord
  <2>3. IdSupList(Superseded) /\ Superseded \in SUBSET IdSups
    BY <1>4, SupersededList DEF IdSupList
  <2>4. Rotated \in [cur : Keys, used : 0 .. IdMaxTime, sup : SUBSET IdSups,
                      aliases : SUBSET IdAliases, mgr : [key : 0 .. IdMaxKey, exp : 0 .. Never]]
    BY <1>1, <2>2, <2>3 DEF Rotated
  <2>5. /\ Rotated.cur = idnext /\ Rotated.sup = Superseded
        /\ Rotated.aliases = {} /\ Rotated.mgr = idmem.mgr
    BY <2>2 DEF Rotated
  <2>6. QED BY <1>1, <2>1, <2>3, <2>4, <2>5 DEF IdRecord
<1>5. QED BY <1>2, <1>3, <1>4

\* A key that is not in force is an alias or nothing: what a process answers of it, in
\* terms of the alias.
LEMMA AliasAnswers ==
    ASSUME IdShape, idup, NEW k \in Keys, k # idmem.cur
    PROVE  /\ Answer(idmem, k) \in {"ok", "expired"} => \E a \in idmem.aliases : a.key = k
           /\ \A a \in idmem.aliases : a.key = k =>
                 /\ Answer(idmem, k) = "ok" => GuardedNow < a.exp /\ GuardedNow <= a.used + IdTtl
                 /\ Answer(idmem, k) = "expired" => GuardedNow >= a.exp \/ GuardedNow > a.used + IdTtl
<1>1. \A a, b \in AliasOf(idmem, k) : a = b
  BY DEF AliasOf, IdShape, IdRecord
<1>2. AliasOf(idmem, k) # {} => (CHOOSE a \in AliasOf(idmem, k) : TRUE) \in AliasOf(idmem, k)
  OBVIOUS
<1>3. \A a \in idmem.aliases : a \in IdAliases
  BY DEF IdShape, IdRecord
<1>4. GuardedNow \in Nat
  BY IdLimits DEF GuardedNow, IdShape
<1> HIDE DEF GuardedNow
<1>5. CASE AliasOf(idmem, k) = {}
  <2>1. Answer(idmem, k) \notin {"ok", "expired"}
    BY <1>5 DEF Answer
  <2>2. QED BY <2>1, <1>5 DEF AliasOf
<1>6. CASE AliasOf(idmem, k) # {}
  <2>1. PICK a \in AliasOf(idmem, k) : TRUE
    BY <1>6
  <2>2. AliasOf(idmem, k) = {a} /\ (CHOOSE b \in AliasOf(idmem, k) : TRUE) = a
    BY <1>1, <1>2, <2>1
  <2>3. a \in idmem.aliases /\ a.key = k /\ a.exp \in Nat /\ a.used \in Nat
    BY <2>1, <1>3, IdLimits DEF AliasOf, IdAliases
  <2>4. \A b \in idmem.aliases : b.key = k => b = a
    BY <2>2 DEF AliasOf
  <2>5. Answer(idmem, k) = IF GuardedNow >= a.exp THEN "expired"
                           ELSE IF GuardedNow > a.used + IdTtl THEN "expired" ELSE "ok"
    <3> DEFINE A == AliasOf(idmem, k)
    <3>1. (\E b \in A : GuardedNow >= b.exp) <=> GuardedNow >= a.exp
      BY <2>2
    <3>2. A # {} /\ (CHOOSE b \in A : TRUE) = a
      BY <2>2
    <3>3. Answer(idmem, k) =
            IF \E b \in A : GuardedNow >= b.exp THEN "expired"
            ELSE IF GuardedNow > (CHOOSE b \in A : TRUE).used + IdTtl THEN "expired" ELSE "ok"
      BY <3>2 DEF Answer
    <3> HIDE DEF A
    <3>4. CASE GuardedNow >= a.exp
      BY <3>1, <3>3, <3>4
    <3>5. CASE ~(GuardedNow >= a.exp)
      <4>1. ~ \E b \in A : GuardedNow >= b.exp
        BY <3>1, <3>5
      <4>2. Answer(idmem, k) = IF GuardedNow > (CHOOSE b \in A : TRUE).used + IdTtl THEN "expired" ELSE "ok"
        BY <3>3, <4>1
      <4>3. QED BY <3>2, <3>5, <4>2
    <3>6. QED BY <3>4, <3>5
  <2>6. QED BY <1>4, <2>3, <2>4, <2>5, IdLimits
<1>7. QED BY <1>5, <1>6

\* Once the guarded clock is asked, the projection is what it answers.
LEMMA AskedIsGuarded ==
    ASSUME IdShape, IdLapsed, idup, Asked
    PROVE  /\ idproj' = GuardedNow /\ idproj' \in 0 .. IdMaxTime /\ idwall <= idproj'
           /\ idproj # Unasked => idproj' = idproj
<1>1. QED BY IdLimits DEF IdShape, IdLapsed, Asked, GuardedNow

\* A first answer of a process: nothing has lapsed yet.
LEMMA IdInitInv == IdInit => IdInv
<1> SUFFICES ASSUME IdInit PROVE IdInv
  OBVIOUS
<1>1. IdShape
  <2>1. idlegacy \in {{}, {[key |-> 1, used |-> 0]}}
    BY DEF IdInit
  <2>2. {} \subseteq Keys
    OBVIOUS
  <2>3. idproj \in 0 .. Unasked /\ idfile \in 0 .. IdMaxKey /\ idhalf \in 0 .. IdMaxKey /\ idnext \in 2 .. IdMaxKey + 1 /\ idwall \in 0 .. IdMaxTime
    BY IdLimits DEF IdInit, Lost
  <2>4. QED BY <2>1, <2>2, <2>3 DEF IdInit, IdShape
<1>2. QED BY <1>1 DEF IdInit, IdInv, IdRetired, IdLapsed, IdFileWorks

\* A record whose alias k was used at time u.
Noted(s, k, u) == [s EXCEPT !.aliases = {IF a.key = k THEN [a EXCEPT !.used = u] ELSE a : a \in @}]

\* A use of the key in force that is written down changes no more than the time of it.
LEMMA KeyUseNoted ==
    ASSUME NEW s, NEW n \in Nat, IdRecord(s, n), NEW u \in 0 .. IdMaxTime
    PROVE  /\ IdRecord([s EXCEPT !.used = u], n)
           /\ [s EXCEPT !.used = u].cur = s.cur /\ [s EXCEPT !.used = u].mgr = s.mgr
           /\ [s EXCEPT !.used = u].aliases = s.aliases
<1> DEFINE r == [s EXCEPT !.used = u]
           R == [cur : Keys, used : 0 .. IdMaxTime, sup : SUBSET IdSups,
                 aliases : SUBSET IdAliases, mgr : [key : 0 .. IdMaxKey, exp : 0 .. Never]]
<1>1. s \in R /\ IdSupList(s.sup)
  BY DEF IdRecord
<1>2. r \in R /\ r.cur = s.cur /\ r.mgr = s.mgr /\ r.aliases = s.aliases /\ r.sup = s.sup
  BY <1>1
<1> HIDE DEF r, R
<1>3. IdRecord(r, n)
  BY <1>1, <1>2 DEF IdRecord, R
<1>4. QED BY <1>2, <1>3 DEF r

\* Nor does a use of an alias.
LEMMA AliasUseNoted ==
    ASSUME NEW s, NEW n \in Nat, IdRecord(s, n), NEW k \in Keys, NEW u \in 0 .. IdMaxTime
    PROVE  /\ IdRecord(Noted(s, k, u), n) /\ Noted(s, k, u).cur = s.cur /\ Noted(s, k, u).mgr = s.mgr
           /\ \A b \in Noted(s, k, u).aliases : \E a \in s.aliases :
                 b.key = a.key /\ b.exp = a.exp /\ (b.key # k => b = a)
<1> DEFINE v(a) == IF a.key = k THEN [a EXCEPT !.used = u] ELSE a
           A == {v(a) : a \in s.aliases}
           t == [s EXCEPT !.aliases = A]
           R == [cur : Keys, used : 0 .. IdMaxTime, sup : SUBSET IdSups,
                 aliases : SUBSET IdAliases, mgr : [key : 0 .. IdMaxKey, exp : 0 .. Never]]
<1>1. s \in R /\ IdSupList(s.sup) /\ s.aliases \in SUBSET IdAliases
  BY DEF IdRecord
<1>2. \A a \in s.aliases : v(a) \in IdAliases /\ v(a).key = a.key /\ v(a).exp = a.exp /\ (a.key # k => v(a) = a)
  BY <1>1 DEF IdAliases
<1> HIDE DEF v
<1>3. A \in SUBSET IdAliases
  BY <1>2
<1>4. \A b \in A : \E a \in s.aliases : b = v(a)
  OBVIOUS
<1> HIDE DEF A
<1>5. t \in R /\ t.cur = s.cur /\ t.mgr = s.mgr /\ t.aliases = A /\ t.sup = s.sup
  BY <1>1, <1>3
<1> HIDE DEF t, R
<1>6. \A b \in A : \E a \in s.aliases : b = v(a) /\ b.key = a.key /\ b.exp = a.exp /\ (b.key # k => b = a)
  BY <1>2, <1>4
<1>7. IdRecord(t, n)
  <2>1. /\ \A a, b \in s.aliases : a.key # s.cur /\ (a.key = b.key => a = b)
        /\ s.cur < n /\ s.mgr.key < n /\ \A a \in s.aliases : a.key < n
        /\ s.mgr.key # s.cur /\ \A a \in s.aliases : a.key # s.mgr.key
    BY DEF IdRecord
  <2>2. \A a, b \in A : a.key # t.cur /\ (a.key = b.key => a = b)
    BY <2>1, <1>5, <1>6
  <2>3. \A a \in A : a.key < n /\ a.key # t.mgr.key
    BY <2>1, <1>5, <1>6
  <2>4. QED BY <2>1, <2>2, <2>3, <1>1, <1>5 DEF IdRecord, R
<1>8. \A b \in t.aliases : \E a \in s.aliases : b.key = a.key /\ b.exp = a.exp /\ (b.key # k => b = a)
  BY <1>5, <1>6
<1>9. t = Noted(s, k, u)
  BY DEF t, A, v, Noted
<1>10. QED BY <1>5, <1>7, <1>8, <1>9

\* The invariant says what the properties ask: neither what was retired nor what lapsed
\* opens anything.
LEMMA IdInvMeans == IdInv => IdentitySound
<1> SUFFICES ASSUME IdInv PROVE IdentitySound
  OBVIOUS
<1> USE DEF IdInv
<1>1. IdTypeOK
  <2>1. \A s \in {idmem, iddisk} \ {NoRecord} : IdRecord(s, idnext)
    BY DEF IdShape
  <2>2. ASSUME NEW s \in {idmem, iddisk} \ {NoRecord}
        PROVE  /\ s.cur \in Keys /\ s.used \in 0 .. IdMaxTime
               /\ s.sup \subseteq [key : Keys, at : 0 .. IdMaxTime] /\ Cardinality(s.sup) <= IdMaxSup
               /\ s.mgr \in [key : 0 .. IdMaxKey, exp : 0 .. Never]
               /\ \A a, b \in s.aliases : a.key # s.cur /\ (a.key = b.key => a = b)
    BY <2>1, <2>2 DEF IdRecord, IdSupList, IdSups
  <2>3. idup <=> idmem # NoRecord
    <3>1. CASE idup
      BY <3>1, IdRecordLater, IdLimits DEF IdShape
    <3>2. CASE ~idup
      BY <3>2 DEF IdShape
    <3>3. QED BY <3>1, <3>2
  <2>4. idnext \in 1 .. IdMaxKey + 1
    BY IdLimits DEF IdShape
  <2>5. QED BY <2>2, <2>3, <2>4 DEF IdShape, IdTypeOK
<1>2. IdRetiredStay
  <2> SUFFICES ASSUME idup, NEW k \in idout
               PROVE  Answer(idmem, k) # "ok" /\ ManageAnswer(idmem, k) # "ok"
    BY DEF IdRetiredStay
  <2>1. k # idmem.cur /\ k # idmem.mgr.key /\ (\A a \in idmem.aliases : a.key # k) /\ k \in Keys
    BY DEF IdRetired, IdDead, IdShape
  <2>2. Answer(idmem, k) # "ok"
    BY <2>1, AliasAnswers
  <2>3. QED BY <2>1, <2>2 DEF ManageAnswer
<1>3. IdLapsedStay
  <2> SUFFICES ASSUME idup, NEW k \in idlapsed
               PROVE  Answer(idmem, k) # "ok" /\ ManageAnswer(idmem, k) # "ok"
    BY DEF IdLapsedStay
  <2>1. k \in Keys /\ k # idmem.cur /\ GuardedNow = idproj /\ idproj \in Nat
    BY IdLimits DEF IdLapsed, IdShape, GuardedNow
  <2>2. Answer(idmem, k) # "ok"
    <3> SUFFICES ASSUME Answer(idmem, k) = "ok" PROVE FALSE
      OBVIOUS
    <3>1. PICK a \in idmem.aliases : a.key = k
      BY <2>1, AliasAnswers
    <3>2. GuardedNow < a.exp /\ GuardedNow <= a.used + IdTtl
      BY <2>1, <3>1, AliasAnswers
    <3>3. a.exp <= idproj \/ idproj > a.used + IdTtl
      BY <3>1 DEF IdLapsed
    <3>4. a.exp \in Nat /\ a.used \in Nat
      BY <3>1, IdLimits DEF IdShape, IdRecord, IdAliases
    <3>5. QED BY <2>1, <3>2, <3>3, <3>4, IdLimits
  <2>3. ManageAnswer(idmem, k) # "ok"
    BY <2>1 DEF IdLapsed, ManageAnswer
  <2>4. QED BY <2>2, <2>3
<1>4. QED BY <1>1, <1>2, <1>3 DEF IdentitySound

\* A presented key leaves the credentials whole.
LEMMA IdVerifyStep ==
    ASSUME IdInv, NEW k \in Keys, NEW saved \in BOOLEAN, IdVerify(k, saved)
    PROVE  IdInv'
<1> DEFINE u == IF idmem.cur = k THEN idmem.used ELSE (CHOOSE a \in AliasOf(idmem, k) : TRUE).used
           idle == Answer(idmem, k) = "ok" /\ GuardedNow >= u + IdRefresh
           noted == Noted(idmem, k, GuardedNow)
           next == IF idmem.cur = k THEN [idmem EXCEPT !.used = GuardedNow] ELSE noted
<1>1. /\ idup /\ Asked
      /\ idmem' = IF idle THEN next ELSE idmem
      /\ iddisk' = IF idle /\ saved THEN next ELSE iddisk
      /\ idlapsed' = Lapses(idmem, k, TRUE)
      /\ UNCHANGED <<idup, idfile, idhalf, idlegacy, idwall, idnext, idout>>
  BY DEF IdVerify, Noted
<1>2. /\ idproj' = GuardedNow /\ GuardedNow \in 0 .. IdMaxTime /\ idwall <= GuardedNow
      /\ idproj # Unasked => idproj' = idproj
  BY <1>1, AskedIsGuarded DEF IdInv
<1>3. IdRecord(idmem, idnext) /\ idnext \in Nat
  BY <1>1, IdLimits DEF IdInv, IdShape
<1>4. /\ IdRecord(next, idnext) /\ next.cur = idmem.cur /\ next.mgr = idmem.mgr
      /\ \A b \in next.aliases : \E a \in idmem.aliases :
            b.key = a.key /\ (b.key # k \/ idmem.cur = k => b = a)
  <2>1. CASE idmem.cur = k
    BY <2>1, <1>2, <1>3, KeyUseNoted
  <2>2. CASE idmem.cur # k
    <3>1. next = noted
      BY <2>2
    <3>2. /\ IdRecord(noted, idnext) /\ noted.cur = idmem.cur /\ noted.mgr = idmem.mgr
          /\ \A b \in noted.aliases : \E a \in idmem.aliases : b.key = a.key /\ b.exp = a.exp /\ (b.key # k => b = a)
      BY <1>2, <1>3, AliasUseNoted
    <3> HIDE DEF noted, next
    <3>3. QED BY <2>2, <3>1, <3>2
  <2>3. QED BY <2>1, <2>2
<1> HIDE DEF next, idle, u, noted
<1>5. /\ idmem' = idmem \/ (idmem' = next /\ Answer(idmem, k) = "ok")
      /\ iddisk' = iddisk \/ iddisk' = next
  BY <1>1 DEF idle
<1>6. /\ IdRecord(idmem', idnext) /\ idmem'.cur = idmem.cur /\ idmem'.mgr = idmem.mgr
      /\ \A b \in idmem'.aliases : \E a \in idmem.aliases : b.key = a.key
  BY <1>3, <1>4, <1>5
<1>7. idlapsed' \in SUBSET (idlapsed \cup {k})
      /\ (k \in idlapsed' /\ k \notin idlapsed => k # idmem.cur /\ Answer(idmem, k) = "expired")
  BY <1>1 DEF Lapses
<1>8. IdShape'
  <2>1. iddisk' # NoRecord => IdRecord(iddisk', idnext)
    BY <1>3, <1>4, <1>5 DEF IdInv, IdShape
  <2>2. iddisk' # NoRecord
    BY <1>1, <1>3, <1>4, <1>5, IdRecordLater DEF IdInv, IdShape
  <2>3. idlapsed' \subseteq Keys /\ idproj' \in 0 .. Unasked
    BY <1>2, <1>7, IdLimits DEF IdInv, IdShape
  <2>4. QED BY <1>1, <1>6, <2>1, <2>2, <2>3 DEF IdInv, IdShape, IdRecord, IdSupList, IdSups, IdAliases, Keys, Unasked, Never, NoRecord, NoToken
<1>9. IdRetired'
  <2>1. IdDead(idmem, idout) /\ (\A j \in idout : j < idnext) /\ iddisk # NoRecord /\ IdDead(iddisk, idout)
    BY <1>1 DEF IdInv, IdRetired, IdShape
  <2>2. IdDead(next, idout)
    BY <2>1, <1>4 DEF IdDead
  <2>3. IdDead(idmem', idout) /\ IdDead(iddisk', idout)
    BY <2>1, <2>2, <1>5
  <2>4. iddisk' # NoRecord
    BY <2>1, <1>3, <1>4, <1>5, IdRecordLater
  <2>5. QED BY <1>1, <2>1, <2>3, <2>4 DEF IdRetired, IdDead, NoRecord, NoToken, Never
<1>10. IdLapsed'
  <2>1. idwall' <= idproj' /\ idproj' # Unasked'
    BY <1>1, <1>2, IdLimits DEF IdInv, IdShape, Unasked
  <2>2. ASSUME NEW j \in idlapsed'
        PROVE  /\ j < idnext /\ j # idmem'.cur
               /\ idmem'.mgr.key = j => idmem'.mgr.exp <= idproj'
               /\ \A b \in idmem'.aliases : b.key = j => b.exp <= idproj' \/ idproj' > b.used + IdTtl
    <3>1. CASE j \in idlapsed
      <4>1. /\ j < idnext /\ j # idmem.cur /\ idproj' = idproj
            /\ idmem.mgr.key = j => idmem.mgr.exp <= idproj
            /\ \A a \in idmem.aliases : a.key = j => a.exp <= idproj \/ idproj > a.used + IdTtl
        BY <1>1, <1>2, <3>1 DEF IdInv, IdLapsed
      <4>2. Answer(idmem, j) # "ok"
        BY <1>1, <3>1, IdInvMeans DEF IdentitySound, IdLapsedStay
      <4>3. \A b \in idmem'.aliases : b.key = j => b \in idmem.aliases
        <5>1. CASE idmem' = idmem
          BY <5>1
        <5>2. CASE idmem' = next /\ Answer(idmem, k) = "ok"
          <6>1. j # k
            BY <5>2, <4>2
          <6>2. QED BY <5>2, <6>1, <1>4
        <5>3. QED BY <5>1, <5>2, <1>5
      <4>4. QED BY <4>1, <4>3, <1>6
    <3>2. CASE j \notin idlapsed
      <4>1. j = k /\ k # idmem.cur /\ Answer(idmem, k) = "expired" /\ idmem' = idmem
        BY <1>5, <1>7, <3>2
      <4>2. PICK a \in idmem.aliases : a.key = k
        BY <1>1, <4>1, AliasAnswers DEF IdInv
      <4>3. k < idnext /\ k # idmem.mgr.key
        BY <1>3, <4>2 DEF IdRecord
      <4>4. \A b \in idmem.aliases : b.key = k => GuardedNow >= b.exp \/ GuardedNow > b.used + IdTtl
        BY <1>1, <4>1, AliasAnswers DEF IdInv
      <4>5. \A b \in idmem.aliases : b.exp \in Nat
        BY <1>3 DEF IdRecord, IdAliases
      <4>6. QED BY <1>2, <4>1, <4>3, <4>4, <4>5, IdLimits
    <3>3. QED BY <3>1, <3>2
  <2>3. QED BY <1>1, <2>1, <2>2 DEF IdLapsed
<1>11. IdFileWorks'
  BY <1>1, <1>6 DEF IdInv, IdFileWorks
<1>12. QED BY <1>8, <1>9, <1>10, <1>11 DEF IdInv

\* A presented management token leaves the credentials whole.
LEMMA IdVerifyManageStep ==
    ASSUME IdInv, NEW k \in Keys, IdVerifyManage(k)
    PROVE  IdInv'
<1>1. /\ idup /\ Asked /\ idlapsed' = Lapses(idmem, k, FALSE)
      /\ UNCHANGED <<idup, idmem, iddisk, idfile, idhalf, idlegacy, idwall, idnext, idout>>
  BY DEF IdVerifyManage
<1>2. /\ idproj' = GuardedNow /\ GuardedNow \in 0 .. IdMaxTime /\ idwall <= GuardedNow
      /\ idproj # Unasked => idproj' = idproj
  BY <1>1, AskedIsGuarded DEF IdInv
<1>3. /\ idlapsed' \in SUBSET (idlapsed \cup {k})
      /\ k \in idlapsed' /\ k \notin idlapsed => idmem.mgr.key = k /\ GuardedNow >= idmem.mgr.exp
  BY <1>1 DEF Lapses, ManageAnswer
<1>4. IdRecord(idmem, idnext)
  BY <1>1 DEF IdInv, IdShape
<1>5. IdShape'
  <2>1. idproj' \in 0 .. Unasked
    BY <1>2, IdLimits
  <2>2. idlapsed' \subseteq Keys
    BY <1>3 DEF IdInv, IdShape
  <2>3. QED BY <1>1, <2>1, <2>2 DEF IdInv, IdShape, IdRecord, IdSupList, IdSups, IdAliases, Keys, Unasked, Never, NoRecord, NoToken
<1>6. IdRetired' /\ IdFileWorks'
  BY <1>1 DEF IdInv, IdRetired, IdDead, IdFileWorks, NoRecord, NoToken, Never
<1>7. IdLapsed'
  <2>1. idwall' <= idproj' /\ idproj' # Unasked'
    BY <1>1, <1>2, IdLimits DEF IdInv, IdShape, Unasked
  <2>2. ASSUME NEW j \in idlapsed'
        PROVE  /\ j < idnext /\ j # idmem.cur
               /\ idmem.mgr.key = j => idmem.mgr.exp <= idproj'
               /\ \A b \in idmem.aliases : b.key = j => b.exp <= idproj' \/ idproj' > b.used + IdTtl
    <3>1. CASE j \in idlapsed
      BY <1>1, <1>2, <3>1 DEF IdInv, IdLapsed
    <3>2. CASE j \notin idlapsed
      <4>1. j = k /\ idmem.mgr.key = k /\ GuardedNow >= idmem.mgr.exp
        BY <1>3, <3>2
      <4>2. k < idnext /\ k # idmem.cur /\ (\A b \in idmem.aliases : b.key # k) /\ idmem.mgr.exp \in Nat
        BY <1>4, <4>1, IdLimits DEF IdRecord
      <4>3. QED BY <1>2, <4>1, <4>2
    <3>3. QED BY <3>1, <3>2
  <2>3. QED BY <1>1, <2>1, <2>2 DEF IdLapsed
<1>8. QED BY <1>5, <1>6, <1>7 DEF IdInv

\* A use that is touched leaves the credentials whole.
LEMMA IdTouchStep ==
    ASSUME IdInv, NEW saved \in BOOLEAN, IdTouch(saved)
    PROVE  IdInv'
<1> DEFINE next == [idmem EXCEPT !.used = idwall]
<1>1. /\ idup /\ idmem' = next /\ iddisk' \in {iddisk, next}
      /\ UNCHANGED <<idup, idfile, idhalf, idlegacy, idwall, idproj, idnext, idout, idlapsed>>
  BY DEF IdTouch
<1>2. idnext \in Nat /\ IdRecord(idmem, idnext) /\ idwall \in 0 .. IdMaxTime
  BY <1>1, IdLimits DEF IdInv, IdShape
<1>3. /\ IdRecord(next, idnext) /\ next.cur = idmem.cur /\ next.mgr = idmem.mgr
      /\ next.aliases = idmem.aliases
  BY <1>2, KeyUseNoted
<1> HIDE DEF next
<1>4. iddisk' # NoRecord /\ iddisk # NoRecord /\ IdRecord(iddisk', idnext)
  BY <1>1, <1>2, <1>3, IdRecordLater DEF IdInv, IdShape
<1>5. IdShape'
  BY <1>1, <1>3, <1>4 DEF IdInv, IdShape, IdRecord, IdSupList, IdSups, IdAliases, Keys, Unasked, Never, NoRecord, NoToken
<1>6. IdRetired'
  <2>1. IdDead(idmem, idout) /\ (\A j \in idout : j < idnext) /\ IdDead(iddisk, idout)
    BY <1>1, <1>4 DEF IdInv, IdRetired
  <2>2. IdDead(idmem', idout) /\ IdDead(iddisk', idout)
    BY <2>1, <1>1, <1>3 DEF IdDead
  <2>3. QED BY <1>1, <1>4, <2>1, <2>2 DEF IdRetired, IdDead, NoRecord, NoToken, Never
<1>7. IdLapsed' /\ IdFileWorks'
  BY <1>1, <1>3 DEF IdInv, IdLapsed, IdFileWorks, Unasked
<1>8. QED BY <1>5, <1>6, <1>7 DEF IdInv

\* A management token issued, replaced or revoked leaves the credentials whole.
LEMMA IdManageStep ==
    ASSUME IdInv, NEW held \in 0 .. IdMaxKey, NEW next \in [key : 0 .. IdMaxKey, exp : 0 .. Never], NEW how,
           \/ next.key = 0 /\ idnext' = idnext
           \/ next.key = idnext /\ idnext <= IdMaxKey /\ idnext' = idnext + 1,
           IdManage(held, next, how)
    PROVE  IdInv'
<1> DEFINE s == [idmem EXCEPT !.mgr = next]
<1>1. /\ idup /\ (Asked \/ idproj' = idproj)
      /\ \/ idmem' = s /\ iddisk' = s /\ idout' = idout \cup ({idmem.mgr.key} \ {0})
         \/ idmem' = idmem /\ iddisk' \in {iddisk, s} /\ idout' = idout
      /\ UNCHANGED <<idup, idfile, idhalf, idlegacy, idwall, idlapsed>>
  BY DEF IdManage
<1>2. /\ IdRecord(idmem, idnext) /\ IdRecord(iddisk, idnext) /\ iddisk # NoRecord
      /\ idnext \in Nat \ {0} /\ idnext' \in Nat \ {0} /\ (idnext' = idnext \/ idnext' = idnext + 1)
      /\ idnext' \in 2 .. IdMaxKey + 1
  <2>1. idnext \in 2 .. IdMaxKey + 1 /\ IdRecord(idmem, idnext) /\ IdRecord(iddisk, idnext) /\ iddisk # NoRecord
    BY <1>1 DEF IdInv, IdShape
  <2>2. QED BY <2>1, IdLimits
<1>3. s.cur = idmem.cur /\ s.aliases = idmem.aliases /\ s.mgr = next /\ IdRecord(s, idnext')
  <2>1. s \in [cur : Keys, used : 0 .. IdMaxTime, sup : SUBSET IdSups,
              aliases : SUBSET IdAliases, mgr : [key : 0 .. IdMaxKey, exp : 0 .. Never]]
    BY <1>2 DEF IdRecord
  <2>2. s.cur = idmem.cur /\ s.aliases = idmem.aliases /\ s.mgr = next /\ s.sup = idmem.sup
    BY <1>2 DEF IdRecord
  <2>3. s.cur \in Nat \ {0} /\ \A a \in s.aliases : a.key \in Nat \ {0}
    <3>1. s.cur \in Keys /\ s.aliases \in SUBSET IdAliases
      BY <1>2, <2>2 DEF IdRecord
    <3> HIDE DEF s
    <3>2. QED BY <3>1, IdLimits DEF IdAliases
  <2> HIDE DEF s
  <2>4. QED BY <1>2, <2>1, <2>2, <2>3 DEF IdRecord
<1> HIDE DEF s
<1>4. IdRecord(idmem, idnext') /\ IdRecord(iddisk, idnext')
  BY <1>2, IdRecordLater
<1>5. IdRecord(idmem', idnext') /\ IdRecord(iddisk', idnext') /\ iddisk' # NoRecord
  <2>1. s # NoRecord
    BY <1>2, <1>3, IdRecordLater
  <2>2. QED BY <1>1, <1>2, <1>3, <1>4, <2>1
<1>6. /\ idproj' \in 0 .. Unasked /\ (idproj # Unasked => idproj' = idproj)
      /\ idproj' # Unasked => idwall <= idproj'
  <2>1. CASE Asked
    BY <1>1, <2>1, AskedIsGuarded, IdLimits DEF IdInv
  <2>2. CASE idproj' = idproj
    BY <1>1, <2>2 DEF IdInv, IdShape, IdLapsed
  <2>3. QED BY <1>1, <2>1, <2>2
<1>7. IdShape'
  <2>1. idout' \subseteq Keys
    <3>1. idout \subseteq Keys /\ idmem.mgr.key \in 0 .. IdMaxKey
      BY <1>2 DEF IdInv, IdShape, IdRecord
    <3>2. {idmem.mgr.key} \ {0} \subseteq Keys
      BY <3>1, IdLimits
    <3>3. QED BY <1>1, <3>1, <3>2
  <2>2. QED
    BY <1>1, <1>2, <1>5, <1>6, <2>1 DEF IdInv, IdShape, IdRecord, IdSupList, IdSups, IdAliases, Keys, Unasked, Never, NoRecord, NoToken
<1>8. IdRetired'
  <2>1. IdDead(idmem, idout) /\ (\A j \in idout : j < idnext /\ j \in Nat \ {0}) /\ IdDead(iddisk, idout)
    BY <1>1, <1>2, IdLimits DEF IdInv, IdRetired, IdShape
  <2>2. \A j \in idout' : j < idnext'
    BY <1>1, <1>2, <2>1 DEF IdRecord
  <2>3. IdDead(idmem', idout') /\ IdDead(iddisk', idout')
    <3>1. CASE idmem' = idmem /\ iddisk' \in {iddisk, s} /\ idout' = idout
      <4>1. ASSUME NEW j \in idout PROVE j # s.cur /\ j # s.mgr.key /\ \A a \in s.aliases : a.key # j
        BY <1>2, <1>3, <2>1 DEF IdDead
      <4>2. QED BY <2>1, <3>1, <4>1 DEF IdDead
    <3>2. CASE idmem' = s /\ iddisk' = s /\ idout' = idout \cup ({idmem.mgr.key} \ {0})
      <4>1. ASSUME NEW j \in idout' PROVE j # s.cur /\ j # s.mgr.key /\ \A a \in s.aliases : a.key # j
        <5>1. CASE j \in idout
          BY <1>2, <1>3, <2>1, <5>1 DEF IdDead
        <5>2. CASE j = idmem.mgr.key /\ j # 0
          BY <1>2, <1>3, <5>2, IdLimits DEF IdRecord
        <5>3. QED BY <5>1, <5>2, <3>2
      <4>2. QED BY <4>1, <3>2 DEF IdDead
    <3>3. QED BY <1>1, <3>1, <3>2
  <2>4. QED BY <1>1, <1>5, <2>2, <2>3 DEF IdRetired, IdDead, NoRecord, NoToken, Never
<1>9. IdLapsed'
  <2>1. ASSUME NEW j \in idlapsed
        PROVE  /\ j < idnext' /\ j # idmem'.cur /\ idproj' = idproj
               /\ idmem'.mgr.key = j => idmem'.mgr.exp <= idproj'
               /\ \A b \in idmem'.aliases : b.key = j => b.exp <= idproj' \/ idproj' > b.used + IdTtl
    <3>1. /\ j < idnext /\ j # idmem.cur /\ idproj' = idproj /\ j \in Nat \ {0}
          /\ idmem.mgr.key = j => idmem.mgr.exp <= idproj
          /\ \A a \in idmem.aliases : a.key = j => a.exp <= idproj \/ idproj > a.used + IdTtl
      BY <1>1, <1>6, IdLimits DEF IdInv, IdLapsed, IdShape
    <3>2. QED BY <1>1, <1>2, <1>3, <3>1
  <2>2. idlapsed' # {} => idproj' # Unasked
    BY <1>1, <1>6 DEF IdInv, IdLapsed
  <2>3. QED BY <1>1, <1>6, <2>1, <2>2 DEF IdLapsed, Unasked
<1>10. IdFileWorks'
  BY <1>1, <1>3 DEF IdInv, IdFileWorks
<1>11. QED BY <1>7, <1>8, <1>9, <1>10 DEF IdInv

\* Opening the store leaves the credentials whole, whichever write fails.
LEMMA IdOpenStep ==
    ASSUME IdInv, NEW how, IdOpen(how)
    PROVE  IdInv'
<1> DEFINE known == iddisk # NoRecord /\ idfile # Lost /\ idfile = iddisk.cur
           next == IF iddisk = NoRecord THEN Fresh ELSE IF known THEN iddisk ELSE Reminted
<1>1. /\ ~idup /\ (~known => idnext <= IdMaxKey)
      /\ known => how = "ok"
      /\ iddisk' \in {iddisk, next} /\ (how = "ok" => iddisk' = next)
      /\ idfile' \in {idfile, next.cur} /\ (how = "ok" => idfile' = next.cur) /\ idhalf' = Lost
      /\ idup' = (how = "ok") /\ idmem' = IF how = "ok" THEN next ELSE NoRecord
      /\ idnext' = IF known THEN idnext ELSE idnext + 1
      /\ idproj' = Unasked /\ idlapsed' = {}
      /\ UNCHANGED <<idlegacy, idwall, idout>>
  BY DEF IdOpen, Stored
<1>2. idnext \in 2 .. IdMaxKey + 1 /\ (iddisk # NoRecord => IdRecord(iddisk, idnext))
  BY DEF IdInv, IdShape
<1>3. idnext' \in 2 .. IdMaxKey + 1 /\ idnext' \in Nat /\ idnext <= idnext'
  BY <1>1, <1>2, IdLimits
<1>4. IdRecord(next, idnext') /\ (iddisk # NoRecord => IdRecord(iddisk, idnext'))
  <2>1. idnext \in Nat
    BY <1>2, IdLimits
  <2>2. CASE known
    BY <1>1, <1>2, <2>2
  <2>3. CASE ~known
    BY <1>1, <1>2, <2>1, <2>3, IdNewRecords, IdRecordLater DEF IdInv
  <2>4. QED BY <2>2, <2>3
<1>5. next # NoRecord
  BY <1>3, <1>4, IdRecordLater
<1>6. next.cur \in Keys
  BY <1>4 DEF IdRecord
<1>7. IdDead(next, idout)
  <2>1. CASE iddisk = NoRecord
    BY <2>1 DEF IdInv, IdRetired, IdDead
  <2>2. CASE known
    BY <2>2 DEF IdInv, IdRetired
  <2>3. CASE iddisk # NoRecord /\ ~known
    <3>1. next = Reminted /\ IdDead(iddisk, idout) /\ IdRecord(iddisk, idnext) /\ \A j \in idout : j < idnext /\ j \in Nat
      BY <1>2, <2>3, IdLimits DEF IdInv, IdRetired, IdShape
    <3>2. /\ Reminted.cur = idnext /\ Reminted.mgr = iddisk.mgr
          /\ \A a \in Reminted.aliases : a \in iddisk.aliases \/ a.key = iddisk.cur
      BY <3>1 DEF Reminted, IdRecord
    <3> HIDE DEF next
    <3>3. QED BY <1>2, <3>1, <3>2 DEF IdDead
  <2>4. QED BY <2>1, <2>2, <2>3
<1> HIDE DEF next, known
<1>8. idfile' \in 0 .. IdMaxKey /\ idhalf' \in 0 .. IdMaxKey
  BY <1>1, <1>6, IdLimits DEF IdInv, IdShape, Lost
<1>9. IdShape'
  <2>1. IdRecord(iddisk', idnext') \/ iddisk' = NoRecord
    BY <1>1, <1>4
  <2>2. IF idup' THEN IdRecord(idmem', idnext') /\ iddisk' # NoRecord ELSE idmem' = NoRecord
    BY <1>1, <1>4, <1>5
  <2>3. idproj' \in 0 .. Unasked /\ idlapsed' \subseteq Keys /\ idup' \in BOOLEAN
    BY <1>1, IdLimits
  <2>4. QED
    BY <1>1, <1>3, <1>8, <2>1, <2>2, <2>3 DEF IdInv, IdShape, IdRecord, IdSupList, IdSups, IdAliases, Keys, Unasked, Never, NoRecord, NoToken
<1>10. IdRetired'
  <2>1. \A j \in idout : j < idnext'
    BY <1>2, <1>3, IdLimits DEF IdInv, IdRetired, IdShape
  <2>2. IF iddisk' = NoRecord THEN idout = {} ELSE IdDead(iddisk', idout)
    BY <1>1, <1>5, <1>7 DEF IdInv, IdRetired
  <2>3. idup' => IdDead(idmem', idout)
    BY <1>1, <1>7
  <2>4. QED BY <1>1, <2>1, <2>2, <2>3 DEF IdRetired, IdDead, NoRecord, NoToken, Never
<1>11. IdLapsed'
  BY <1>1 DEF IdLapsed, Unasked
<1>12. IdFileWorks'
  BY <1>1 DEF IdFileWorks, Lost
<1>13. QED BY <1>9, <1>10, <1>11, <1>12 DEF IdInv

\* A rotation leaves the credentials whole, whichever write fails and wherever it stops.
LEMMA IdRotateStep ==
    ASSUME IdInv, NEW how, IdRotate(how)
    PROVE  IdInv'
<1> DEFINE gone == {idmem.cur} \cup {a.key : a \in idmem.aliases}
<1>1. /\ idup /\ idnext <= IdMaxKey /\ idnext' = idnext + 1
      /\ iddisk' \in {iddisk, Rotated}
      /\ UNCHANGED <<idlegacy, idwall, idproj, idlapsed>>
      /\ \/ how = "ok" /\ iddisk' = Rotated /\ idfile' = Rotated.cur /\ idmem' = Rotated /\ idup' = TRUE
            /\ idout' = idout \cup gone /\ idhalf' = Lost
         \/ idfile' = idfile /\ idmem' = idmem /\ idup' = TRUE /\ idout' = idout /\ idhalf' = idhalf
         \/ idfile' = Rotated.cur /\ idmem' = idmem /\ idup' = TRUE /\ idout' = idout /\ idhalf' = idnext
         \/ idfile' = idfile /\ idmem' = NoRecord /\ idup' = FALSE /\ idout' = idout /\ idhalf' = Lost
  <2>1. how \in {"ok", "persist", "file", "landed", "crash"} /\ idup
    BY DEF IdRotate
  <2>2. CASE how = "ok"
    BY <2>2 DEF IdRotate, Stored
  <2>3. CASE how \in {"persist", "file"}
    BY <2>3 DEF IdRotate, Stored
  <2>4. CASE how = "crash"
    BY <2>4 DEF IdRotate, Stored
  <2>5. CASE how = "landed"
    BY <2>5 DEF IdRotate, Stored
  <2>6. QED BY <2>1, <2>2, <2>3, <2>4, <2>5
<1>2. /\ IdRecord(idmem, idnext) /\ IdRecord(iddisk, idnext) /\ iddisk # NoRecord
      /\ idnext \in 2 .. IdMaxKey + 1
  BY <1>1 DEF IdInv, IdShape
<1>3. /\ idnext \in Nat \ {0} /\ idnext' \in 2 .. IdMaxKey + 1
  BY <1>1, <1>2, IdLimits
<1>4. /\ IdRecord(idmem, idnext') /\ IdRecord(iddisk, idnext') /\ IdRecord(Rotated, idnext')
      /\ Rotated # NoRecord
  BY <1>1, <1>2, <1>3, IdRecordLater, IdNewRecords DEF IdInv
<1>5. Rotated.cur = idnext /\ Rotated.mgr = idmem.mgr /\ Rotated.aliases = {}
  BY <1>2 DEF Rotated, IdRecord
<1>6. \A j \in gone : j \in Keys /\ j < idnext /\ j # idmem.mgr.key
  BY <1>2 DEF IdRecord, IdAliases
<1>7. IdDead(idmem, idout) /\ IdDead(iddisk, idout) /\ \A j \in idout : j \in Keys /\ j < idnext
  BY <1>1, <1>2 DEF IdInv, IdRetired, IdShape
<1>8. IdDead(Rotated, idout \cup gone)
  <2> HIDE DEF gone
  <2>1. \A j \in idout \cup gone : j \in Nat /\ j < idnext /\ j # idmem.mgr.key
    BY <1>6, <1>7, IdLimits DEF IdDead
  <2>2. QED BY <1>3, <1>5, <2>1 DEF IdDead
<1>9. IdDead(Rotated, idout)
  BY <1>8 DEF IdDead
<1> HIDE DEF gone
<1>10. IdShape'
  <2>1. idout' \subseteq Keys
    BY <1>1, <1>6, <1>7
  <2>2. idfile' \in 0 .. IdMaxKey /\ idhalf' \in 0 .. IdMaxKey
    <3>1. idfile \in 0 .. IdMaxKey /\ idhalf \in 0 .. IdMaxKey /\ idnext \in 0 .. IdMaxKey /\ Lost \in 0 .. IdMaxKey
      BY <1>1, <1>2, IdLimits DEF IdInv, IdShape, Lost
    <3>2. QED BY <1>1, <1>5, <3>1
  <2>3. IdRecord(iddisk', idnext') /\ iddisk' # NoRecord
    BY <1>1, <1>2, <1>4
  <2>4. /\ IF idup' THEN IdRecord(idmem', idnext') ELSE idmem' = NoRecord
        /\ idup' \in BOOLEAN
    BY <1>1, <1>4
  <2>5. QED
    BY <1>1, <1>3, <2>1, <2>2, <2>3, <2>4 DEF IdInv, IdShape, IdRecord, IdSupList, IdSups, IdAliases, Keys, Unasked, Never, NoRecord, NoToken
<1>11. IdRetired'
  <2>1. \A j \in idout' : j < idnext'
    BY <1>1, <1>3, <1>6, <1>7, IdLimits
  <2>2. iddisk' # NoRecord /\ IdDead(iddisk', idout')
    BY <1>1, <1>2, <1>4, <1>7, <1>8, <1>9
  <2>3. idup' => IdDead(idmem', idout')
    BY <1>1, <1>7, <1>8
  <2>4. QED BY <2>1, <2>2, <2>3 DEF IdRetired, IdDead, NoRecord, NoToken, Never
<1>12. IdLapsed'
  <2>1. /\ idproj # Unasked => idwall <= idproj
        /\ idlapsed # {} => idproj # Unasked
        /\ \A k \in idlapsed :
              /\ k < idnext /\ k # idmem.cur /\ k \in Nat
              /\ idmem.mgr.key = k => idmem.mgr.exp <= idproj
              /\ \A a \in idmem.aliases : a.key = k => a.exp <= idproj \/ idproj > a.used + IdTtl
    BY <1>1, IdLimits DEF IdInv, IdLapsed, IdShape
  <2>2. CASE idmem' = Rotated
    BY <1>1, <1>3, <1>5, <2>1, <2>2 DEF IdLapsed, Unasked
  <2>3. CASE idmem' = idmem
    BY <1>1, <1>3, <2>1, <2>3 DEF IdLapsed, Unasked
  <2>4. CASE idup' = FALSE
    BY <2>4 DEF IdLapsed
  <2>5. QED BY <1>1, <2>2, <2>3, <2>4
<1>13. IdFileWorks'
  BY <1>1, <1>5 DEF IdInv, IdFileWorks, Lost
<1>14. QED BY <1>10, <1>11, <1>12, <1>13 DEF IdInv

\* The world around leaves the credentials whole: time, a clock set back, a stop, a lost
\* token file.
LEMMA IdWorldStep ==
    ASSUME IdInv, IdTick \/ IdSetBack \/ IdStop \/ IdLose
    PROVE  IdInv'
<1> USE DEF IdRecord, IdSupList, IdSups, IdAliases, Keys, Unasked, Never, NoRecord, NoToken
<1>1. CASE IdTick
  <2>1. /\ idwall < IdMaxTime /\ idwall' = idwall + 1
        /\ idproj' = IF idproj = Unasked \/ ~idup \/ idproj >= IdMaxTime THEN idproj ELSE idproj + 1
        /\ UNCHANGED <<idup, idmem, iddisk, idfile, idhalf, idlegacy, idnext, idout, idlapsed>>
    BY <1>1 DEF IdTick
  <2>2. idwall' \in 0 .. IdMaxTime /\ idproj' \in 0 .. Unasked
    BY <2>1, IdLimits DEF IdInv, IdShape
  <2>3. IdShape' /\ IdRetired' /\ IdFileWorks'
    BY <2>1, <2>2 DEF IdInv, IdShape, IdRetired, IdDead, IdFileWorks
  <2>4. IdLapsed'
    <3> SUFFICES ASSUME idup PROVE IdLapsed'
      BY <2>1 DEF IdLapsed
    <3>1. /\ idproj # Unasked => idproj' # Unasked /\ idwall' <= idproj' /\ idproj <= idproj'
          /\ idproj = Unasked => idproj' = Unasked
      BY <2>1, IdLimits DEF IdInv, IdShape, IdLapsed
    <3>2. \A a \in idmem.aliases : a.exp \in Nat /\ a.used \in Nat
      BY IdLimits DEF IdInv, IdShape
    <3>3. idmem.mgr.exp \in Nat /\ idproj \in Nat /\ idproj' \in Nat
      BY <2>2, IdLimits DEF IdInv, IdShape
    <3>4. ASSUME NEW k \in idlapsed
          PROVE  /\ k < idnext /\ k # idmem.cur
                 /\ idmem.mgr.key = k => idmem.mgr.exp <= idproj'
                 /\ \A a \in idmem.aliases : a.key = k => a.exp <= idproj' \/ idproj' > a.used + IdTtl
      <4>1. /\ k < idnext /\ k # idmem.cur /\ idproj # Unasked
            /\ idmem.mgr.key = k => idmem.mgr.exp <= idproj
            /\ \A a \in idmem.aliases : a.key = k => a.exp <= idproj \/ idproj > a.used + IdTtl
        BY DEF IdInv, IdLapsed
      <4>2. QED BY <3>1, <3>2, <3>3, <4>1, IdLimits
    <3>5. QED BY <2>1, <3>1, <3>4 DEF IdInv, IdLapsed
  <2>5. QED BY <2>3, <2>4 DEF IdInv
<1>2. CASE IdSetBack
  <2>1. /\ idwall > 0 /\ idwall' = idwall - 1
        /\ UNCHANGED <<idup, idmem, iddisk, idfile, idhalf, idlegacy, idproj, idnext, idout, idlapsed>>
    BY <1>2 DEF IdSetBack
  <2>2. idwall' \in 0 .. IdMaxTime /\ idwall' <= idwall
    BY <2>1, IdLimits DEF IdInv, IdShape
  <2>3. IdShape' /\ IdRetired' /\ IdFileWorks'
    BY <2>1, <2>2 DEF IdInv, IdShape, IdRetired, IdDead, IdFileWorks
  <2>4. idup /\ idproj # Unasked => idwall' <= idproj
    BY <2>2, IdLimits DEF IdInv, IdShape, IdLapsed
  <2>5. IdLapsed'
    BY <2>1, <2>4 DEF IdInv, IdLapsed
  <2>6. QED BY <2>3, <2>5 DEF IdInv
<1>3. CASE IdStop
  <2>1. idproj' \in 0 .. Unasked /\ idlapsed' \subseteq Keys
    BY <1>3, IdLimits DEF IdStop
  <2>2. IdShape'
    BY <1>3, <2>1 DEF IdStop, IdInv, IdShape
  <2>3. QED BY <1>3, <2>2 DEF IdStop, IdInv, IdRetired, IdDead, IdLapsed, IdFileWorks
<1>4. CASE IdLose
  <2>1. idfile' \in 0 .. IdMaxKey /\ idfile' = Lost
    BY <1>4, IdLimits DEF IdLose, Lost
  <2>2. IdShape'
    BY <1>4, <2>1 DEF IdLose, IdInv, IdShape
  <2>3. QED BY <1>4, <2>1, <2>2 DEF IdLose, IdInv, IdRetired, IdDead, IdLapsed, IdFileWorks
<1>5. QED BY <1>1, <1>2, <1>3, <1>4

\* identity.rs: through rotations, failed writes, stops, lost files and a clock set back,
\* the retired and the expired keys stay so, and the token file holds the key in force,
\* or the one a rotation left there when it reported failure.
THEOREM IdentityHolds == IdSpec => []IdentitySound
<1>1. IdInv /\ [IdNext]_idVars => IdInv'
  <2> SUFFICES ASSUME IdInv, [IdNext]_idVars PROVE IdInv'
    OBVIOUS
  <2>1. ASSUME NEW k \in Keys, NEW saved \in BOOLEAN, IdVerify(k, saved) PROVE IdInv'
    BY <2>1, IdVerifyStep
  <2>2. ASSUME NEW k \in Keys, IdVerifyManage(k) PROVE IdInv'
    BY <2>2, IdVerifyManageStep
  <2>3. ASSUME NEW saved \in BOOLEAN, IdTouch(saved) PROVE IdInv'
    BY <2>3, IdTouchStep
  <2>4. ASSUME NEW how, IdOpen(how) PROVE IdInv'
    BY <2>4, IdOpenStep
  <2>5. ASSUME NEW how, IdRotate(how) PROVE IdInv'
    BY <2>5, IdRotateStep
  <2>6. ASSUME NEW held \in 0 .. IdMaxKey, NEW ttl \in 0 .. 1, NEW how, IdIssueManage(held, ttl, how) PROVE IdInv'
    <3> DEFINE next == [key |-> idnext, exp |-> IF ttl = 0 THEN Never ELSE idwall + ttl]
    <3>1. idnext <= IdMaxKey /\ idnext' = idnext + 1 /\ IdManage(held, next, how)
      BY <2>6 DEF IdIssueManage
    <3>2. next.key = idnext /\ next \in [key : 0 .. IdMaxKey, exp : 0 .. Never]
      <4>1. idnext \in 0 .. IdMaxKey /\ idwall \in 0 .. IdMaxTime
        BY <3>1, IdLimits DEF IdInv, IdShape
      <4>2. (IF ttl = 0 THEN Never ELSE idwall + ttl) \in 0 .. Never
        BY <4>1, IdLimits
      <4>3. QED BY <4>1, <4>2
    <3> HIDE DEF next
    <3>3. QED BY <3>1, <3>2, IdManageStep
  <2>7. ASSUME NEW held \in 0 .. IdMaxKey, NEW how, IdRevokeManage(held, how) PROVE IdInv'
    <3>1. idnext' = idnext /\ IdManage(held, NoToken, how)
      BY <2>7 DEF IdRevokeManage
    <3>2. NoToken.key = 0 /\ NoToken \in [key : 0 .. IdMaxKey, exp : 0 .. Never]
      BY IdLimits DEF NoToken
    <3>3. QED BY <3>1, <3>2, IdManageStep
  <2>8. CASE IdTick \/ IdSetBack \/ IdStop \/ IdLose
    BY <2>8, IdWorldStep
  <2>9. CASE UNCHANGED idVars
    BY <2>9 DEF idVars, IdInv, IdShape, IdRetired, IdDead, IdLapsed, IdFileWorks, IdRecord, IdSupList,
       IdSups, IdAliases, Keys, Unasked, Never, NoRecord, NoToken
  <2>10. QED BY <2>1, <2>2, <2>3, <2>4, <2>5, <2>6, <2>7, <2>8, <2>9 DEF IdNext
<1>2. QED BY <1>1, IdInitInv, IdInvMeans, PTL DEF IdSpec

-----------------------------------------------------------------------------
(* Access: the access table.                                               *)

AccEntry == {NoEntry} \cup [Fields -> BOOLEAN]
AccEnts == [AccConns -> AccEntry]

\* The type of each variable.
AccShape ==
    /\ acat \subseteq AccConns /\ aoff \subseteq AccConns
    /\ atab \in [gen : 0 .. AccMaxGen, ents : AccEnts]
    /\ agen \in 0 .. AccMaxGen
    /\ afile \in [kind : {"none", "wirings", "rules", "current"}, gen : 0 .. AccMaxGen,
                  ents : AccEnts, wired : SUBSET AccConns]
    /\ aop \in [kind : {"idle", "file", "index"}, next : AccEnts, off : SUBSET AccConns]
    /\ aup \in {"down", "opening", "up"}

\* The file is of the index's generation or one ahead of it, and while the index
\* is to be written it is one ahead and holds what the operation is for.
AccGens ==
    /\ aup # "down" => atab.gen = agen
    /\ afile.kind # "current" => agen = 0
    /\ afile.kind = "current" => afile.gen \in {agen, agen + 1}
    /\ aop.kind = "index" => /\ afile.kind = "current" /\ afile.gen = agen + 1
                             /\ afile.ents = aop.next
    /\ aop.kind # "idle" <=> aop # AccIdle
    /\ aup = "opening" => aop.kind # "idle"
    /\ aup = "down" => aop.kind = "idle"
    /\ aup = "up" => afile.kind \in {"none", "current"}

\* What must be off is off in these entries.
AccOff(ents) == \A c \in aoff \cap acat : ~Allows(ents, c)

\* It is off in the file from which the next process starts, in the table, and in
\* what is about to replace either.
AccClosed ==
    /\ afile.kind = "none" => aoff = {}
    /\ afile.kind \in {"wirings", "rules"} => aoff \cap afile.wired = {}
    /\ afile.kind = "current" => AccOff(afile.ents)
    /\ aup = "up" => AccOff(atab.ents)
    /\ aop.kind # "idle" => /\ AccOff(aop.next)
                            /\ \A c \in aop.off \cap acat : ~Allows(aop.next, c)

\* The two tables differ in that value at most.
AccOnly(cat, c, f, one, other) ==
    \A d \in cat, g \in Fields :
        Effective(one, d)[g] # Effective(other, d)[g] => d = c /\ g = f

\* What an operation of a running broker would change.
AccNear ==
    aop.kind # "idle" /\ aup = "up" =>
        \E c \in AccConns, f \in Fields : AccOnly(acat, c, f, atab.ents, aop.next)

\* The inductive invariant of the access table.
AccInv == AccShape /\ AccGens /\ AccClosed /\ AccNear

\* Entries are told from their absence, and the empty table is a table.
LEMMA AccEntries ==
    /\ \A e \in [Fields -> BOOLEAN] : e # NoEntry
    /\ DefaultEntry \in [Fields -> BOOLEAN] /\ DefaultEntry["on"] = TRUE
    /\ NoEntries \in AccEnts /\ NoEntry \in AccEntry
    /\ AccIdle \in [kind : {"idle", "file", "index"}, next : AccEnts, off : SUBSET AccConns]
    /\ AccIdle.kind = "idle"
<1>1. \A e \in [Fields -> BOOLEAN] : e # NoEntry
  <2> SUFFICES ASSUME NEW e \in [Fields -> BOOLEAN] PROVE e # NoEntry
    OBVIOUS
  <2>1. DOMAIN e = Fields /\ DOMAIN NoEntry = {} /\ "on" \in Fields
    BY DEF NoEntry, Fields
  <2> QED BY <2>1
<1>2. DefaultEntry \in [Fields -> BOOLEAN] /\ DefaultEntry["on"] = TRUE
  <2>1. \A f \in Fields : (f \in {"on", "expose"}) \in BOOLEAN
    OBVIOUS
  <2>2. DefaultEntry \in [Fields -> BOOLEAN]
    BY <2>1, Zenon DEF DefaultEntry
  <2>3. "on" \in Fields /\ ("on" \in {"on", "expose"}) = TRUE
    BY DEF Fields
  <2>4. DefaultEntry["on"] = ("on" \in {"on", "expose"})
    BY <2>3, Zenon DEF DefaultEntry
  <2> QED BY <2>2, <2>3, <2>4
<1>3. NoEntry \in AccEntry
  BY DEF AccEntry
<1>4. NoEntries \in AccEnts
  BY <1>3 DEF NoEntries, AccEnts
<1> QED BY <1>1, <1>2, <1>3, <1>4 DEF AccIdle

LEMMA AccInitInv == AccInit => AccInv
<1> SUFFICES ASSUME AccInit PROVE AccInv
  OBVIOUS
<1>1. PICK kind \in {"none", "wirings", "rules"}, wired \in SUBSET AccConns :
          /\ kind = "none" => wired = {}
          /\ afile = [kind |-> kind, gen |-> 0, ents |-> NoEntries, wired |-> wired]
          /\ aoff = IF kind = "none" THEN {} ELSE AccConns \ wired
  BY DEF AccInit
<1>2. AccShape
  BY <1>1, AccEntries, AccAssumption DEF AccInit, AccShape
<1>3. AccGens
  BY <1>1, AccEntries DEF AccInit, AccGens
<1>4. AccClosed
  BY <1>1, AccEntries DEF AccInit, AccClosed
<1>5. AccNear
  BY AccEntries DEF AccInit, AccNear
<1> QED BY <1>2, <1>3, <1>4, <1>5 DEF AccInv

LEMMA AccOpenKeeps == AccInv /\ AccOpen => AccInv'
<1> SUFFICES ASSUME AccInv, AccOpen PROVE AccInv'
  OBVIOUS
<1> USE DEF AccInv, AccShape
<1>1. CASE afile.kind = "current"
  <2>1. /\ agen' = afile.gen /\ atab' = [gen |-> afile.gen, ents |-> afile.ents]
        /\ aup' = "up" /\ aop' = AccIdle /\ UNCHANGED <<acat, afile, aoff>>
    BY <1>1 DEF AccOpen
  <2>2. AccShape'
    BY <2>1, AccEntries
  <2>3. AccGens'
    BY <1>1, <2>1, AccEntries, AccAssumption DEF AccGens
  <2>4. AccClosed' /\ AccNear'
    BY <1>1, <2>1, AccEntries DEF AccClosed, AccOff, AccNear
  <2> QED BY <2>2, <2>3, <2>4
<1>2. CASE afile.kind = "none"
  <2>1. /\ agen' = agen /\ atab' = [gen |-> 0, ents |-> NoEntries]
        /\ aup' = "up" /\ aop' = AccIdle /\ UNCHANGED <<acat, afile, aoff>>
    BY <1>2 DEF AccOpen
  <2>2. AccShape'
    BY <2>1, AccEntries, AccAssumption
  <2>3. AccGens'
    BY <1>2, <2>1, AccEntries, AccAssumption DEF AccGens
  <2>4. AccClosed' /\ AccNear'
    BY <1>2, <2>1, AccEntries DEF AccClosed, AccOff, AccNear
  <2> QED BY <2>2, <2>3, <2>4
<1>3. CASE afile.kind \in {"wirings", "rules"}
  <2> DEFINE ents == Migrate(afile, acat)
  <2>1. /\ agen' = agen /\ atab' = [gen |-> 0, ents |-> NoEntries]
        /\ aup' = "opening" /\ aop' = [kind |-> "file", next |-> ents, off |-> {}]
        /\ UNCHANGED <<acat, afile, aoff>>
    BY <1>3 DEF AccOpen
  <2>2. ents \in AccEnts /\ \A c \in acat : Allows(ents, c) <=> c \in afile.wired
    <3>1. \A c \in acat : /\ ents[c] \in [Fields -> BOOLEAN]
                          /\ ents[c]["on"] = (c \in afile.wired)
      <4> SUFFICES ASSUME NEW c \in acat
                   PROVE  ents[c] \in [Fields -> BOOLEAN] /\ ents[c]["on"] = (c \in afile.wired)
        OBVIOUS
      <4>1. ents[c] = [DefaultEntry EXCEPT !["on"] = (c \in afile.wired), !["expose"] = FALSE]
        BY DEF Migrate
      <4> DEFINE half == [DefaultEntry EXCEPT !["on"] = (c \in afile.wired)]
      <4>3. half \in [Fields -> BOOLEAN] /\ half["on"] = (c \in afile.wired)
        BY AccEntries DEF Fields
      <4>4. ents[c] = [half EXCEPT !["expose"] = FALSE]
        BY <4>1
      <4> HIDE DEF half, ents
      <4>2. (c \in afile.wired) \in BOOLEAN /\ {"on", "expose"} \subseteq Fields
        BY DEF Fields
      <4> QED BY <4>2, <4>3, <4>4
    <3>2. \A c \in AccConns \ acat : ents[c] = NoEntry
      BY DEF Migrate
    <3>3. ents \in AccEnts
      BY <3>1, <3>2 DEF AccEnts, AccEntry, Migrate
    <3> QED BY <3>1, <3>3, AccEntries DEF Allows, Effective
  <2> HIDE DEF ents
  <2>3. AccShape'
    BY <2>1, <2>2, AccEntries, AccAssumption
  <2>4. AccGens'
    BY <1>3, <2>1, AccEntries, AccAssumption DEF AccGens
  <2>5. AccClosed'
    BY <1>3, <2>1, <2>2 DEF AccClosed, AccOff
  <2>6. AccNear'
    BY <2>1 DEF AccNear
  <2> QED BY <2>3, <2>4, <2>5, <2>6
<1> QED BY <1>1, <1>2, <1>3

LEMMA AccWriteFileKeeps == AccInv /\ AccWriteFile => AccInv'
<1> SUFFICES ASSUME AccInv, AccWriteFile PROVE AccInv'
  OBVIOUS
<1> USE DEF AccInv, AccShape
<1>1. ASSUME afile' = [kind |-> "current", gen |-> atab.gen + 1, ents |-> aop.next, wired |-> {}],
             aop' = [aop EXCEPT !.kind = "index"], UNCHANGED aup
      PROVE AccInv'
  <2>1. /\ aop.kind = "file" /\ atab.gen < AccMaxGen /\ UNCHANGED <<acat, atab, agen, aoff>>
        /\ aop'.kind = "index" /\ aop'.next = aop.next /\ aop'.off = aop.off
    BY <1>1 DEF AccWriteFile
  <2>2. AccShape'
    BY <1>1, <2>1, AccAssumption
  <2>3. AccGens'
    BY <1>1, <2>1, AccEntries, AccAssumption DEF AccGens
  <2>4. AccClosed'
    BY <1>1, <2>1 DEF AccClosed, AccOff
  <2>5. AccNear'
    BY <1>1, <2>1 DEF AccNear, AccOnly
  <2> QED BY <2>2, <2>3, <2>4, <2>5
<1>2. ASSUME AccEnd(FALSE), UNCHANGED afile PROVE AccInv'
  <2>1. /\ aop.kind = "file" /\ UNCHANGED <<acat, atab, agen, aoff>>
        /\ aop' = AccIdle /\ aup' = IF aup = "opening" THEN "down" ELSE aup
    BY <1>2 DEF AccWriteFile, AccEnd
  <2>2. AccShape'
    BY <1>2, <2>1, AccEntries
  <2>3. AccGens'
    BY <1>2, <2>1, AccEntries DEF AccGens
  <2>4. AccClosed' /\ AccNear'
    BY <1>2, <2>1, AccEntries DEF AccClosed, AccOff, AccNear
  <2> QED BY <2>2, <2>3, <2>4
<1> QED BY <1>1, <1>2 DEF AccWriteFile

LEMMA AccWriteIndexKeeps == AccInv /\ AccWriteIndex => AccInv'
<1> SUFFICES ASSUME AccInv, AccWriteIndex PROVE AccInv'
  OBVIOUS
<1> USE DEF AccInv, AccShape
<1>1. ASSUME agen' = agen + 1, atab' = [gen |-> agen', ents |-> aop.next],
             aoff' = aoff \cup aop.off, AccEnd(TRUE)
      PROVE AccInv'
  <2>1. /\ aop.kind = "index" /\ UNCHANGED <<acat, afile>>
        /\ aop' = AccIdle /\ aup' = IF aup = "opening" THEN "up" ELSE aup
    BY <1>1 DEF AccWriteIndex, AccEnd
  <2>2. afile.kind = "current" /\ afile.gen = agen + 1 /\ afile.ents = aop.next
    BY <2>1 DEF AccGens
  <2>3. AccShape'
    BY <1>1, <2>1, <2>2, AccEntries, AccAssumption
  <2>4. AccGens'
    BY <1>1, <2>1, <2>2, AccEntries, AccAssumption DEF AccGens
  <2>5. AccClosed' /\ AccNear'
    BY <1>1, <2>1, <2>2, AccEntries DEF AccClosed, AccOff, AccNear
  <2> QED BY <2>3, <2>4, <2>5
<1>2. ASSUME AccEnd(FALSE), UNCHANGED <<agen, atab, aoff>> PROVE AccInv'
  <2>1. /\ aop.kind = "index" /\ UNCHANGED <<acat, afile>>
        /\ aop' = AccIdle /\ aup' = IF aup = "opening" THEN "down" ELSE aup
    BY <1>2 DEF AccWriteIndex, AccEnd
  <2>2. AccShape'
    BY <1>2, <2>1, AccEntries
  <2>3. AccGens'
    BY <1>2, <2>1, AccEntries DEF AccGens
  <2>4. AccClosed' /\ AccNear'
    BY <1>2, <2>1, AccEntries DEF AccClosed, AccOff, AccNear
  <2> QED BY <2>2, <2>3, <2>4
<1> QED BY <1>1, <1>2 DEF AccWriteIndex

\* A setter's new entry has the value and, for every other field, what was effective.
LEMMA AccSetKeeps ==
    ASSUME NEW c \in AccConns, NEW f \in Fields, NEW v \in BOOLEAN, AccInv,
           SetField(c, f, v, [DefaultEntry EXCEPT ![f] = v])
    PROVE  AccInv'
<1> USE DEF AccInv, AccShape
<1> DEFINE newborn == [DefaultEntry EXCEPT ![f] = v]
           old == atab.ents[c]
           new == IF old = NoEntry THEN newborn ELSE [old EXCEPT ![f] = v]
           next == [atab.ents EXCEPT ![c] = new]
           off == IF f = "on" /\ ~v THEN {c} ELSE {}
<1>1. /\ aup = "up" /\ aop = AccIdle /\ c \in acat
      /\ aop' = [kind |-> "file", next |-> next, off |-> off]
      /\ aoff' = IF f = "on" /\ v THEN aoff \ {c} ELSE aoff
      /\ UNCHANGED <<acat, atab, afile, agen, aup>>
  BY DEF SetField
<1>2. old \in AccEntry /\ atab.ents \in AccEnts
  BY DEF AccEnts
<1>3. /\ new \in [Fields -> BOOLEAN] /\ new[f] = v
      /\ \A g \in Fields : g # f => new[g] = Effective(atab.ents, c)[g]
  <2>1. CASE old = NoEntry
    <3>1. newborn \in [Fields -> BOOLEAN] /\ newborn[f] = v
          /\ \A g \in Fields : g # f => newborn[g] = DefaultEntry[g]
      BY AccEntries
    <3> QED BY <2>1, <3>1 DEF Effective
  <2>2. CASE old # NoEntry
    <3>1. old \in [Fields -> BOOLEAN]
      BY <1>2, <2>2 DEF AccEntry
    <3> QED BY <2>2, <3>1 DEF Effective
  <2> QED BY <2>1, <2>2
<1> HIDE DEF new
<1>4. /\ next \in AccEnts /\ next[c] = new
      /\ \A d \in AccConns : d # c => next[d] = atab.ents[d]
  BY <1>2, <1>3 DEF AccEnts, AccEntry
<1> HIDE DEF next
<1>5. Effective(next, c) = new /\ \A d \in AccConns : d # c => Effective(next, d) = Effective(atab.ents, d)
  BY <1>3, <1>4, AccEntries DEF Effective
<1>6. \A d \in acat : Allows(next, d) => Allows(atab.ents, d) \/ (d = c /\ f = "on" /\ v)
  BY <1>3, <1>5 DEF Allows, Fields
<1>7. off \subseteq {c} /\ (off # {} => f = "on" /\ ~v)
  OBVIOUS
<1> HIDE DEF off
<1>8. aop'.kind = "file" /\ aop'.next = next /\ aop'.off = off
  BY <1>1
<1>9. AccShape'
  BY <1>1, <1>4, <1>7
<1>10. AccGens'
  BY <1>1, <1>8, AccEntries DEF AccGens
<1>11. AccClosed'
  <2>1. \A d \in aoff' \cap acat' : ~Allows(next, d)
    BY <1>1, <1>6 DEF AccClosed, AccOff
  <2>2. \A d \in off \cap acat : ~Allows(next, d)
    BY <1>3, <1>5, <1>7 DEF Allows
  <2> QED BY <1>1, <1>8, <2>1, <2>2 DEF AccClosed, AccOff
<1>12. AccNear'
  <2>1. AccOnly(acat, c, f, atab.ents, next)
    BY <1>3, <1>5 DEF AccOnly
  <2> QED BY <1>1, <1>8, <2>1 DEF AccNear, AccOnly
<1> QED BY <1>9, <1>10, <1>11, <1>12

LEMMA AccDeleteKeeps == ASSUME NEW c \in AccConns, AccInv, AccDelete(c) PROVE AccInv'
<1> USE DEF AccInv, AccShape
<1>1. /\ aup = "up" /\ aop = AccIdle /\ c \in acat /\ acat' = acat \ {c}
      /\ UNCHANGED <<atab, afile, agen, aup, aoff>>
  BY DEF AccDelete
<1>2. CASE atab.ents[c] = NoEntry
  <2>1. aop' = AccIdle
    BY <1>2 DEF AccDelete
  <2> QED BY <1>1, <2>1, AccEntries DEF AccGens, AccClosed, AccOff, AccNear
<1>3. CASE atab.ents[c] # NoEntry
  <2> DEFINE next == [atab.ents EXCEPT ![c] = NoEntry]
  <2>1. aop' = [kind |-> "file", next |-> next, off |-> {}]
    BY <1>3 DEF AccDelete
  <2>2. next \in AccEnts /\ \A d \in AccConns : d # c => next[d] = atab.ents[d]
    BY AccEntries DEF AccEnts
  <2> HIDE DEF next
  <2>3. \A d \in acat' : Effective(next, d) = Effective(atab.ents, d)
    BY <1>1, <2>2 DEF Effective
  <2>4. AccShape' /\ AccGens'
    BY <1>1, <2>1, <2>2, AccEntries DEF AccGens
  <2>5. AccClosed'
    BY <1>1, <2>1, <2>3 DEF AccClosed, AccOff, Allows
  <2>6. AccNear'
    <3>1. AccOnly(acat', c, "on", atab'.ents, next) /\ "on" \in Fields
      BY <1>1, <2>3 DEF AccOnly, Fields
    <3> QED BY <1>1, <2>1, <3>1 DEF AccNear
  <2> QED BY <2>4, <2>5, <2>6
<1> QED BY <1>2, <1>3

LEMMA AccStep == AccInv /\ [AccNext]_accVars => AccInv'
<1> SUFFICES ASSUME AccInv, [AccNext]_accVars PROVE AccInv'
  OBVIOUS
<1>1. ASSUME AccCrash PROVE AccInv'
  BY <1>1, AccEntries, AccAssumption DEF AccCrash, AccInv, AccShape, AccGens, AccClosed, AccOff, AccNear
<1>2. ASSUME NEW c \in AccConns, NEW v \in BOOLEAN, AccSet(c, v) PROVE AccInv'
  BY <1>2, AccSetKeeps DEF AccSet, SetEnabled, SetAllowedTools, SetConfirmMode, SetExposeResponseCredentials,
     SetAuditStatements, Fields
<1>3. CASE UNCHANGED accVars
  BY <1>3 DEF accVars, AccInv, AccShape, AccGens, AccClosed, AccOff, AccNear, AccOnly
<1> QED BY <1>1, <1>2, <1>3, AccOpenKeeps, AccWriteFileKeeps, AccWriteIndexKeeps, AccDeleteKeeps DEF AccNext

LEMMA AccAlways == AccSpec => []AccInv
  BY AccInitInv, AccStep, PTL DEF AccSpec

\* Whatever write fails and wherever the process dies, the next start accepts the
\* pair it finds, and what was turned off is off (AccessTable::persist, open).
THEOREM AccessHolds == AccSpec => []AccessSound
<1>1. AccInv => AccessSound
  <2> SUFFICES ASSUME AccInv PROVE AccessSound
    OBVIOUS
  <2>1. \A ents \in {atab.ents, afile.ents, aop.next} : \A c \in AccConns :
            ents[c] = NoEntry \/ DOMAIN ents[c] = Fields
    BY DEF AccInv, AccShape, AccEnts, AccEntry
  <2>2. AccTypeOK
    BY <2>1 DEF AccInv, AccShape, AccTypeOK
  <2>3. AccAlwaysOpens
    BY DEF AccInv, AccShape, AccGens, AccAlwaysOpens, OpenAccepts
  <2> QED BY <2>2, <2>3 DEF AccInv, AccClosed, AccOff, AccessSound, AccOffStaysOff
<1> QED BY <1>1, AccAlways, PTL

\* A setter changes the one value it is for (SetField's fresh entries).
THEOREM AccessOneValue == AccSpec => AccOneValue
<1> DEFINE Changed == {v \in acat' \X Fields :
                          Effective(atab.ents, v[1])[v[2]] # Effective(atab'.ents, v[1])[v[2]]}
<1>1. AccInv /\ [AccNext]_accVars => [aup = "up" /\ aup' = "up" => Cardinality(Changed) <= 1]_accVars
  <2> SUFFICES ASSUME AccInv, [AccNext]_accVars, aup = "up", aup' = "up" PROVE Cardinality(Changed) <= 1
    OBVIOUS
  <2>1. atab' = atab => Changed = {}
    OBVIOUS
  <2>2. ASSUME atab' # atab PROVE \E p : Changed \subseteq {p}
    <3>0. /\ ~AccOpen /\ ~AccWriteFile /\ ~AccCrash /\ ~UNCHANGED accVars
          /\ \A c \in AccConns : ~AccDelete(c)
      BY <2>2 DEF AccOpen, AccWriteFile, AccCrash, AccDelete, accVars
    <3>a. \A c \in AccConns, v \in BOOLEAN : ~AccSet(c, v)
      BY <2>2 DEF AccSet, SetField, SetEnabled, SetAllowedTools, SetConfirmMode, SetExposeResponseCredentials,
         SetAuditStatements
    <3>b. AccWriteIndex
      BY <3>0, <3>a DEF AccNext
    <3>1. AccWriteIndex /\ atab'.ents = aop.next /\ acat' = acat /\ aop.kind # "idle"
      <4>1. atab' = [gen |-> agen', ents |-> aop.next] /\ acat' = acat /\ aop.kind = "index"
        BY <2>2, <3>b DEF AccWriteIndex
      <4> QED BY <3>b, <4>1
    <3>2. PICK c \in AccConns, f \in Fields : AccOnly(acat, c, f, atab.ents, aop.next)
      BY <3>1 DEF AccInv, AccNear
    <3>3. Changed \subseteq {<<c, f>>}
      BY <3>1, <3>2 DEF AccOnly
    <3> QED BY <3>3
  <2> HIDE DEF Changed
  <2>3. PICK p : Changed \subseteq {p}
    BY <2>1, <2>2
  <2>4. IsFiniteSet({p}) /\ Cardinality({p}) = 1
    BY FS_Singleton
  <2> QED BY <2>3, <2>4, FS_Subset
<1> QED BY <1>1, AccAlways, PTL DEF AccSpec, AccOneValue

----------------------------------------------------------------------------
(* The catalog of a workspace (Catalog)                                    *)

\* The records of an index and of a plan.
IxNames == CatNames \cup {NoSecret.name}
IxSecs == [name : IxNames, source : {"none", "local", "op"},
           totp : 0..CatItems]
IxCons == [kind : CatKinds \cup {"none"}, refs : SUBSET CatNames, bound : SUBSET Ids,
           ver : 0..CatMaxVer, grant : 0..CatItems, pin : 0..1]
IxType == [sec : [Ids -> IxSecs], con : [CatConns -> IxCons],
           intg : {"none", "token", "desktop"}]
Stricts == {"none", "set", "attrs", "del", "purge"}
PlanType == [phase : {"stage", "index", "strict", "tidy"}, next : IxType,
             stage : SUBSET (1..Token), undo : SUBSET (1..Token),
             strict : Stricts, item : 0..Token,
             tidy : SUBSET (0..CatItems)]

\* A name belongs to one secret.
IxNamed(ix) ==
    \A i \in Ids : Secret(ix.sec[i]) =>
        /\ ix.sec[i].name \in CatNames
        /\ \A j \in Ids : Secret(ix.sec[j]) /\ ix.sec[j].name = ix.sec[i].name => j = i

\* A vault item has one use: a value, a second factor or a grant.
IxApart(ix) ==
    /\ \A i \in Ids : ix.sec[i].totp # 0 =>
          /\ ix.sec[ix.sec[i].totp].source # "local"
          /\ \A j \in Ids : ix.sec[j].totp = ix.sec[i].totp => j = i
          /\ \A c \in CatConns : ix.con[c].grant # ix.sec[i].totp
    /\ \A c \in CatConns : ix.con[c].grant # 0 =>
          /\ ix.sec[ix.con[c].grant].source # "local"
          /\ \A d \in CatConns : ix.con[d].grant = ix.con[c].grant => d = c

\* Every id in use was handed out.
IxBelow(ix, f, b) ==
    /\ \A i \in Ids : (Secret(ix.sec[i]) => i <= f) /\ ix.sec[i].totp <= f
    /\ \A c \in CatConns : /\ ix.con[c].grant <= f
                           /\ Con(ix.con[c]) => c \in b
                           /\ ix.con[c].pin # 0 => Con(ix.con[c])
    /\ ix.intg = "token" => Linked \in b

IxResolves(ix) ==
    \A c \in CatConns :
        /\ \A i \in ix.con[c].bound : Secret(ix.sec[i])
        /\ ix.con[c].kind = "api" =>
              /\ IdsNamed(ix, ix.con[c].refs) = ix.con[c].bound
              /\ ix.con[c].refs \subseteq NamesOf(ix)

IxOK(ix, f, b) ==
    /\ ix \in IxType
    /\ IxNamed(ix) /\ IxApart(ix) /\ IxBelow(ix, f, b) /\ IxResolves(ix)

\* A host key of m is dropped by n only where the editor had seen it.
PinsKept(m, n, sn) ==
    \A c \in CatConns :
        m.con[c].pin = 1 /\ Con(n.con[c]) /\ n.con[c].pin = 0 => sn[c].pin = 1

\* What a plan p owes its two stores at each of its steps.
PlanOK(p, m, d, v, f, b, sn) ==
    /\ p \in PlanType /\ IxOK(p.next, f, b)
    /\ p.undo \subseteq p.stage
    /\ p.strict # "none" => p.stage = {}
    /\ p.strict \in {"del", "purge"} => p.item # 0 /\ p.item \notin Relied(p.next)
    /\ p.tidy \cap Relied(p.next) \subseteq {0}
    /\ p.phase \in {"stage", "index"} => p.undo \cap (Relied(m) \cup Relied(d)) = {}
    /\ p.phase # "tidy" => Relied(p.next) \subseteq Relied(m) \cup p.stage \cup {0}
    /\ p.phase = "index" => p.stage \subseteq v
    /\ p.phase = "strict" => p.strict # "none" /\ d = p.next
    /\ p.phase = "tidy" => m = p.next /\ d = p.next
    /\ PinsKept(m, p.next, sn)

CatInv ==
    /\ fresh \in 0..CatItems
    /\ IxOK(mem, fresh, born) /\ IxOK(disk, fresh, born)
    /\ vault \subseteq 0..Token /\ 0 \in vault
    /\ undone \subseteq 0..Token /\ Relied(mem) \cup Relied(disk) \subseteq vault \cup undone
    /\ op = NoOp \/ PlanOK(op, mem, disk, vault, fresh, born, seen)
    /\ ~skew /\ op.phase # "strict" => mem = disk

\* The fields of a secret.
LEMMA IxSecFields ==
    ASSUME NEW s \in IxSecs
    PROVE  /\ s.totp \in 0..CatItems /\ s.name \in IxNames
           /\ s.source \in {"none", "local", "op"}
           /\ s.totp # 0 => s.totp \in Ids
BY CatAssumption DEF IxSecs, Ids

\* The members of Relied, one by one.
LEMMA ReliedIs ==
    ASSUME NEW ix, NEW x
    PROVE  x \in Relied(ix) <=>
             \/ x \in Ids /\ ix.sec[x].source = "local"
             \/ \E i \in Ids : x = ix.sec[i].totp
             \/ \E c \in CatConns : x = ix.con[c].grant
             \/ ix.intg = "token" /\ x = Token
BY DEF Relied

\* Ids that are handed out later change nothing.
LEMMA IxGrows ==
    ASSUME NEW ix, NEW f \in Nat, NEW g \in Nat, f <= g, NEW b, NEW e, IxOK(ix, f, b)
    PROVE  IxOK(ix, g, b \cup e)
<1>t. \A i \in Ids : ix.sec[i] \in IxSecs /\ i \in Nat
  BY CatAssumption DEF IxOK, IxType, Ids
<1>1. \A i \in Ids : ix.sec[i].totp \in Nat /\ i \in Nat
  BY <1>t, IxSecFields, CatAssumption
<1>2. \A c \in CatConns : ix.con[c].grant \in Nat
  BY CatAssumption DEF IxOK, IxType, IxCons
<1>3. IxBelow(ix, g, b \cup e)
  BY <1>1, <1>2 DEF IxOK, IxBelow
<1> QED BY <1>3 DEF IxOK

\* One secret of an index is set: added under a fresh name, dropped while
\* nothing is bound to it, or kept under its name.
LEMMA SecKeeps ==
    ASSUME NEW ix, NEW f \in 0..CatItems, NEW g \in 0..CatItems, f <= g, NEW b,
           IxOK(ix, f, b), NEW i \in Ids, NEW s \in IxSecs,
           Secret(s) => i <= g /\ s.name \in CatNames,
           \/ /\ \A c \in CatConns : i \notin ix.con[c].bound
              /\ Secret(s) => s.name \notin NamesOf(ix)
           \/ Secret(s) /\ Secret(ix.sec[i]) /\ s.name = ix.sec[i].name,
           \/ s.totp = 0
           \/ s.totp = ix.sec[i].totp
           \/ s.totp > f /\ s.totp <= g /\ s.totp # i,
           s.source = "local" => ix.sec[i].source = "local" \/ i > f
    PROVE  /\ IxOK([ix EXCEPT !.sec[i] = s], g, b)
           /\ [ix EXCEPT !.sec[i] = s].sec = [ix.sec EXCEPT ![i] = s]
           /\ [ix EXCEPT !.sec[i] = s].con = ix.con
           /\ [ix EXCEPT !.sec[i] = s].intg = ix.intg
<1> DEFINE n == [ix EXCEPT !.sec[i] = s]
<1>t. /\ ix.sec \in [Ids -> IxSecs] /\ ix.con \in [CatConns -> IxCons] /\ ix \in IxType
  BY DEF IxOK, IxType
<1>1. n \in IxType /\ n.sec = [ix.sec EXCEPT ![i] = s] /\ n.con = ix.con /\ n.intg = ix.intg
  BY <1>t DEF IxType
<1>2. \A j \in Ids : n.sec[j] = IF j = i THEN s ELSE ix.sec[j]
  BY <1>1, <1>t
<1> HIDE DEF n
<1>3. \A j \in Ids : /\ ix.sec[j].totp \in 0..CatItems /\ j \in Nat /\ j # 0
                     /\ ix.sec[j].totp # 0 => ix.sec[j].totp \in Ids
  BY <1>t, IxSecFields, CatAssumption DEF Ids
<1>4. \A c \in CatConns : /\ ix.con[c].grant \in 0..CatItems
                          /\ ix.con[c].grant # 0 => ix.con[c].grant \in Ids
                          /\ ix.con[c].bound \subseteq Ids
  BY <1>t, CatAssumption DEF IxCons, Ids
<1>5. s.totp \in 0..CatItems /\ (s.totp # 0 => s.totp \in Ids)
  BY IxSecFields
<1>6. IxNamed(n)
  <2> SUFFICES ASSUME NEW j \in Ids, Secret(n.sec[j])
               PROVE /\ n.sec[j].name \in CatNames
                     /\ \A k \in Ids : Secret(n.sec[k]) /\ n.sec[k].name = n.sec[j].name => k = j
    BY DEF IxNamed
  <2>1. \A k \in Ids \ {i} : Secret(ix.sec[k]) /\ Secret(s) => ix.sec[k].name # s.name
    BY DEF IxOK, IxNamed, NamesOf
  <2> QED BY <1>2, <2>1 DEF IxOK, IxNamed
<1>7. IxBelow(n, g, b)
  BY <1>1, <1>2, <1>3, <1>4, <1>5, CatAssumption DEF IxOK, IxBelow
<1>8. IxApart(n)
  <2>1. \A j \in Ids : j > f => ix.sec[j].source = "none" /\ ix.sec[j].totp # j
    BY <1>3, CatAssumption DEF IxOK, IxBelow, Secret
  <2>2. \A j \in Ids : ix.sec[j].totp <= f
    BY DEF IxOK, IxBelow
  <2>3. \A c \in CatConns : ix.con[c].grant <= f
    BY DEF IxOK, IxBelow
  <2>4. ASSUME NEW j \in Ids, n.sec[j].totp # 0
        PROVE /\ n.sec[n.sec[j].totp].source # "local"
              /\ \A k \in Ids : n.sec[k].totp = n.sec[j].totp => k = j
              /\ \A c \in CatConns : n.con[c].grant # n.sec[j].totp
    <3>1. CASE j = i
      <4>1. n.sec[j].totp = s.totp /\ s.totp \in Ids
        BY <3>1, <1>2, <2>4, <1>5
      <4>2. CASE s.totp = ix.sec[i].totp
        BY <3>1, <4>1, <4>2, <1>1, <1>2, <1>3, <2>1, <2>4, <1>5 DEF IxOK, IxApart
      <4>3. CASE s.totp > f /\ s.totp # i
        BY <3>1, <4>1, <4>3, <1>1, <1>2, <1>3, <1>4, <1>5, <2>1, <2>2, <2>3
      <4> QED BY <4>1, <4>2, <4>3, <2>4, <1>5
    <3>2. CASE j # i
      <4>1. n.sec[j] = ix.sec[j] /\ ix.sec[j].totp \in Ids
        BY <3>2, <1>2, <1>3, <2>4
      <4>2. n.sec[n.sec[j].totp].source # "local"
        BY <4>1, <1>2, <1>3, <2>1, <2>2, <2>4 DEF IxOK, IxApart
      <4>3. s.totp # ix.sec[j].totp
        BY <4>1, <3>2, <2>2, <1>3, <1>5 DEF IxOK, IxApart
      <4> QED BY <4>1, <4>2, <4>3, <1>1, <1>2, <2>4 DEF IxOK, IxApart
    <3> QED BY <3>1, <3>2
  <2>5. ASSUME NEW c \in CatConns, n.con[c].grant # 0
        PROVE /\ n.sec[n.con[c].grant].source # "local"
              /\ \A d \in CatConns : n.con[d].grant = n.con[c].grant => d = c
    BY <2>5, <1>1, <1>2, <1>3, <1>4, <2>1, <2>3 DEF IxOK, IxApart
  <2> QED BY <2>4, <2>5 DEF IxApart
<1>9. IxResolves(n)
  <2> SUFFICES ASSUME NEW c \in CatConns
               PROVE  /\ \A j \in n.con[c].bound : Secret(n.sec[j])
                      /\ n.con[c].kind = "api" =>
                            /\ IdsNamed(n, n.con[c].refs) = n.con[c].bound
                            /\ n.con[c].refs \subseteq NamesOf(n)
    BY DEF IxResolves
  <2>1. \A j \in ix.con[c].bound : j \in Ids /\ Secret(ix.sec[j])
    BY <1>4 DEF IxOK, IxResolves
  <2>2. CASE Secret(s) /\ Secret(ix.sec[i]) /\ s.name = ix.sec[i].name
    <3>1. \A j \in Ids : /\ Secret(n.sec[j]) <=> Secret(ix.sec[j])
                         /\ Secret(n.sec[j]) => n.sec[j].name = ix.sec[j].name
      BY <2>2, <1>2
    <3>2. NamesOf(n) = NamesOf(ix) /\ \A ns : IdsNamed(n, ns) = IdsNamed(ix, ns)
      BY <3>1 DEF NamesOf, IdsNamed
    <3> QED BY <3>1, <3>2, <2>1, <1>1 DEF IxOK, IxResolves
  <2>3. CASE /\ \A e \in CatConns : i \notin ix.con[e].bound
             /\ Secret(s) => s.name \notin NamesOf(ix)
    <3>1. \A j \in n.con[c].bound : Secret(n.sec[j])
      BY <2>1, <2>3, <1>1, <1>2
    <3>2. ASSUME n.con[c].kind = "api"
          PROVE  /\ IdsNamed(n, n.con[c].refs) = n.con[c].bound
                 /\ n.con[c].refs \subseteq NamesOf(n)
      <4> DEFINE refs == ix.con[c].refs
      <4>1. IdsNamed(ix, refs) = ix.con[c].bound /\ refs \subseteq NamesOf(ix)
        BY <3>2, <1>1 DEF IxOK, IxResolves
      <4>2. i \notin IdsNamed(ix, refs)
        BY <4>1, <2>3
      <4>3. i \notin IdsNamed(n, refs)
        BY <4>1, <2>3, <1>2 DEF IdsNamed
      <4>4. \A j \in Ids : j \in IdsNamed(n, refs) <=> j \in IdsNamed(ix, refs)
        BY <4>2, <4>3, <1>2 DEF IdsNamed
      <4>5. IdsNamed(n, refs) = IdsNamed(ix, refs)
        BY <4>4 DEF IdsNamed
      <4>6. refs \subseteq NamesOf(n)
        <5> SUFFICES ASSUME NEW r \in refs PROVE r \in NamesOf(n) OBVIOUS
        <5>1. PICK j \in Ids : Secret(ix.sec[j]) /\ ix.sec[j].name = r
          BY <4>1 DEF NamesOf
        <5>2. j # i
          BY <5>1, <4>2 DEF IdsNamed
        <5> QED BY <5>1, <5>2, <1>2 DEF NamesOf
      <4> QED BY <4>1, <4>5, <4>6, <1>1
    <3> QED BY <3>1, <3>2
  <2> QED BY <2>2, <2>3
<1> QED BY <1>1, <1>6, <1>7, <1>8, <1>9 DEF IxOK, n

\* One connection of an index is set, with its grant dropped, kept or fresh.
LEMMA ConKeeps ==
    ASSUME NEW ix, NEW f \in 0..CatItems, NEW g \in 0..CatItems, f <= g, NEW b,
           IxOK(ix, f, b), NEW c \in CatConns, NEW k \in IxCons,
           k.kind # "none" => c \in b, k.pin # 0 => k.kind # "none",
           \A i \in k.bound : Secret(ix.sec[i]),
           k.kind = "api" => /\ IdsNamed(ix, k.refs) = k.bound
                             /\ k.refs \subseteq NamesOf(ix),
           \/ k.grant = 0
           \/ k.grant = ix.con[c].grant
           \/ k.grant > f /\ k.grant <= g
    PROVE  /\ IxOK([ix EXCEPT !.con[c] = k], g, b)
           /\ [ix EXCEPT !.con[c] = k].con = [ix.con EXCEPT ![c] = k]
           /\ [ix EXCEPT !.con[c] = k].sec = ix.sec
           /\ [ix EXCEPT !.con[c] = k].intg = ix.intg
<1> DEFINE n == [ix EXCEPT !.con[c] = k]
<1>t. /\ ix.sec \in [Ids -> IxSecs] /\ ix.con \in [CatConns -> IxCons] /\ ix \in IxType
  BY DEF IxOK, IxType
<1>1. n \in IxType /\ n.con = [ix.con EXCEPT ![c] = k] /\ n.sec = ix.sec /\ n.intg = ix.intg
  BY <1>t DEF IxType
<1>2. \A d \in CatConns : n.con[d] = IF d = c THEN k ELSE ix.con[d]
  BY <1>1, <1>t
<1> HIDE DEF n
<1>3. \A j \in Ids : /\ ix.sec[j].totp \in 0..CatItems /\ j \in Nat /\ j # 0
                     /\ ix.sec[j].totp # 0 => ix.sec[j].totp \in Ids
  BY <1>t, IxSecFields, CatAssumption DEF Ids
<1>4. \A d \in CatConns : /\ ix.con[d].grant \in 0..CatItems
                          /\ ix.con[d].grant # 0 => ix.con[d].grant \in Ids
  BY <1>t, CatAssumption DEF IxCons, Ids
<1>5. k.grant \in 0..CatItems /\ (k.grant # 0 => k.grant \in Ids)
  BY CatAssumption DEF IxCons, Ids
<1>6. IxNamed(n)
  BY <1>1 DEF IxOK, IxNamed
<1>7. IxBelow(n, g, b)
  BY <1>1, <1>2, <1>3, <1>4, <1>5, CatAssumption DEF IxOK, IxBelow, Con
<1>8. IxApart(n)
  <2>1. \A j \in Ids : j > f => ix.sec[j].source = "none"
    BY <1>3, CatAssumption DEF IxOK, IxBelow, Secret
  <2>2. \A j \in Ids : ix.sec[j].totp <= f
    BY DEF IxOK, IxBelow
  <2>3. \A d \in CatConns : ix.con[d].grant <= f
    BY DEF IxOK, IxBelow
  <2>4. ASSUME NEW j \in Ids, n.sec[j].totp # 0
        PROVE /\ n.sec[n.sec[j].totp].source # "local"
              /\ \A i \in Ids : n.sec[i].totp = n.sec[j].totp => i = j
              /\ \A d \in CatConns : n.con[d].grant # n.sec[j].totp
    <3>1. k.grant # ix.sec[j].totp
      BY <2>4, <1>1, <1>3, <1>5, <2>2 DEF IxOK, IxApart
    <3> QED BY <3>1, <2>4, <1>1, <1>2 DEF IxOK, IxApart
  <2>5. ASSUME NEW e \in CatConns, n.con[e].grant # 0
        PROVE /\ n.sec[n.con[e].grant].source # "local"
              /\ \A d \in CatConns : n.con[d].grant = n.con[e].grant => d = e
    BY <2>5, <1>1, <1>2, <1>3, <1>4, <1>5, <2>1, <2>3 DEF IxOK, IxApart
  <2> QED BY <2>4, <2>5 DEF IxApart
<1>9. IxResolves(n)
  <2>1. NamesOf(n) = NamesOf(ix) /\ \A ns : IdsNamed(n, ns) = IdsNamed(ix, ns)
    BY <1>1 DEF NamesOf, IdsNamed
  <2> SUFFICES ASSUME NEW d \in CatConns
               PROVE  /\ \A j \in n.con[d].bound : Secret(n.sec[j])
                      /\ n.con[d].kind = "api" =>
                            /\ IdsNamed(n, n.con[d].refs) = n.con[d].bound
                            /\ n.con[d].refs \subseteq NamesOf(n)
    BY DEF IxResolves
  <2> QED BY <2>1, <1>1, <1>2 DEF IxOK, IxResolves
<1> QED BY <1>1, <1>6, <1>7, <1>8, <1>9 DEF IxOK, n

\* The next version of a connection is one that the bound leaves room for.
LEMMA NextVerOK ==
    ASSUME NEW v \in 0..CatMaxVer, v < CatMaxVer, NEW t \in Now
    PROVE  NextVer(v, t) \in 0..CatMaxVer
BY CatAssumption DEF NextVer, Now

\* A renamed secret keeps its bindings: the templates that name it follow.
LEMMA RenameKeeps ==
    ASSUME NEW ix, NEW f \in 0..CatItems, NEW b, IxOK(ix, f, b), NEW i \in Ids,
           Secret(ix.sec[i]), NEW name \in CatNames, name \notin NamesOf(ix),
           NEW t \in Now, \A c \in CatConns : ix.con[c].ver < CatMaxVer
    PROVE  LET n == Renamed(ix, i, name, t)
           IN  /\ IxOK(n, f, b)
               /\ Relied(n) = Relied(ix)
               /\ \A c \in CatConns : /\ n.con[c].pin = ix.con[c].pin
                                      /\ n.con[c].kind = ix.con[c].kind
<1> DEFINE old == ix.sec[i].name
           s == [ix.sec[i] EXCEPT !.name = name]
           k(c) == Follows(ix.con[c], old, name, t)
           cons == [c \in CatConns |-> IF old \in ix.con[c].refs THEN k(c) ELSE ix.con[c]]
           n == Renamed(ix, i, name, t)
<1>t. /\ ix.sec \in [Ids -> IxSecs] /\ ix.con \in [CatConns -> IxCons] /\ ix \in IxType
  BY DEF IxOK, IxType
<1>1. ASSUME NEW c \in CatConns
      PROVE  /\ k(c) \in IxCons
             /\ k(c).refs = (ix.con[c].refs \ {old}) \cup {name}
             /\ k(c).kind = ix.con[c].kind /\ k(c).bound = ix.con[c].bound
             /\ k(c).grant = ix.con[c].grant /\ k(c).pin = ix.con[c].pin
  <2>1. ix.con[c] \in IxCons /\ NextVer(ix.con[c].ver, t) \in 0..CatMaxVer
    BY <1>t, NextVerOK DEF IxCons
  <2>2. (ix.con[c].refs \ {old}) \cup {name} \in SUBSET CatNames
    BY <2>1 DEF IxCons
  <2> QED BY <2>1, <2>2 DEF IxCons, Follows
<1>2. s \in IxSecs /\ s.source = ix.sec[i].source /\ s.totp = ix.sec[i].totp /\ s.name = name
  BY <1>t DEF IxSecs, IxNames
<1>3. n.sec = [ix.sec EXCEPT ![i] = s] /\ n.con = cons /\ n.intg = ix.intg /\ n \in IxType
  <2> DEFINE a == [ix EXCEPT !.sec[i].name = name]
  <2>1. a = [ix EXCEPT !.sec = [ix.sec EXCEPT ![i] = s]]
    BY <1>t DEF IxType
  <2>2. cons \in [CatConns -> IxCons]
    BY <1>1, <1>t
  <2>3. n = [a EXCEPT !.con = cons]
    BY <1>t DEF Renamed, IxType
  <2> HIDE DEF cons, s, n, a
  <2> QED BY <2>1, <2>2, <2>3, <1>2, <1>t DEF IxType
<1>4. \A j \in Ids : n.sec[j] = IF j = i THEN s ELSE ix.sec[j]
  BY <1>3, <1>t
<1>5. \A c \in CatConns :
        /\ n.con[c].kind = ix.con[c].kind /\ n.con[c].bound = ix.con[c].bound
        /\ n.con[c].grant = ix.con[c].grant /\ n.con[c].pin = ix.con[c].pin
        /\ n.con[c].refs = IF old \in ix.con[c].refs
                           THEN (ix.con[c].refs \ {old}) \cup {name} ELSE ix.con[c].refs
  <2> TAKE c \in CatConns
  <2>1. n.con[c] = IF old \in ix.con[c].refs THEN k(c) ELSE ix.con[c]
    BY <1>3
  <2> HIDE DEF n, k
  <2> QED BY <2>1, <1>1
<1> HIDE DEF n, s, cons, k
<1>6. \A j \in Ids : /\ n.sec[j].source = ix.sec[j].source /\ n.sec[j].totp = ix.sec[j].totp
                     /\ n.sec[j].name = IF j = i THEN name ELSE ix.sec[j].name
  BY <1>2, <1>4
<1>7. \A j \in Ids : ix.sec[j].totp # 0 => ix.sec[j].totp \in Ids
  BY <1>t, IxSecFields
<1>8. \A c \in CatConns : ix.con[c].grant # 0 => ix.con[c].grant \in Ids
  BY <1>t, CatAssumption DEF IxCons, Ids
<1>9. IxNamed(n)
  BY <1>6 DEF IxOK, IxNamed, NamesOf, Secret
<1>10. IxApart(n)
  <2>1. \A j \in Ids : /\ n.sec[j].source = ix.sec[j].source
                       /\ n.sec[j].totp = ix.sec[j].totp
    BY <1>6
  <2>2. \A c \in CatConns : n.con[c].grant = ix.con[c].grant
    BY <1>5
  <2>3. ASSUME NEW j \in Ids, n.sec[j].totp # 0
        PROVE /\ n.sec[n.sec[j].totp].source # "local"
              /\ \A k1 \in Ids : n.sec[k1].totp = n.sec[j].totp => k1 = j
              /\ \A d \in CatConns : n.con[d].grant # n.sec[j].totp
    BY <2>1, <2>2, <2>3, <1>7 DEF IxOK, IxApart
  <2>4. ASSUME NEW c \in CatConns, n.con[c].grant # 0
        PROVE /\ n.sec[n.con[c].grant].source # "local"
              /\ \A d \in CatConns : n.con[d].grant = n.con[c].grant => d = c
    BY <2>1, <2>2, <2>4, <1>8 DEF IxOK, IxApart
  <2> QED BY <2>3, <2>4 DEF IxApart
<1>11. IxBelow(n, f, b)
  BY <1>3, <1>5, <1>6 DEF IxOK, IxBelow, Secret, Con
<1>12. IxResolves(n)
  <2> SUFFICES ASSUME NEW c \in CatConns
               PROVE  /\ \A j \in n.con[c].bound : Secret(n.sec[j])
                      /\ n.con[c].kind = "api" =>
                            /\ IdsNamed(n, n.con[c].refs) = n.con[c].bound
                            /\ n.con[c].refs \subseteq NamesOf(n)
    BY DEF IxResolves
  <2>1. \A j \in ix.con[c].bound : j \in Ids /\ Secret(ix.sec[j])
    BY <1>t DEF IxOK, IxResolves, IxCons
  <2>2. \A j \in n.con[c].bound : Secret(n.sec[j])
    BY <2>1, <1>5, <1>6 DEF Secret
  <2>3. ASSUME n.con[c].kind = "api"
        PROVE  /\ IdsNamed(n, n.con[c].refs) = n.con[c].bound
               /\ n.con[c].refs \subseteq NamesOf(n)
    <3> DEFINE refs == ix.con[c].refs
               new == n.con[c].refs
    <3>1. IdsNamed(ix, refs) = ix.con[c].bound /\ refs \subseteq NamesOf(ix)
      BY <2>3, <1>5 DEF IxOK, IxResolves
    <3>2. new = IF old \in refs THEN (refs \ {old}) \cup {name} ELSE refs
      BY <1>5
    <3> HIDE DEF new, refs
    <3>3. ASSUME NEW j \in Ids, Secret(ix.sec[j])
          PROVE  n.sec[j].name \in new <=> ix.sec[j].name \in refs
      <4>1. name \notin refs /\ ix.sec[j].name # name
        BY <3>1, <3>3 DEF NamesOf
      <4>2. j # i => ix.sec[j].name # old
        BY <3>3 DEF IxOK, IxNamed
      <4> QED BY <4>1, <4>2, <3>2, <1>6
    <3>4. IdsNamed(n, new) = IdsNamed(ix, refs)
      BY <3>3, <1>6 DEF IdsNamed, Secret
    <3>5. new \subseteq NamesOf(n)
      <4> SUFFICES ASSUME NEW r \in new PROVE r \in NamesOf(n) OBVIOUS
      <4>1. CASE r = name
        BY <4>1, <1>6 DEF NamesOf, Secret
      <4>2. CASE r # name
        <5>1. r \in refs /\ r # old
          BY <4>2, <3>1, <3>2 DEF NamesOf
        <5>2. PICK j \in Ids : Secret(ix.sec[j]) /\ ix.sec[j].name = r
          BY <5>1, <3>1 DEF NamesOf
        <5> QED BY <5>1, <5>2, <1>6 DEF NamesOf, Secret
      <4> QED BY <4>1, <4>2
    <3> QED BY <3>1, <3>4, <3>5, <1>5 DEF new, refs
  <2> QED BY <2>2, <2>3
<1>13. Relied(n) = Relied(ix)
  <2>1. ASSUME NEW x PROVE x \in Relied(n) <=> x \in Relied(ix)
    <3>1. \A j \in Ids : /\ n.sec[j].source = ix.sec[j].source
                         /\ n.sec[j].totp = ix.sec[j].totp
      BY <1>6
    <3>2. \A c \in CatConns : n.con[c].grant = ix.con[c].grant
      BY <1>5
    <3>3. (\E j \in Ids : x = n.sec[j].totp) <=> \E j \in Ids : x = ix.sec[j].totp
      BY <3>1
    <3>4. (\E c \in CatConns : x = n.con[c].grant) <=> \E c \in CatConns : x = ix.con[c].grant
      BY <3>2
    <3>5. x \in Ids => n.sec[x].source = ix.sec[x].source
      BY <3>1
    <3>6. x \in Relied(n) <=> \/ x \in Ids /\ n.sec[x].source = "local"
                              \/ \E j \in Ids : x = n.sec[j].totp
                              \/ \E c \in CatConns : x = n.con[c].grant
                              \/ n.intg = "token" /\ x = Token
      BY ReliedIs
    <3>7. x \in Relied(ix) <=> \/ x \in Ids /\ ix.sec[x].source = "local"
                               \/ \E j \in Ids : x = ix.sec[j].totp
                               \/ \E c \in CatConns : x = ix.con[c].grant
                               \/ ix.intg = "token" /\ x = Token
      BY ReliedIs
    <3> QED BY <3>3, <3>4, <3>5, <3>6, <3>7, <1>3
  <2> QED BY <2>1
<1>14. IxOK(n, f, b)
  BY <1>3, <1>9, <1>10, <1>11, <1>12 DEF IxOK
<1>15. \A c \in CatConns : n.con[c].pin = ix.con[c].pin /\ n.con[c].kind = ix.con[c].kind
  BY <1>5
<1> QED BY <1>13, <1>14, <1>15 DEF n

\* Items neither copy of the index relies on.
Free(items) == items \cap (Relied(mem) \cup Relied(disk)) = {}

\* What a plan starts with: its index is sound, nothing it may remove again is
\* relied on, and it relies on no item that is neither there nor staged.
Prepared(p, m, f, b, sn) ==
    /\ p \in PlanType /\ IxOK(p.next, f, b)
    /\ p.undo \subseteq p.stage
    /\ p.strict # "none" => p.stage = {}
    /\ p.strict \in {"del", "purge"} => p.item # 0 /\ p.item \notin Relied(p.next)
    /\ p.tidy \cap Relied(p.next) \subseteq {0}
    /\ Free(p.undo)
    /\ Relied(p.next) \subseteq Relied(m) \cup p.stage \cup {0}
    /\ p.phase = IF p.stage = {} THEN "index" ELSE "stage"
    /\ PinsKept(m, p.next, sn)

\* What an index relies on is an item or none.
LEMMA ReliedItems ==
    ASSUME NEW ix, NEW f \in 0..CatItems, NEW b, IxOK(ix, f, b)
    PROVE  /\ Relied(ix) \subseteq 0..Token
           /\ \A x \in Relied(ix) : x <= f \/ x = Token
           /\ Token \in Relied(ix) => ix.intg = "token"
<1>1. \A i \in Ids : ix.sec[i].totp \in 0..CatItems /\ i \in Nat /\ i <= CatItems
  BY IxSecFields, CatAssumption DEF IxOK, IxType, Ids
<1>2. \A c \in CatConns : ix.con[c].grant \in 0..CatItems
  BY CatAssumption DEF IxOK, IxType, IxCons
<1>3. ASSUME NEW x \in Relied(ix)
      PROVE  /\ x \in 0..Token /\ (x <= f \/ x = Token)
             /\ x = Token => ix.intg = "token"
  <2>1. CASE x \in Ids /\ ix.sec[x].source = "local"
    BY <2>1, <1>1, CatAssumption DEF IxOK, IxBelow, Secret, Token
  <2>2. CASE \E i \in Ids : x = ix.sec[i].totp
    <3>1. PICK i \in Ids : x = ix.sec[i].totp BY <2>2
    <3> QED BY <3>1, <1>1, CatAssumption DEF IxOK, IxBelow, Token
  <2>3. CASE \E c \in CatConns : x = ix.con[c].grant
    <3>1. PICK c \in CatConns : x = ix.con[c].grant BY <2>3
    <3> QED BY <3>1, <1>2, CatAssumption DEF IxOK, IxBelow, Token
  <2>4. CASE ix.intg = "token" /\ x = Token
    BY <2>4, CatAssumption DEF Token
  <2> QED BY <2>1, <2>2, <2>3, <2>4, ReliedIs, <1>3
<1> QED BY <1>3

\* A prepared plan that takes the lock keeps the invariant.
LEMMA StartKeeps ==
    ASSUME CatInv, NEW p, NEW used \in Nat, NEW new, StartAs(p, used, new),
           Prepared(p, mem, fresh + used, born \cup new, seen)
    PROVE  CatInv'
<1> DEFINE g == fresh + used
           e == born \cup new
<1>1. /\ mem' = mem /\ disk' = disk /\ vault' = vault /\ undone' = undone
      /\ fresh' = g /\ born' = e
      /\ op' = p /\ skew' = skew /\ seen' = seen /\ op = NoOp
  BY DEF StartAs
<1>2. fresh \in Nat /\ g \in Nat /\ fresh <= g /\ g \in 0..CatItems
  BY CatAssumption DEF CatInv, StartAs
<1>3. IxOK(mem, g, e) /\ IxOK(disk, g, e)
  <2>1. IxOK(mem, fresh, born) /\ IxOK(disk, fresh, born)
    BY DEF CatInv
  <2> HIDE DEF g
  <2> QED BY <2>1, <1>2, IxGrows
<1>4. ~skew => mem = disk
  BY <1>1 DEF CatInv, NoOp
<1>5. PlanOK(p, mem, disk, vault, g, e, seen)
  BY DEF Prepared, PlanOK, PlanType, Free
<1> HIDE DEF g, e
<1> QED BY <1>1, <1>2, <1>3, <1>4, <1>5 DEF CatInv

\* The same without new connections.
LEMMA StartPlain ==
    ASSUME CatInv, NEW p, NEW used \in Nat, Start(p, used),
           Prepared(p, mem, fresh + used, born, seen)
    PROVE  CatInv'
<1>1. born \cup {} = born OBVIOUS
<1>2. StartAs(p, used, {})
  BY DEF Start
<1>3. Prepared(p, mem, fresh + used, born \cup {}, seen)
  BY <1>1
<1> QED BY <1>2, <1>3, StartKeeps

\* CatStage keeps the invariant.
LEMMA StageKeeps ==
    ASSUME CatInv, CatStage
    PROVE  CatInv'
<1>1. /\ mem' = mem /\ disk' = disk /\ fresh' = fresh /\ born' = born /\ skew' = skew
      /\ seen' = seen
  BY DEF CatStage
<1>2. PlanOK(op, mem, disk, vault, fresh, born, seen) /\ op.phase = "stage"
  BY DEF CatInv, CatStage, NoOp
<1>3. CASE /\ vault' = vault \cup op.stage /\ undone' = undone \ op.stage
           /\ op' = [op EXCEPT !.phase = "index"]
  <2>1. /\ op' \in PlanType /\ op'.next = op.next /\ op'.stage = op.stage
        /\ op'.undo = op.undo /\ op'.strict = op.strict /\ op'.item = op.item
        /\ op'.tidy = op.tidy /\ op'.phase = "index"
    BY <1>2, <1>3 DEF PlanOK, PlanType
  <2>2. PlanOK(op', mem, disk, vault', fresh, born, seen)
    BY <1>2, <1>3, <2>1 DEF PlanOK
  <2>3. /\ vault' \subseteq 0..Token /\ 0 \in vault' /\ undone' \subseteq 0..Token
        /\ Relied(mem) \cup Relied(disk) \subseteq vault' \cup undone'
    BY <1>2, <1>3, CatAssumption DEF CatInv, PlanOK, PlanType, Token
  <2> QED BY <1>1, <1>2, <2>1, <2>2, <2>3 DEF CatInv
<1>4. CASE op' = NoOp /\ undone' = undone /\ \E left \in SUBSET op.undo : vault' = vault \cup left
  <2>1. /\ vault' \subseteq 0..Token /\ 0 \in vault' /\ undone' \subseteq 0..Token
        /\ Relied(mem) \cup Relied(disk) \subseteq vault' \cup undone'
    BY <1>2, <1>4, CatAssumption DEF CatInv, PlanOK, PlanType, Token
  <2> QED BY <1>1, <1>2, <1>4, <2>1 DEF CatInv, NoOp
<1> QED BY <1>3, <1>4 DEF CatStage

\* CatIndex keeps the invariant.
LEMMA IndexKeeps ==
    ASSUME CatInv, CatIndex
    PROVE  CatInv'
<1>1. fresh' = fresh /\ born' = born /\ seen' = seen
  BY DEF CatIndex
<1>2. PlanOK(op, mem, disk, vault, fresh, born, seen) /\ op.phase = "index"
  BY DEF CatInv, CatIndex, NoOp
<1>3. Relied(op.next) \subseteq vault \cup undone
  BY <1>2 DEF CatInv, PlanOK
<1>4. CASE /\ disk' = op.next
           /\ mem' = IF op.strict = "none" THEN op.next ELSE mem
           /\ op' = [op EXCEPT !.phase = IF op.strict = "none" THEN "tidy" ELSE "strict"]
           /\ skew' = (skew /\ op.strict # "none")
           /\ UNCHANGED <<vault, undone>>
  <2>1. /\ op' \in PlanType /\ op'.next = op.next /\ op'.stage = op.stage
        /\ op'.undo = op.undo /\ op'.strict = op.strict /\ op'.item = op.item
        /\ op'.tidy = op.tidy
        /\ op'.phase = IF op.strict = "none" THEN "tidy" ELSE "strict"
    BY <1>2, <1>4 DEF PlanOK, PlanType
  <2>2. IxOK(mem', fresh, born) /\ IxOK(disk', fresh, born)
    BY <1>2, <1>4 DEF CatInv, PlanOK
  <2>3. CASE op.strict = "none"
    <3>1. mem' = op.next /\ disk' = op.next /\ op'.phase = "tidy"
      BY <1>4, <2>1, <2>3
    <3>2. PinsKept(op.next, op.next, seen)
      BY DEF PinsKept
    <3>3. PlanOK(op', mem', disk', vault', fresh, born, seen)
      BY <1>2, <3>1, <3>2, <2>1, <2>3 DEF PlanOK
    <3> QED BY <1>1, <1>3, <1>4, <2>2, <3>1, <3>3 DEF CatInv
  <2>4. CASE op.strict # "none"
    <3>1. mem' = mem /\ disk' = op.next /\ op'.phase = "strict"
      BY <1>4, <2>1, <2>4
    <3>2. PlanOK(op', mem', disk', vault', fresh, born, seen)
      BY <1>2, <3>1, <2>1, <2>4 DEF PlanOK
    <3> QED BY <1>1, <1>3, <1>4, <2>2, <3>1, <3>2 DEF CatInv
  <2> QED BY <2>3, <2>4
<1>5. CASE CatIndexFails
  <2>1. op' = NoOp /\ mem' = mem
    BY <1>5 DEF CatIndexFails
  <2>2. PICK left \in SUBSET op.undo :
          /\ vault' = (vault \ op.undo) \cup left
          /\ \/ UNCHANGED <<disk, skew, undone>>
             \/ /\ disk' = op.next /\ skew' = TRUE
                /\ undone' = undone \cup (op.undo \ left)
    BY <1>5 DEF CatIndexFails
  <2>3. /\ op.undo \subseteq 1..Token /\ op.undo \subseteq vault
        /\ op.undo \cap (Relied(mem) \cup Relied(disk)) = {}
        /\ Relied(mem) \cup Relied(disk) \subseteq vault \cup undone
        /\ vault \subseteq 0..Token /\ 0 \in vault /\ undone \subseteq 0..Token
    BY <1>2 DEF CatInv, PlanOK, PlanType
  <2>4. 0 \notin 1..Token /\ 1..Token \subseteq 0..Token
    BY CatAssumption DEF Token
  <2>5. /\ vault' \subseteq 0..Token /\ 0 \in vault' /\ undone' \subseteq 0..Token
        /\ Relied(mem) \subseteq vault' \cup undone'
    BY <2>2, <2>3, <2>4
  <2>6. Relied(disk') \subseteq vault' \cup undone' /\ IxOK(disk', fresh, born)
    <3>1. CASE UNCHANGED <<disk, skew, undone>>
      BY <2>2, <2>3, <3>1 DEF CatInv
    <3>2. CASE disk' = op.next /\ undone' = undone \cup (op.undo \ left)
      BY <1>2, <1>3, <2>2, <3>2 DEF PlanOK
    <3> QED BY <2>2, <3>1, <3>2
  <2>7. ~skew' => mem' = disk'
    BY <1>2, <2>1, <2>2 DEF CatInv
  <2> QED BY <1>1, <2>1, <2>5, <2>6, <2>7 DEF CatInv
<1> QED BY <1>4, <1>5 DEF CatIndex

\* CatStrict keeps the invariant.
LEMMA StrictKeeps ==
    ASSUME CatInv, CatStrict
    PROVE  CatInv'
<1>1. fresh' = fresh /\ born' = born /\ seen' = seen
  BY DEF CatStrict
<1>2. PlanOK(op, mem, disk, vault, fresh, born, seen) /\ op.phase = "strict"
  BY DEF CatInv, CatStrict, NoOp
<1>3. op.item \in 0..Token /\ (op.strict \in {"del", "purge"} => op.item # 0)
  BY <1>2 DEF PlanOK, PlanType
<1>4. CASE CatStrictDone
  <2>1. mem' = op.next /\ op' = [op EXCEPT !.phase = "tidy"] /\ skew' = FALSE /\ disk' = disk
    BY <1>4 DEF CatStrictDone
  <2>2. /\ op' \in PlanType /\ op'.next = op.next /\ op'.stage = op.stage
        /\ op'.undo = op.undo /\ op'.strict = op.strict /\ op'.item = op.item
        /\ op'.tidy = op.tidy /\ op'.phase = "tidy"
    BY <1>2, <2>1 DEF PlanOK, PlanType
  <2>3. disk' = op.next /\ IxOK(op.next, fresh, born)
    BY <1>2, <2>1 DEF PlanOK
  <2>4. /\ vault' \subseteq 0..Token /\ 0 \in vault' /\ undone' \subseteq 0..Token
        /\ Relied(op.next) \subseteq vault' \cup undone'
    <3>1. Relied(op.next) \subseteq vault \cup undone
      BY <1>2 DEF CatInv, PlanOK
    <3>2. CASE op.strict \in {"del", "purge"} /\ vault' = vault \ {op.item} /\ undone' = undone
      BY <1>2, <1>3, <3>1, <3>2 DEF CatInv, PlanOK
    <3>3. CASE vault' = vault \cup {op.item} /\ undone' = undone \ {op.item}
      BY <1>3, <3>1, <3>3 DEF CatInv
    <3>4. CASE UNCHANGED <<vault, undone>>
      BY <3>1, <3>4 DEF CatInv
    <3> QED BY <1>4, <3>2, <3>3, <3>4 DEF CatStrictDone
  <2>5. PinsKept(op.next, op.next, seen)
    BY DEF PinsKept
  <2>6. PlanOK(op', mem', disk', vault', fresh, born, seen)
    BY <1>2, <2>1, <2>2, <2>3, <2>5 DEF PlanOK
  <2> QED BY <1>1, <2>1, <2>3, <2>4, <2>6 DEF CatInv
<1>5. CASE CatStrictFails
  <2>1. op' = NoOp /\ mem' = mem /\ ((disk' = mem /\ skew' = FALSE) \/ (disk' = disk /\ skew' = TRUE))
    BY <1>5 DEF CatStrictFails
  <2>2. /\ vault' \subseteq 0..Token /\ 0 \in vault' /\ undone' \subseteq 0..Token
        /\ vault' \cup undone' = vault \cup undone \cup undone'
    <3>1. CASE UNCHANGED <<vault, undone>>
      BY <3>1 DEF CatInv
    <3>2. CASE /\ op.strict \in {"del", "purge"} /\ vault' = vault \ {op.item}
               /\ undone' = undone \cup {op.item}
      BY <1>3, <3>2 DEF CatInv
    <3> QED BY <1>5, <3>1, <3>2 DEF CatStrictFails
  <2>3. Relied(mem') \cup Relied(disk') \subseteq vault' \cup undone'
    BY <2>1, <2>2 DEF CatInv
  <2>4. IxOK(mem', fresh, born) /\ IxOK(disk', fresh, born) /\ (~skew' => mem' = disk')
    BY <2>1 DEF CatInv
  <2> QED BY <1>1, <2>1, <2>2, <2>3, <2>4 DEF CatInv
<1> QED BY <1>4, <1>5 DEF CatStrict

\* CatTidy keeps the invariant.
LEMMA TidyKeeps ==
    ASSUME CatInv, CatTidy
    PROVE  CatInv'
<1>1. /\ fresh' = fresh /\ born' = born /\ seen' = seen /\ mem' = mem /\ disk' = disk
      /\ op' = NoOp /\ skew' = skew /\ undone' = undone
  BY DEF CatTidy
<1>2. PlanOK(op, mem, disk, vault, fresh, born, seen) /\ op.phase = "tidy"
  BY DEF CatInv, CatTidy, NoOp
<1>3. /\ vault' \subseteq 0..Token /\ 0 \in vault'
      /\ Relied(mem) \cup Relied(disk) \subseteq vault' \cup undone
  BY <1>2 DEF CatTidy, CatInv, PlanOK
<1> QED BY <1>1, <1>2, <1>3 DEF CatInv, NoOp

\* What makes a plan prepared, field by field.
LEMMA PrepareIs ==
    ASSUME NEW m, NEW f, NEW b, NEW sn,
           NEW next \in IxType, NEW stage \in SUBSET (1..Token),
           NEW undo \in SUBSET stage, NEW strict \in Stricts,
           NEW item \in 0..Token, NEW tidy \in SUBSET (0..CatItems),
           IxOK(next, f, b), strict # "none" => stage = {},
           strict \in {"del", "purge"} => item # 0 /\ item \notin Relied(next),
           tidy \cap Relied(next) \subseteq {0}, Free(undo),
           Relied(next) \subseteq Relied(m) \cup stage \cup {0}, PinsKept(m, next, sn)
    PROVE  Prepared(Plan(next, stage, undo, strict, item, tidy), m, f, b, sn)
<1> DEFINE p == Plan(next, stage, undo, strict, item, tidy)
<1>1. undo \in SUBSET (1..Token)
  OBVIOUS
<1>2. /\ p \in PlanType
      /\ p.next = next /\ p.stage = stage /\ p.undo = undo
      /\ p.strict = strict /\ p.item = item /\ p.tidy = tidy
      /\ p.phase = IF stage = {} THEN "index" ELSE "stage"
  BY <1>1 DEF Plan, PlanType
<1> HIDE DEF p
<1>3. Prepared(p, m, f, b, sn)
  BY <1>2 DEF Prepared
<1> QED BY <1>3 DEF p

\* A plan that writes the index only.
LEMMA CommitIs ==
    ASSUME NEW m, NEW f, NEW b, NEW sn, NEW next, IxOK(next, f, b),
           Relied(next) \subseteq Relied(m) \cup {0}, PinsKept(m, next, sn)
    PROVE  Prepared(Commit(next), m, f, b, sn)
<1>1. next \in IxType /\ 0 \in 0..Token
  BY CatAssumption DEF IxOK, Token
<1>2. Relied(next) \subseteq Relied(m) \cup {} \cup {0}
  OBVIOUS
<1>3. {} \cap Relied(next) \subseteq {0} /\ Free({})
  BY DEF Free
<1>4. {} \in SUBSET (1..Token) /\ {} \in SUBSET {} /\ {} \in SUBSET (0..CatItems)
  OBVIOUS
<1>5. "none" \in Stricts /\ "none" \notin {"del", "purge"}
  BY DEF Stricts
<1> QED BY <1>1, <1>2, <1>3, <1>4, <1>5, PrepareIs DEF Commit

\* What an index relies on after one secret was set.
LEMMA SecRelied ==
    ASSUME NEW ix, NEW f \in 0..CatItems, NEW b, IxOK(ix, f, b), NEW i \in Ids,
           NEW s \in IxSecs, s.source = "local" => ix.sec[i].source = "local" \/ i > f
    PROVE  LET n == [ix EXCEPT !.sec[i] = s] IN
           /\ Relied(n) \subseteq Relied(ix) \cup {s.totp}
                                  \cup (IF s.source = "local" THEN {i} ELSE {})
           /\ \A sn : PinsKept(ix, n, sn)
           /\ ix.sec[i].source = "local" /\ s.source # "local" /\ s.totp = 0
                 => i \notin Relied(n)
           /\ ix.sec[i].totp # 0 /\ (s.totp = 0 \/ s.totp > f)
                 => ix.sec[i].totp \notin Relied(n)
<1> DEFINE n == [ix EXCEPT !.sec[i] = s]
           t == ix.sec[i].totp
<1>t. /\ ix.sec \in [Ids -> IxSecs] /\ ix.con \in [CatConns -> IxCons] /\ ix \in IxType
  BY DEF IxOK, IxType
<1>1. n.sec = [ix.sec EXCEPT ![i] = s] /\ n.con = ix.con /\ n.intg = ix.intg
  BY <1>t DEF IxType
<1>2. \A j \in Ids : n.sec[j] = IF j = i THEN s ELSE ix.sec[j]
  BY <1>1, <1>t
<1> HIDE DEF n
<1>3. \A j \in Ids : /\ ix.sec[j].totp \in 0..CatItems /\ j \in 1..CatItems
                     /\ ix.sec[j].totp # 0 => ix.sec[j].totp \in Ids
                     /\ ix.sec[j].totp <= f
  BY <1>t, IxSecFields, CatAssumption DEF Ids, IxOK, IxBelow
<1>4. \A x : x \in Relied(n) <=>
             \/ x \in Ids /\ n.sec[x].source = "local"
             \/ \E j \in Ids : x = n.sec[j].totp
             \/ \E c \in CatConns : x = ix.con[c].grant
             \/ ix.intg = "token" /\ x = Token
  <2> TAKE x
  <2>1. x \in Relied(n) <=>
             \/ x \in Ids /\ n.sec[x].source = "local"
             \/ \E j \in Ids : x = n.sec[j].totp
             \/ \E c \in CatConns : x = n.con[c].grant
             \/ n.intg = "token" /\ x = Token
    BY ReliedIs
  <2> QED BY <2>1, <1>1
<1>5. Relied(n) \subseteq Relied(ix) \cup {s.totp} \cup (IF s.source = "local" THEN {i} ELSE {})
  <2> SUFFICES ASSUME NEW x \in Relied(n), x # s.totp, s.source = "local" => x # i
               PROVE  x \in Relied(ix)
    OBVIOUS
  <2>1. CASE x \in Ids /\ n.sec[x].source = "local"
    BY <2>1, <1>2, ReliedIs
  <2>2. CASE \E j \in Ids : x = n.sec[j].totp
    <3>1. PICK j \in Ids : x = n.sec[j].totp BY <2>2
    <3>2. x = ix.sec[j].totp BY <3>1, <1>2
    <3> QED BY <3>2, ReliedIs
  <2>3. CASE \/ \E c \in CatConns : x = ix.con[c].grant
             \/ ix.intg = "token" /\ x = Token
    BY <2>3, ReliedIs
  <2> QED BY <2>1, <2>2, <2>3, <1>4
<1>6. \A sn : PinsKept(ix, n, sn)
  BY <1>1 DEF PinsKept
<1>7. ASSUME ix.sec[i].source = "local", s.source # "local", s.totp = 0
      PROVE  i \notin Relied(n)
  <2>1. ~(i \in Ids /\ n.sec[i].source = "local")
    BY <1>7, <1>2
  <2>2. \A j \in Ids : i # n.sec[j].totp
    BY <1>7, <1>2, <1>3 DEF IxOK, IxApart
  <2>3. \A c \in CatConns : i # ix.con[c].grant
    BY <1>7, <1>3 DEF IxOK, IxApart
  <2>4. i # Token
    BY <1>3, CatAssumption DEF Token
  <2> QED BY <2>1, <2>2, <2>3, <2>4, <1>4
<1>8. ASSUME t # 0, s.totp = 0 \/ s.totp > f
      PROVE  t \notin Relied(n)
  <2>0. t \in Ids /\ t <= f /\ t \in 1..CatItems
    BY <1>8, <1>3
  <2>1. n.sec[t].source # "local"
    BY <1>8, <1>2, <1>3, <2>0, CatAssumption DEF IxOK, IxApart
  <2>2. \A j \in Ids : t # n.sec[j].totp
    BY <1>8, <1>2, <1>3, <2>0 DEF IxOK, IxApart
  <2>3. \A c \in CatConns : t # ix.con[c].grant
    BY <1>8 DEF IxOK, IxApart
  <2>4. t # Token
    BY <2>0, CatAssumption DEF Token
  <2> QED BY <2>0, <2>1, <2>2, <2>3, <2>4, <1>4
<1> QED BY <1>5, <1>6, <1>7, <1>8 DEF n

\* The second factor alone.
LEMMA TotpIs ==
    ASSUME NEW ix \in IxType, NEW i \in Ids, NEW t \in 0..CatItems
    PROVE  LET s == [ix.sec[i] EXCEPT !.totp = t]
           IN  /\ [ix EXCEPT !.sec[i].totp = t] = [ix EXCEPT !.sec[i] = s]
               /\ s \in IxSecs /\ s.totp = t /\ s.source = ix.sec[i].source
               /\ s.name = ix.sec[i].name
<1>1. ix.sec[i] \in IxSecs
  BY DEF IxType
<1>2. [ix.sec[i] EXCEPT !.totp = t] \in IxSecs
  BY <1>1 DEF IxSecs
<1> QED BY <1>1, <1>2 DEF IxType, IxSecs

\* Facts about the state that every operation starts from.
LEMMA CatStart ==
    ASSUME CatInv
    PROVE  /\ IxOK(mem, fresh, born) /\ mem \in IxType
           /\ fresh \in 0..CatItems /\ fresh \in Nat
           /\ \A i \in Ids : /\ mem.sec[i] \in IxSecs /\ i \in 1..CatItems
                             /\ i <= fresh \/ ~Secret(mem.sec[i])
           /\ \A i \in Ids : \A c \in CatConns : i \in mem.con[c].bound => Secret(mem.sec[i])
           /\ \A c \in CatConns : mem.con[c] \in IxCons
BY CatAssumption DEF CatInv, IxOK, IxType, IxBelow, IxResolves, Ids

\* What was not handed out yet is not relied on.
LEMMA FreshUnused ==
    ASSUME CatInv, NEW x \in Ids, x > fresh
    PROVE  x \notin Relied(mem) /\ x \notin Relied(disk) /\ ~Secret(mem.sec[x])
           /\ \A c \in CatConns : x \notin mem.con[c].bound
<1>1. x \in 1..CatItems
  BY CatStart
<1>2. x # Token /\ ~(x <= fresh)
  BY <1>1, CatStart, CatAssumption DEF Token
<1>3. x \notin Relied(mem) /\ x \notin Relied(disk)
  BY <1>2, CatStart, ReliedItems DEF CatInv
<1> QED BY <1>2, <1>3, CatStart

----------------------------------------------------------------------------
(* The operations on secrets                                               *)

\* A secret is set by a plan that stages its fresh items.
LEMMA SetSecKeeps ==
    ASSUME CatInv, NEW used \in Nat, NEW i \in Ids, NEW s \in IxSecs,
           NEW stage \in SUBSET Ids, NEW tidy \in SUBSET (0..CatItems),
           \A x \in stage : x > fresh,
           Secret(s), i <= fresh + used, s.name \in CatNames,
           \/ ~Secret(mem.sec[i]) /\ s.name \notin NamesOf(mem)
           \/ Secret(mem.sec[i]) /\ s.name = mem.sec[i].name,
           s.totp = 0 \/ (s.totp \in stage /\ s.totp <= fresh + used /\ s.totp # i),
           \/ s.source = "local" /\ mem.sec[i].source = "local"
           \/ s.source = "local" /\ i > fresh /\ i \in stage
           \/ s.source # "local",
           tidy \subseteq {0, mem.sec[i].totp},
           mem.sec[i].totp # 0 => s.totp # mem.sec[i].totp,
           Start(Plan([mem EXCEPT !.sec[i] = s], stage, stage, "none", 0, tidy), used)
    PROVE  CatInv'
<1> DEFINE n == [mem EXCEPT !.sec[i] = s]
           g == fresh + used
<1>1. g \in 0..CatItems /\ fresh <= g
  BY CatStart, CatAssumption DEF Start, StartAs
<1>2. \A c \in CatConns : ~Secret(mem.sec[i]) => i \notin mem.con[c].bound
  BY CatStart
<1>3. \/ s.totp = 0
      \/ s.totp > fresh /\ s.totp <= g /\ s.totp # i
  OBVIOUS
<1>4. s.source = "local" => mem.sec[i].source = "local" \/ i > fresh
  OBVIOUS
<1>5. IxOK(n, g, born)
  <2>1. IxOK(mem, fresh, born) /\ fresh \in 0..CatItems
    BY CatStart
  <2>2. Secret(s) => i <= g /\ s.name \in CatNames
    OBVIOUS
  <2>3. \/ /\ \A c \in CatConns : i \notin mem.con[c].bound
           /\ Secret(s) => s.name \notin NamesOf(mem)
        \/ Secret(s) /\ Secret(mem.sec[i]) /\ s.name = mem.sec[i].name
    BY <1>2
  <2>4. \/ s.totp = 0
        \/ s.totp = mem.sec[i].totp
        \/ s.totp > fresh /\ s.totp <= g /\ s.totp # i
    BY <1>3
  <2> HIDE DEF g
  <2> QED BY <1>1, <1>4, <2>1, <2>2, <2>3, <2>4, SecKeeps
<1>6. /\ Relied(n) \subseteq Relied(mem) \cup {s.totp}
                                  \cup (IF s.source = "local" THEN {i} ELSE {})
      /\ \A sn : PinsKept(mem, n, sn)
      /\ mem.sec[i].totp # 0 /\ (s.totp = 0 \/ s.totp > fresh)
                 => mem.sec[i].totp \notin Relied(n)
  BY <1>4, CatStart, SecRelied
<1>7. mem.sec[i].source = "local" => i \in Relied(mem)
  BY ReliedIs
<1>8. n \in IxType
  BY <1>5 DEF IxOK
<1>9. \A x \in stage : x \in 1..Token
  BY CatAssumption DEF Ids, Token
<1> HIDE DEF n, g
<1>10. Relied(n) \subseteq Relied(mem) \cup stage \cup {0}
  BY <1>6, <1>7
<1>11. Free(stage)
  BY FreshUnused DEF Free
<1>12. tidy \cap Relied(n) \subseteq {0}
  BY <1>6, <1>3
<1>13. Prepared(Plan(n, stage, stage, "none", 0, tidy), mem, g, born, seen)
  <2>1. stage \in SUBSET (1..Token) /\ stage \in SUBSET stage /\ 0 \in 0..Token
    BY <1>9, CatAssumption DEF Token
  <2>2. PinsKept(mem, n, seen)
    BY <1>6
  <2>3. "none" \in Stricts /\ "none" \notin {"del", "purge"}
    BY DEF Stricts
  <2> QED BY <1>5, <1>8, <1>10, <1>11, <1>12, <2>1, <2>2, <2>3, PrepareIs
<1> QED BY <1>13, StartPlain DEF n, g

\* Two ids are two.
LEMMA CatPairSize ==
    ASSUME NEW a, NEW b, a # b
    PROVE  Cardinality({a, b}) = 2
<1>1. IsFiniteSet({a}) /\ Cardinality({a}) = 1
  BY FS_Singleton
<1>2. {a, b} = {a} \cup {b} /\ b \notin {a}
  OBVIOUS
<1>3. Cardinality({a} \cup {b}) = Cardinality({a}) + 1
  BY <1>1, <1>2, FS_AddElement
<1> QED BY <1>1, <1>2, <1>3

\* AddCredential keeps the invariant.
LEMMA AddCredentialKeeps ==
    ASSUME CatInv, NEW name \in CatNames, NEW factor \in BOOLEAN,
           AddCredential(name, factor)
    PROVE  CatInv'
<1> DEFINE ids == IF factor THEN {NewId, fresh + 2} ELSE {NewId}
           s == [name |-> name, source |-> "local", totp |-> IF factor THEN fresh + 2 ELSE 0]
           u == IF factor THEN 2 ELSE 1
<1>1. /\ name \notin NamesOf(mem) /\ NewId \in Ids
      /\ Start(Plan([mem EXCEPT !.sec[NewId] = s], ids, ids, "none", 0, {}), Cardinality(ids))
  BY DEF AddCredential
<1>2. fresh \in Nat /\ NewId = fresh + 1 /\ NewId # fresh + 2
  BY CatStart DEF NewId
<1>3. Cardinality(ids) = u
  <2>1. CASE factor
    <3>1. Cardinality({NewId, fresh + 2}) = 2
      BY <1>2, CatPairSize
    <3> QED BY <3>1, <2>1
  <2>2. CASE ~factor
    BY <2>2, FS_Singleton
  <2> QED BY <2>1, <2>2
<1>4. u \in Nat /\ (factor => u = 2) /\ (~factor => u = 1)
  OBVIOUS
<1>5. fresh + u <= CatItems
  BY <1>1, <1>3 DEF Start, StartAs
<1>6. ids \in SUBSET Ids /\ \A x \in ids : x > fresh
  BY <1>1, <1>2, <1>4, <1>5, CatAssumption DEF Ids
<1>7. s \in IxSecs
  <2>1. name \in IxNames
    BY DEF IxNames
  <2>2. (IF factor THEN fresh + 2 ELSE 0) \in 0..CatItems
    BY <1>2, <1>4, <1>5, CatAssumption
  <2> QED BY <2>1, <2>2 DEF IxSecs
<1>8. /\ s.name = name /\ s.source = "local" /\ (~factor => s.totp = 0)
      /\ factor => s.totp = fresh + 2 /\ s.totp \in ids
      /\ NewId \in ids
  OBVIOUS
<1>9. ~Secret(mem.sec[NewId])
  BY <1>1, <1>2, FreshUnused
<1>10. Start(Plan([mem EXCEPT !.sec[NewId] = s], ids, ids, "none", 0, {}), u)
  BY <1>1, <1>3
<1>11. mem.sec[NewId].totp <= fresh
  BY <1>1, CatStart DEF IxOK, IxBelow
<1>12. mem.sec[NewId].totp # 0 => s.totp # mem.sec[NewId].totp
  BY <1>2, <1>8, <1>11, CatStart, IxSecFields, <1>1
<1>13. /\ \/ s.totp = 0
          \/ s.totp \in ids /\ s.totp <= fresh + u /\ s.totp # NewId
       /\ NewId <= fresh + u /\ NewId > fresh
  BY <1>2, <1>4, <1>8
<1>14. Secret(s)
  BY <1>8 DEF Secret
<1>15. {} \in SUBSET (0..CatItems) /\ {} \subseteq {0, mem.sec[NewId].totp}
  OBVIOUS
<1> HIDE DEF ids, s, u
<1> QED BY <1>1, <1>4, <1>6, <1>7, <1>8, <1>9, <1>10, <1>12, <1>13, <1>14, <1>15, SetSecKeeps

\* SetTotp keeps the invariant: the new factor has an item of its own.
LEMMA SetTotpKeeps ==
    ASSUME CatInv, NEW i \in Ids, SetTotp(i)
    PROVE  CatInv'
<1> DEFINE s == [mem.sec[i] EXCEPT !.totp = NewId]
           t == mem.sec[i].totp
<1>1. /\ mem.sec[i].source = "local" /\ NewId \in Ids
      /\ Start(Plan([mem EXCEPT !.sec[i].totp = NewId], {NewId}, {NewId},
                    "none", 0, {t}), 1)
  BY DEF SetTotp
<1>2. /\ fresh \in Nat /\ NewId = fresh + 1 /\ NewId \in 0..CatItems /\ mem \in IxType
      /\ mem.sec[i] \in IxSecs
  BY CatStart, <1>1, CatAssumption DEF NewId, Ids
<1>3. /\ [mem EXCEPT !.sec[i].totp = NewId] = [mem EXCEPT !.sec[i] = s]
      /\ s \in IxSecs /\ s.totp = NewId /\ s.source = mem.sec[i].source
      /\ s.name = mem.sec[i].name
  BY <1>2, TotpIs
<1>4. Secret(mem.sec[i]) /\ Secret(s)
  BY <1>1, <1>3 DEF Secret
<1>5. i <= fresh /\ i \in Nat /\ t <= fresh /\ t \in 0..CatItems
  BY <1>2, <1>4, CatStart, CatAssumption, IxSecFields DEF IxOK, IxBelow
<1>6. s.name \in CatNames
  BY <1>3, <1>4, CatStart DEF IxOK, IxNamed
<1>7. {t} \in SUBSET (0..CatItems) /\ {t} \subseteq {0, t}
  BY <1>5
<1>8. /\ {NewId} \in SUBSET Ids /\ \A x \in {NewId} : x > fresh
      /\ i <= fresh + 1 /\ NewId <= fresh + 1 /\ NewId # i /\ NewId # t
  BY <1>1, <1>2, <1>5
<1>9. Start(Plan([mem EXCEPT !.sec[i] = s], {NewId}, {NewId}, "none", 0, {t}), 1)
  BY <1>1, <1>3
<1> HIDE DEF s
<1> QED BY <1>1, <1>3, <1>4, <1>6, <1>7, <1>8, <1>9, SetSecKeeps

\* A plan whose vault write follows the index, or that has none.
LEMMA StrictIs ==
    ASSUME NEW m, NEW f, NEW b, NEW sn, NEW next, IxOK(next, f, b),
           NEW strict \in Stricts, NEW item \in 0..Token,
           NEW tidy \in SUBSET (0..CatItems),
           strict \in {"del", "purge"} => item # 0 /\ item \notin Relied(next),
           tidy \cap Relied(next) \subseteq {0},
           Relied(next) \subseteq Relied(m) \cup {0}, PinsKept(m, next, sn)
    PROVE  Prepared(Plan(next, {}, {}, strict, item, tidy), m, f, b, sn)
<1>1. next \in IxType
  BY DEF IxOK
<1>2. Relied(next) \subseteq Relied(m) \cup {} \cup {0}
  OBVIOUS
<1>3. Free({}) /\ {} \in SUBSET (1..Token) /\ {} \in SUBSET {}
  BY DEF Free
<1>4. strict # "none" => {} = {}
  OBVIOUS
<1> QED BY <1>1, <1>2, <1>3, <1>4, PrepareIs

\* What memory holds, prepared as it is.
LEMMA SameIndex ==
    ASSUME CatInv
    PROVE  /\ IxOK(mem, fresh + 0, born) /\ Relied(mem) \subseteq Relied(mem) \cup {0}
           /\ PinsKept(mem, mem, seen) /\ fresh + 0 = fresh
           /\ {} \cap Relied(mem) \subseteq {0} /\ {} \in SUBSET (0..CatItems)
BY CatStart DEF PinsKept

\* ReplaceValue, ReplaceToken and TouchIndex keep the invariant.
LEMMA ReplaceKeeps ==
    ASSUME CatInv, NEW item \in 0..Token, NEW strict \in {"none", "set"},
           Start(Plan(mem, {}, {}, strict, item, {}), 0)
    PROVE  CatInv'
<1>1. strict \in Stricts /\ strict \notin {"del", "purge"}
  BY DEF Stricts
<1>2. strict \in {"del", "purge"} => item # 0 /\ item \notin Relied(mem)
  OBVIOUS
<1>3. Prepared(Plan(mem, {}, {}, strict, item, {}), mem, fresh + 0, born, seen)
  BY <1>1, <1>2, SameIndex, StrictIs
<1> QED BY <1>3, StartPlain

\* ClearTotp keeps the invariant: the index lets go of the factor first.
LEMMA ClearTotpKeeps ==
    ASSUME CatInv, NEW i \in Ids, ClearTotp(i)
    PROVE  CatInv'
<1> DEFINE s == [mem.sec[i] EXCEPT !.totp = 0]
           t == mem.sec[i].totp
           n == [mem EXCEPT !.sec[i] = s]
<1>1. t # 0 /\ Start(Plan([mem EXCEPT !.sec[i].totp = 0], {}, {}, "del", t, {}), 0)
  BY DEF ClearTotp
<1>2. fresh \in Nat /\ fresh \in 0..CatItems /\ mem \in IxType /\ mem.sec[i] \in IxSecs
      /\ IxOK(mem, fresh, born) /\ fresh + 0 = fresh /\ i \in 1..CatItems /\ 0 \in 0..CatItems
  BY CatStart, CatAssumption
<1>3. /\ [mem EXCEPT !.sec[i].totp = 0] = n
      /\ s \in IxSecs /\ s.totp = 0 /\ s.source = mem.sec[i].source
      /\ s.name = mem.sec[i].name
  BY <1>2, TotpIs
<1>4. t \in 0..Token /\ t \in Ids
  BY <1>1, <1>2, IxSecFields, CatAssumption DEF Token, Ids
<1>5. /\ Relied(n) \subseteq Relied(mem) \cup {s.totp}
                                  \cup (IF s.source = "local" THEN {i} ELSE {})
      /\ \A sn : PinsKept(mem, n, sn)
      /\ t # 0 /\ (s.totp = 0 \/ s.totp > fresh) => t \notin Relied(n)
  BY <1>2, <1>3, SecRelied
<1>6. mem.sec[i].source = "local" => i \in Relied(mem)
  BY ReliedIs
<1>7. Relied(n) \subseteq Relied(mem) \cup {0} /\ t \notin Relied(n)
  BY <1>1, <1>3, <1>5, <1>6
<1>8. IxOK(n, fresh, born)
  <2>1. Secret(s) <=> Secret(mem.sec[i])
    BY <1>3 DEF Secret
  <2>2. Secret(s) => i <= fresh /\ s.name \in CatNames
    BY <2>1, <1>2, <1>3 DEF IxOK, IxBelow, IxNamed
  <2>3. \/ /\ \A c \in CatConns : i \notin mem.con[c].bound
           /\ Secret(s) => s.name \notin NamesOf(mem)
        \/ Secret(s) /\ Secret(mem.sec[i]) /\ s.name = mem.sec[i].name
    BY <2>1, <1>3, CatStart
  <2>4. fresh <= fresh /\ (s.source = "local" => mem.sec[i].source = "local" \/ i > fresh)
    BY <1>2, <1>3
  <2>5. \/ s.totp = 0
        \/ s.totp = mem.sec[i].totp
        \/ s.totp > fresh /\ s.totp <= fresh /\ s.totp # i
    BY <1>3
  <2> HIDE DEF s
  <2> QED BY <1>2, <1>3, <2>2, <2>3, <2>4, <2>5, SecKeeps
<1>9. Start(Plan(n, {}, {}, "del", t, {}), 0)
  BY <1>1, <1>3
<1> HIDE DEF n, s, t
<1>10. PinsKept(mem, n, seen) /\ {} \cap Relied(n) \subseteq {0} /\ {} \in SUBSET (0..CatItems)
  BY <1>5
<1>11. "del" \in Stricts
  BY DEF Stricts
<1>12. Prepared(Plan(n, {}, {}, "del", t, {}), mem, fresh, born, seen)
  BY <1>1, <1>4, <1>7, <1>8, <1>10, <1>11, StrictIs
<1> QED BY <1>2, <1>9, <1>12, StartPlain

\* The empty secret.
LEMMA NoSecretIs == NoSecret \in IxSecs /\ ~Secret(NoSecret) /\ NoSecret.totp = 0
                    /\ NoSecret.source # "local"
<1>1. NoSecret.name \in IxNames
  BY DEF IxNames
<1>2. ASSUME NEW m \in IxNames, NEW z \in 0..CatItems
      PROVE  [name |-> m, source |-> "none", totp |-> z] \in IxSecs
  BY DEF IxSecs
<1>3. NoSecret = [name |-> NoSecret.name, source |-> "none", totp |-> 0]
  BY DEF NoSecret
<1>4. 0 \in 0..CatItems
  BY CatAssumption
<1>5. NoSecret \in IxSecs
  <2> DEFINE blank == NoSecret.name
  <2>1. blank \in IxNames /\ NoSecret = [name |-> blank, source |-> "none", totp |-> 0]
    BY <1>1, <1>3
  <2> HIDE DEF blank
  <2>2. [name |-> blank, source |-> "none", totp |-> 0] \in IxSecs
    BY <2>1, <1>2, <1>4
  <2> QED BY <2>1, <2>2
<1>6. ASSUME NEW m
      PROVE  LET none == [name |-> m, source |-> "none", totp |-> 0]
             IN  none.source = "none" /\ none.totp = 0
  OBVIOUS
<1>7. NoSecret.source = "none" /\ NoSecret.totp = 0
  BY <1>3, <1>6
<1> QED BY <1>5, <1>7 DEF Secret

\* DeleteSecret keeps the invariant: nothing is bound to it or shares its items.
LEMMA DeleteSecretKeeps ==
    ASSUME CatInv, NEW i \in Ids, DeleteSecret(i)
    PROVE  CatInv'
<1> DEFINE t == mem.sec[i].totp
           n == [mem EXCEPT !.sec[i] = NoSecret]
<1>1. /\ Secret(mem.sec[i]) /\ \A c \in CatConns : i \notin mem.con[c].bound
      /\ Start(IF mem.sec[i].source = "local" THEN Plan(n, {}, {}, "purge", i, {t})
               ELSE Commit(n), 0)
  BY DEF DeleteSecret, Users
<1>2. fresh \in Nat /\ fresh \in 0..CatItems /\ mem \in IxType /\ mem.sec[i] \in IxSecs
      /\ IxOK(mem, fresh, born) /\ fresh + 0 = fresh /\ i \in 1..CatItems
  BY CatStart
<1>3. i \in 0..Token /\ i # 0 /\ {t} \in SUBSET (0..CatItems)
  BY <1>2, IxSecFields, CatAssumption DEF Token
<1>4. /\ Relied(n) \subseteq Relied(mem) \cup {NoSecret.totp}
                        \cup (IF NoSecret.source = "local" THEN {i} ELSE {})
      /\ \A sn : PinsKept(mem, n, sn)
      /\ mem.sec[i].source = "local" /\ NoSecret.source # "local" /\ NoSecret.totp = 0
             => i \notin Relied(n)
      /\ t # 0 /\ (NoSecret.totp = 0 \/ NoSecret.totp > fresh) => t \notin Relied(n)
  BY <1>2, NoSecretIs, SecRelied
<1>5. IxOK(n, fresh, born)
  <2>1. Secret(NoSecret) => i <= fresh /\ NoSecret.name \in CatNames
    BY NoSecretIs
  <2>2. \/ /\ \A c \in CatConns : i \notin mem.con[c].bound
           /\ Secret(NoSecret) => NoSecret.name \notin NamesOf(mem)
        \/ Secret(NoSecret) /\ Secret(mem.sec[i]) /\ NoSecret.name = mem.sec[i].name
    BY <1>1, NoSecretIs
  <2>3. /\ fresh <= fresh
        /\ NoSecret.source = "local" => mem.sec[i].source = "local" \/ i > fresh
    BY <1>2, NoSecretIs
  <2>4. \/ NoSecret.totp = 0
        \/ NoSecret.totp = mem.sec[i].totp
        \/ NoSecret.totp > fresh /\ NoSecret.totp <= fresh /\ NoSecret.totp # i
    BY NoSecretIs
  <2> QED BY <1>2, NoSecretIs, <2>1, <2>2, <2>3, <2>4, SecKeeps
<1> HIDE DEF n, t
<1>6. Relied(n) \subseteq Relied(mem) \cup {0} /\ PinsKept(mem, n, seen)
  BY <1>4, NoSecretIs
<1>7. CASE mem.sec[i].source = "local"
  <2>1. i \notin Relied(n) /\ {t} \cap Relied(n) \subseteq {0}
    BY <1>4, <1>7, NoSecretIs
  <2>2. "purge" \in Stricts /\ i # 0 /\ i \notin Relied(n)
    BY <2>1, <1>3 DEF Stricts
  <2>3. Prepared(Plan(n, {}, {}, "purge", i, {t}), mem, fresh, born, seen)
    BY <1>3, <1>5, <1>6, <2>1, <2>2, StrictIs
  <2>4. Start(Plan(n, {}, {}, "purge", i, {t}), 0)
    BY <1>1, <1>7
  <2> QED BY <1>2, <2>3, <2>4, StartPlain
<1>8. CASE mem.sec[i].source # "local"
  <2>1. Prepared(Commit(n), mem, fresh, born, seen)
    BY <1>5, <1>6, CommitIs
  <2> QED BY <1>1, <1>2, <1>8, <2>1, StartPlain
<1> QED BY <1>7, <1>8

\* RenameSecret keeps the invariant.
LEMMA RenameSecretKeeps ==
    ASSUME CatInv, NEW i \in Ids, NEW name \in CatNames, NEW t \in Now,
           RenameSecret(i, name, t)
    PROVE  CatInv'
<1> DEFINE n == Renamed(mem, i, name, t)
<1>1. /\ Secret(mem.sec[i]) /\ name \notin NamesOf(mem)
      /\ \A c \in CatConns : mem.con[c].ver < CatMaxVer
      /\ Start(IF mem.sec[i].source = "local" THEN Plan(n, {}, {}, "attrs", i, {})
               ELSE Commit(n), 0)
  BY DEF RenameSecret
<1>2. fresh \in Nat /\ fresh \in 0..CatItems /\ IxOK(mem, fresh, born) /\ fresh + 0 = fresh
      /\ i \in 0..Token
  BY CatStart, CatAssumption DEF Token
<1>3. /\ IxOK(n, fresh, born) /\ Relied(n) = Relied(mem)
      /\ \A c \in CatConns : n.con[c].pin = mem.con[c].pin /\ n.con[c].kind = mem.con[c].kind
  BY <1>1, <1>2, RenameKeeps
<1> HIDE DEF n
<1>4. PinsKept(mem, n, seen)
  BY <1>3 DEF PinsKept
<1>5. Relied(n) \subseteq Relied(mem) \cup {0} /\ {} \cap Relied(n) \subseteq {0}
      /\ {} \in SUBSET (0..CatItems)
  BY <1>3
<1>6. "attrs" \in Stricts /\ "attrs" \notin {"del", "purge"}
  BY DEF Stricts
<1>7. Prepared(Plan(n, {}, {}, "attrs", i, {}), mem, fresh, born, seen)
  BY <1>2, <1>3, <1>4, <1>5, <1>6, StrictIs
<1>8. Prepared(Commit(n), mem, fresh, born, seen)
  BY <1>3, <1>4, <1>5, CommitIs
<1>9. CASE mem.sec[i].source = "local"
  BY <1>1, <1>2, <1>7, <1>9, StartPlain
<1>10. CASE mem.sec[i].source # "local"
  BY <1>1, <1>2, <1>8, <1>10, StartPlain
<1> QED BY <1>9, <1>10

\* The integration is a field of its own.
LEMMA IntgKeeps ==
    ASSUME NEW ix, NEW f \in 0..CatItems, NEW b, IxOK(ix, f, b),
           NEW a \in {"none", "token", "desktop"}, a = "token" => Linked \in b
    PROVE  LET n == [ix EXCEPT !.intg = a] IN
           /\ IxOK(n, f, b)
           /\ Relied(n) \subseteq Relied(ix) \cup (IF a = "token" THEN {Token} ELSE {})
           /\ a # "token" => Token \notin Relied(n)
           /\ \A sn : PinsKept(ix, n, sn)
<1> DEFINE n == [ix EXCEPT !.intg = a]
<1>1. n \in IxType /\ n.sec = ix.sec /\ n.con = ix.con /\ n.intg = a
  BY DEF IxOK, IxType
<1> HIDE DEF n
<1>2. IxNamed(n) /\ IxApart(n) /\ IxBelow(n, f, b)
  BY <1>1 DEF IxOK, IxNamed, IxApart, IxBelow
<1>3. IxResolves(n)
  <2>1. NamesOf(n) = NamesOf(ix) /\ \A ns : IdsNamed(n, ns) = IdsNamed(ix, ns)
    BY <1>1 DEF NamesOf, IdsNamed
  <2> QED BY <2>1, <1>1 DEF IxOK, IxResolves
<1>4. IxOK(n, f, b)
  BY <1>1, <1>2, <1>3 DEF IxOK
<1>5. Relied(n) \subseteq Relied(ix) \cup (IF a = "token" THEN {Token} ELSE {})
  <2> SUFFICES ASSUME NEW x \in Relied(n), x \notin Relied(ix) PROVE a = "token" /\ x = Token
    OBVIOUS
  <2>1. \/ x \in Ids /\ ix.sec[x].source = "local"
        \/ \E i \in Ids : x = ix.sec[i].totp
        \/ \E c \in CatConns : x = ix.con[c].grant
        \/ a = "token" /\ x = Token
    <3>1. \/ x \in Ids /\ n.sec[x].source = "local"
          \/ \E i \in Ids : x = n.sec[i].totp
          \/ \E c \in CatConns : x = n.con[c].grant
          \/ n.intg = "token" /\ x = Token
      BY ReliedIs
    <3> QED BY <3>1, <1>1
  <2> QED BY <2>1, ReliedIs
<1>6. a # "token" => Token \notin Relied(n)
  BY <1>1, <1>4, ReliedItems
<1>7. \A sn : PinsKept(ix, n, sn)
  BY <1>1 DEF PinsKept
<1> QED BY <1>4, <1>5, <1>6, <1>7 DEF n

\* AddOnePasswordSecret keeps the invariant.
LEMMA AddOnePasswordKeeps ==
    ASSUME CatInv, NEW name \in CatNames, AddOnePasswordSecret(name)
    PROVE  CatInv'
<1> DEFINE s == [name |-> name, source |-> "op", totp |-> 0]
           n == [mem EXCEPT !.sec[NewId] = s]
<1>1. name \notin NamesOf(mem) /\ NewId \in Ids /\ Start(Commit(n), 1)
  BY DEF AddOnePasswordSecret
<1>2. fresh \in Nat /\ fresh \in 0..CatItems /\ IxOK(mem, fresh, born)
      /\ NewId = fresh + 1 /\ fresh <= NewId /\ NewId \in 0..CatItems
  BY <1>1, CatStart, CatAssumption DEF NewId, Ids
<1>3. name \in IxNames /\ 0 \in 0..CatItems
  BY CatAssumption DEF IxNames
<1>4. s \in IxSecs /\ s.totp = 0 /\ s.source # "local" /\ s.name = name
  BY <1>3 DEF IxSecs
<1>5. IxOK(n, NewId, born)
  <2>1. Secret(s) => NewId <= NewId /\ s.name \in CatNames
    BY <1>2, <1>4
  <2>2. \/ /\ \A c \in CatConns : NewId \notin mem.con[c].bound
           /\ Secret(s) => s.name \notin NamesOf(mem)
        \/ Secret(s) /\ Secret(mem.sec[NewId]) /\ s.name = mem.sec[NewId].name
    BY <1>1, <1>2, <1>4, FreshUnused
  <2>3. \/ s.totp = 0
        \/ s.totp = mem.sec[NewId].totp
        \/ s.totp > fresh /\ s.totp <= NewId /\ s.totp # NewId
    BY <1>4
  <2>4. s.source = "local" => mem.sec[NewId].source = "local" \/ NewId > fresh
    BY <1>4
  <2> HIDE DEF s
  <2> QED BY <1>1, <1>2, <1>4, <2>1, <2>2, <2>3, <2>4, SecKeeps
<1>6. /\ Relied(n) \subseteq Relied(mem) \cup {s.totp}
                                  \cup (IF s.source = "local" THEN {NewId} ELSE {})
      /\ \A sn : PinsKept(mem, n, sn)
  <2>1. s.source = "local" => mem.sec[NewId].source = "local" \/ NewId > fresh
    BY <1>4
  <2> HIDE DEF s
  <2> QED BY <1>1, <1>2, <1>4, <2>1, SecRelied
<1>7. Relied(n) \subseteq Relied(mem) \cup {0} /\ PinsKept(mem, n, seen)
  BY <1>4, <1>6
<1> HIDE DEF n, s
<1>8. Prepared(Commit(n), mem, fresh + 1, born, seen)
  BY <1>2, <1>5, <1>7, CommitIs
<1> QED BY <1>1, <1>8, StartPlain

\* AddIntegration keeps the invariant: a token is staged.
LEMMA AddIntegrationKeeps ==
    ASSUME CatInv, NEW a \in {"token", "desktop"}, AddIntegration(a)
    PROVE  CatInv'
<1> DEFINE n == [mem EXCEPT !.intg = a]
           st == IF a = "token" THEN {Token} ELSE {}
           e == born \cup {Linked}
<1>1. Linked \notin born /\ StartAs(Plan(n, st, st, "none", 0, {}), 0, {Linked})
  BY DEF AddIntegration
<1>2. fresh \in 0..CatItems /\ fresh \in Nat /\ fresh <= fresh /\ fresh + 0 = fresh
      /\ IxOK(mem, fresh, born) /\ IxOK(disk, fresh, born)
  BY CatStart DEF CatInv
<1>3. /\ IxOK(n, fresh, e)
      /\ Relied(n) \subseteq Relied(mem) \cup st
      /\ \A sn : PinsKept(mem, n, sn)
  <2>1. IxOK(mem, fresh, e)
    BY <1>2, IxGrows
  <2>2. Linked \in e
    OBVIOUS
  <2> HIDE DEF e
  <2> QED BY <1>2, <2>1, <2>2, IntgKeeps
<1>4. st \in SUBSET (1..Token) /\ st \in SUBSET st /\ 0 \in 0..Token
  BY CatAssumption DEF Token
<1>5. Free(st)
  <2>1. Token \notin Relied(mem) /\ Token \notin Relied(disk)
    BY <1>1, <1>2, ReliedItems DEF IxOK, IxBelow
  <2> QED BY <2>1 DEF Free
<1> HIDE DEF n, st
<1>6. /\ n \in IxType /\ Relied(n) \subseteq Relied(mem) \cup st \cup {0}
      /\ {} \cap Relied(n) \subseteq {0} /\ {} \in SUBSET (0..CatItems)
      /\ PinsKept(mem, n, seen)
  BY <1>3 DEF IxOK
<1>7. "none" \in Stricts /\ "none" \notin {"del", "purge"}
  BY DEF Stricts
<1>8. Prepared(Plan(n, st, st, "none", 0, {}), mem, fresh, e, seen)
  BY <1>3, <1>4, <1>5, <1>6, <1>7, PrepareIs
<1> QED BY <1>1, <1>2, <1>8, StartKeeps

\* DeleteIntegration keeps the invariant.
LEMMA DeleteIntegrationKeeps ==
    ASSUME CatInv, DeleteIntegration
    PROVE  CatInv'
<1> DEFINE n == [mem EXCEPT !.intg = "none"]
<1>1. Start(IF mem.intg = "token" THEN Plan(n, {}, {}, "purge", Token, {}) ELSE Commit(n), 0)
  BY DEF DeleteIntegration
<1>2. fresh \in 0..CatItems /\ IxOK(mem, fresh, born) /\ fresh + 0 = fresh
  BY CatStart
<1>3. /\ IxOK(n, fresh, born)
      /\ Relied(n) \subseteq Relied(mem) \cup (IF "none" = "token" THEN {Token} ELSE {})
      /\ "none" # "token" => Token \notin Relied(n)
      /\ \A sn : PinsKept(mem, n, sn)
  BY <1>2, IntgKeeps
<1>4. Token \in 0..Token /\ Token # 0
  BY CatAssumption DEF Token
<1> HIDE DEF n
<1>5. /\ Relied(n) \subseteq Relied(mem) \cup {0} /\ {} \cap Relied(n) \subseteq {0}
      /\ {} \in SUBSET (0..CatItems) /\ PinsKept(mem, n, seen)
      /\ "purge" \in Stricts
      /\ Token # 0 /\ Token \notin Relied(n)
  BY <1>3, <1>4 DEF Stricts
<1>6. Prepared(Plan(n, {}, {}, "purge", Token, {}), mem, fresh, born, seen)
  BY <1>3, <1>4, <1>5, StrictIs
<1>7. Prepared(Commit(n), mem, fresh, born, seen)
  BY <1>3, <1>5, CommitIs
<1>8. CASE mem.intg = "token"
  BY <1>1, <1>2, <1>6, <1>8, StartPlain
<1>9. CASE mem.intg # "token"
  BY <1>1, <1>2, <1>7, <1>9, StartPlain
<1> QED BY <1>8, <1>9

----------------------------------------------------------------------------
(* The operations on connections                                           *)

\* What an index relies on after one connection was set.
LEMMA ConRelied ==
    ASSUME NEW ix, NEW f \in 0..CatItems, NEW b, IxOK(ix, f, b), NEW c \in CatConns,
           NEW k \in IxCons
    PROVE  LET n == [ix EXCEPT !.con[c] = k] IN
           /\ Relied(n) \subseteq Relied(ix) \cup {k.grant}
           /\ k.grant = 0 /\ ix.con[c].grant # 0 => ix.con[c].grant \notin Relied(n)
           /\ \A sn : (ix.con[c].pin = 1 /\ Con(k) /\ k.pin = 0 => sn[c].pin = 1)
                 => PinsKept(ix, n, sn)
<1> DEFINE n == [ix EXCEPT !.con[c] = k]
           t == ix.con[c].grant
<1>t. ix.sec \in [Ids -> IxSecs] /\ ix.con \in [CatConns -> IxCons] /\ ix \in IxType
  BY DEF IxOK, IxType
<1>1. n.con = [ix.con EXCEPT ![c] = k] /\ n.sec = ix.sec /\ n.intg = ix.intg
  BY <1>t DEF IxType
<1>2. \A d \in CatConns : n.con[d] = IF d = c THEN k ELSE ix.con[d]
  BY <1>1, <1>t
<1> HIDE DEF n
<1>3. \A x : x \in Relied(n) <=>
             \/ x \in Ids /\ ix.sec[x].source = "local"
             \/ \E j \in Ids : x = ix.sec[j].totp
             \/ \E d \in CatConns : x = n.con[d].grant
             \/ ix.intg = "token" /\ x = Token
  <2> TAKE x
  <2>1. x \in Relied(n) <=>
             \/ x \in Ids /\ n.sec[x].source = "local"
             \/ \E j \in Ids : x = n.sec[j].totp
             \/ \E d \in CatConns : x = n.con[d].grant
             \/ n.intg = "token" /\ x = Token
    BY ReliedIs
  <2> QED BY <2>1, <1>1
<1>4. Relied(n) \subseteq Relied(ix) \cup {k.grant}
  <2> SUFFICES ASSUME NEW x \in Relied(n), x # k.grant PROVE x \in Relied(ix)
    OBVIOUS
  <2>1. CASE \E d \in CatConns : x = n.con[d].grant
    <3>1. PICK d \in CatConns : x = n.con[d].grant BY <2>1
    <3>2. x = ix.con[d].grant BY <3>1, <1>2
    <3> QED BY <3>2, ReliedIs
  <2>2. CASE \/ x \in Ids /\ ix.sec[x].source = "local"
             \/ \E j \in Ids : x = ix.sec[j].totp
             \/ ix.intg = "token" /\ x = Token
    BY <2>2, ReliedIs
  <2> QED BY <2>1, <2>2, <1>3
<1>5. ASSUME k.grant = 0, t # 0 PROVE t \notin Relied(n)
  <2>1. t \in 1..CatItems
    BY <1>5, <1>t, CatAssumption DEF IxCons
  <2>2. t # Token /\ ix.sec[t].source # "local"
    BY <1>5, <2>1, CatAssumption DEF IxOK, IxApart, Token
  <2>3. \A j \in Ids : t # ix.sec[j].totp
    BY <1>5 DEF IxOK, IxApart
  <2>4. \A d \in CatConns : t # n.con[d].grant
    BY <1>2, <1>5 DEF IxOK, IxApart
  <2> QED BY <2>2, <2>3, <2>4, <1>3
<1>6. ASSUME NEW sn, ix.con[c].pin = 1 /\ Con(k) /\ k.pin = 0 => sn[c].pin = 1
      PROVE  PinsKept(ix, n, sn)
  BY <1>2, <1>6 DEF PinsKept
<1> QED BY <1>4, <1>5, <1>6 DEF n

\* A connection is set by an index write alone, with its grant kept or none.
LEMMA SetConKeeps ==
    ASSUME CatInv, NEW c \in CatConns, NEW k \in IxCons, NEW new,
           k.kind # "none" => c \in born \cup new, k.pin # 0 => k.kind # "none",
           \A i \in k.bound : Secret(mem.sec[i]),
           k.kind = "api" => /\ IdsNamed(mem, k.refs) = k.bound
                             /\ k.refs \subseteq NamesOf(mem),
           k.grant \in {0, mem.con[c].grant},
           mem.con[c].pin = 1 /\ Con(k) /\ k.pin = 0 => seen[c].pin = 1,
           NEW tidy \in SUBSET (0..CatItems),
           tidy \subseteq {0} \/ (k.grant = 0 /\ tidy \subseteq {mem.con[c].grant}),
           StartAs(Plan([mem EXCEPT !.con[c] = k], {}, {}, "none", 0, tidy), 0, new)
    PROVE  CatInv'
<1> DEFINE n == [mem EXCEPT !.con[c] = k]
           e == born \cup new
<1>1. fresh \in Nat /\ fresh \in 0..CatItems /\ IxOK(mem, fresh, born) /\ fresh + 0 = fresh
      /\ fresh <= fresh
  BY CatStart
<1>2. IxOK(mem, fresh, e)
  BY <1>1, IxGrows
<1>3. IxOK(n, fresh, e)
  <2>1. \/ k.grant = 0
        \/ k.grant = mem.con[c].grant
        \/ k.grant > fresh /\ k.grant <= fresh
    OBVIOUS
  <2> HIDE DEF e
  <2>2. k.kind # "none" => c \in e
    BY DEF e
  <2> QED BY <1>1, <1>2, <2>1, <2>2, ConKeeps
<1>4. /\ Relied(n) \subseteq Relied(mem) \cup {k.grant}
      /\ k.grant = 0 /\ mem.con[c].grant # 0 => mem.con[c].grant \notin Relied(n)
      /\ \A sn : (mem.con[c].pin = 1 /\ Con(k) /\ k.pin = 0 => sn[c].pin = 1)
                 => PinsKept(mem, n, sn)
  BY <1>1, ConRelied
<1> HIDE DEF n, e
<1>5. PinsKept(mem, n, seen)
  BY <1>4
<1>6. mem.con[c].grant \in Relied(mem)
  BY ReliedIs
<1>7. Relied(n) \subseteq Relied(mem) \cup {0} /\ tidy \cap Relied(n) \subseteq {0}
  BY <1>4, <1>6
<1>8. "none" \in Stricts /\ "none" \notin {"del", "purge"} /\ 0 \in 0..Token
  BY CatAssumption DEF Token, Stricts
<1>9. Prepared(Plan(n, {}, {}, "none", 0, tidy), mem, fresh, e, seen)
  BY <1>3, <1>5, <1>7, <1>8, StrictIs
<1>10. StartAs(Plan(n, {}, {}, "none", 0, tidy), 0, new)
  BY DEF n
<1>11. Prepared(Plan(n, {}, {}, "none", 0, tidy), mem, fresh + 0, born \cup new, seen)
  BY <1>9, <1>1 DEF e
<1> QED BY <1>10, <1>11, StartKeeps

\* What a template or a choice binds exists.
LEMMA BindsOK ==
    ASSUME NEW ix, NEW kind, NEW refs, NEW pick \in SUBSET Ids,
           Bindable(ix, kind, refs, pick)
    PROVE  /\ Binds(ix, kind, refs, pick) \subseteq Ids
           /\ \A i \in Binds(ix, kind, refs, pick) : Secret(ix.sec[i])
           /\ kind = "api" => /\ IdsNamed(ix, refs) = Binds(ix, kind, refs, pick)
                              /\ refs \subseteq NamesOf(ix)
BY DEF Bindable, Binds, IdsNamed

\* A connection that does not exist yet has no pin.
LEMMA Unborn ==
    ASSUME CatInv, NEW c \in CatConns, c \notin born
    PROVE  mem.con[c].pin # 1
BY CatStart DEF IxOK, IxBelow

\* A new connection.
LEMMA NewConIs ==
    ASSUME NEW ix, NEW kind \in CatKinds, NEW refs \in SUBSET CatNames,
           NEW pick \in SUBSET Ids, Bindable(ix, kind, refs, pick)
    PROVE  LET k == NewCon(ix, kind, refs, pick, 0) IN
           /\ k \in IxCons /\ k.kind = kind /\ k.kind # "none" /\ k.refs = refs
           /\ k.bound = Binds(ix, kind, refs, pick) /\ k.grant = 0 /\ k.pin = 0
<1>1. 0 \in Now /\ 0 \in 0..CatMaxVer /\ 0 < CatMaxVer /\ 0 \in 0..CatItems /\ 0 \in 0..1
  BY CatAssumption DEF Now
<1>2. NextVer(0, 0) \in 0..CatMaxVer
  BY <1>1, NextVerOK
<1>3. Binds(ix, kind, refs, pick) \in SUBSET Ids
  BY BindsOK
<1>4. kind # "none"
  BY CatAssumption
<1> QED BY <1>1, <1>2, <1>3, <1>4 DEF NewCon, IxCons

\* AddConnection keeps the invariant.
LEMMA AddConnectionKeeps ==
    ASSUME CatInv, NEW c \in CatConns, NEW kind \in CatKinds,
           NEW refs \in SUBSET CatNames, NEW pick \in SUBSET Ids,
           AddConnection(c, kind, refs, pick, 0)
    PROVE  CatInv'
<1> DEFINE k == NewCon(mem, kind, refs, pick, 0)
<1>1. /\ c \notin born /\ Bindable(mem, kind, refs, pick)
      /\ StartAs(Plan([mem EXCEPT !.con[c] = k], {}, {}, "none", 0, {}), 0, {c})
  BY DEF AddConnection, Commit
<1>2. /\ k \in IxCons /\ k.kind = kind /\ k.kind # "none" /\ k.refs = refs
      /\ k.bound = Binds(mem, kind, refs, pick) /\ k.grant = 0 /\ k.pin = 0
  BY <1>1, NewConIs
<1>3. /\ \A i \in k.bound : Secret(mem.sec[i])
      /\ k.kind = "api" => IdsNamed(mem, k.refs) = k.bound /\ k.refs \subseteq NamesOf(mem)
  BY <1>1, <1>2, BindsOK
<1>4. mem.con[c].pin = 1 /\ Con(k) /\ k.pin = 0 => seen[c].pin = 1
  BY <1>1, Unborn
<1>5. /\ k.kind # "none" => c \in born \cup {c}
      /\ k.pin # 0 => k.kind # "none"
      /\ k.grant \in {0, mem.con[c].grant}
      /\ {} \in SUBSET (0..CatItems) /\ {} \subseteq {0}
  BY <1>2
<1> HIDE DEF k
<1> QED BY <1>1, <1>2, <1>3, <1>4, <1>5, SetConKeeps

\* A change of a connection that keeps what it was born with.
LEMMA OldConIs ==
    ASSUME CatInv, NEW c \in CatConns
    PROVE  /\ mem.con[c] \in IxCons
           /\ Con(mem.con[c]) => c \in born \cup {}
           /\ mem.con[c].pin # 0 => Con(mem.con[c])
           /\ \A i \in mem.con[c].bound : Secret(mem.sec[i])
           /\ mem.con[c].kind = "api" => /\ IdsNamed(mem, mem.con[c].refs) = mem.con[c].bound
                                         /\ mem.con[c].refs \subseteq NamesOf(mem)
           /\ mem.con[c].grant \in {0, mem.con[c].grant}
           /\ {} \in SUBSET (0..CatItems) /\ {} \subseteq {0}
BY CatStart DEF IxOK, IxBelow, IxResolves

\* UpdateConnection keeps the invariant: the editor had seen the pin it drops.
LEMMA UpdateConnectionKeeps ==
    ASSUME CatInv, NEW c \in CatConns, NEW refs \in SUBSET CatNames, NEW pick \in SUBSET Ids,
           NEW pin \in 0..1, NEW t \in Now, UpdateConnection(c, refs, pick, pin, t)
    PROVE  CatInv'
<1> DEFINE con == mem.con[c]
           k == [con EXCEPT !.refs = refs, !.bound = Binds(mem, con.kind, refs, pick),
                            !.pin = pin, !.ver = NextVer(@, t)]
<1>1. /\ Con(con) /\ Version(seen[c]) = Version(con) /\ con.ver < CatMaxVer
      /\ Bindable(mem, con.kind, refs, pick)
      /\ Start(Plan([mem EXCEPT !.con[c] = k], {}, {}, "none", 0, {}), 0)
  BY DEF UpdateConnection, Commit
<1>2. con \in IxCons /\ c \in born \cup {}
  BY <1>1, OldConIs
<1>3. Binds(mem, con.kind, refs, pick) \in SUBSET Ids
      /\ NextVer(con.ver, t) \in 0..CatMaxVer
  BY <1>1, <1>2, BindsOK, NextVerOK DEF IxCons
<1>4. /\ k \in IxCons /\ k.kind = con.kind /\ k.refs = refs /\ k.grant = con.grant
      /\ k.bound = Binds(mem, con.kind, refs, pick)
  BY <1>2, <1>3 DEF IxCons
<1>5. /\ \A i \in k.bound : Secret(mem.sec[i])
      /\ k.kind = "api" => IdsNamed(mem, k.refs) = k.bound /\ k.refs \subseteq NamesOf(mem)
  BY <1>1, <1>4, BindsOK
<1>6. con.pin = 1 => seen[c].pin = 1
  BY <1>1 DEF Version
<1>7. StartAs(Plan([mem EXCEPT !.con[c] = k], {}, {}, "none", 0, {}), 0, {})
  BY <1>1 DEF Start
<1>8. /\ k.kind # "none" => c \in born \cup {}
      /\ k.pin # 0 => k.kind # "none"
      /\ k.grant \in {0, con.grant}
      /\ con.pin = 1 /\ Con(k) /\ k.pin = 0 => seen[c].pin = 1
  BY <1>1, <1>2, <1>4, <1>6 DEF Con
<1>9. {} \in SUBSET (0..CatItems) /\ {} \subseteq {0}
  OBVIOUS
<1> HIDE DEF k
<1> QED BY <1>4, <1>5, <1>7, <1>8, <1>9, SetConKeeps

\* RenameConnection and PinHostKey keep the invariant.
LEMMA RenameConnectionKeeps ==
    ASSUME CatInv, NEW c \in CatConns, NEW t \in Now, RenameConnection(c, t)
    PROVE  CatInv'
<1> DEFINE con == mem.con[c]
           k == [con EXCEPT !.ver = NextVer(con.ver, t)]
<1>1. /\ Con(con) /\ con.ver < CatMaxVer
      /\ Start(Commit([mem EXCEPT !.con[c].ver = NextVer(con.ver, t)]), 0)
  BY DEF RenameConnection
<1>2. con \in IxCons /\ mem \in IxType
  BY OldConIs, CatStart
<1>3. NextVer(con.ver, t) \in 0..CatMaxVer
  BY <1>1, <1>2, NextVerOK DEF IxCons
<1>4. /\ k \in IxCons /\ k.kind = con.kind /\ k.refs = con.refs /\ k.grant = con.grant
      /\ k.bound = con.bound /\ k.pin = con.pin
  BY <1>2, <1>3 DEF IxCons
<1>5. [mem EXCEPT !.con[c].ver = NextVer(con.ver, t)] = [mem EXCEPT !.con[c] = k]
  BY <1>2 DEF IxType
<1>6. StartAs(Plan([mem EXCEPT !.con[c] = k], {}, {}, "none", 0, {}), 0, {})
  BY <1>1, <1>5 DEF Start, Commit
<1> HIDE DEF k
<1>7. /\ k.kind # "none" => c \in born \cup {}
      /\ k.pin # 0 => k.kind # "none"
      /\ k.grant \in {0, con.grant}
      /\ \A i \in k.bound : Secret(mem.sec[i])
      /\ k.kind = "api" => IdsNamed(mem, k.refs) = k.bound /\ k.refs \subseteq NamesOf(mem)
      /\ con.pin = 1 /\ Con(k) /\ k.pin = 0 => seen[c].pin = 1
      /\ {} \in SUBSET (0..CatItems) /\ {} \subseteq {0}
  BY <1>4, OldConIs DEF Con
<1> QED BY <1>4, <1>6, <1>7, SetConKeeps

\* See RenameConnectionKeeps.
LEMMA PinHostKeyKeeps ==
    ASSUME CatInv, NEW c \in CatConns, PinHostKey(c)
    PROVE  CatInv'
<1> DEFINE con == mem.con[c]
           k == [con EXCEPT !.pin = 1]
<1>1. /\ con.kind = "ssh" /\ Start(Commit([mem EXCEPT !.con[c].pin = 1]), 0)
  BY DEF PinHostKey
<1>2. con \in IxCons /\ mem \in IxType
  BY OldConIs, CatStart
<1>4. /\ k \in IxCons /\ k.kind = con.kind /\ k.refs = con.refs /\ k.grant = con.grant
      /\ k.bound = con.bound /\ k.pin = 1
  BY <1>2 DEF IxCons
<1>5. [mem EXCEPT !.con[c].pin = 1] = [mem EXCEPT !.con[c] = k]
  BY <1>2 DEF IxType
<1>6. StartAs(Plan([mem EXCEPT !.con[c] = k], {}, {}, "none", 0, {}), 0, {})
  BY <1>1, <1>5 DEF Start, Commit
<1> HIDE DEF k
<1>7. /\ k.kind # "none" => c \in born \cup {}
      /\ k.pin # 0 => k.kind # "none"
      /\ k.grant \in {0, con.grant}
      /\ \A i \in k.bound : Secret(mem.sec[i])
      /\ k.kind = "api" => IdsNamed(mem, k.refs) = k.bound /\ k.refs \subseteq NamesOf(mem)
      /\ con.pin = 1 /\ Con(k) /\ k.pin = 0 => seen[c].pin = 1
      /\ {} \in SUBSET (0..CatItems) /\ {} \subseteq {0}
  BY <1>1, <1>4, OldConIs DEF Con
<1> QED BY <1>4, <1>6, <1>7, SetConKeeps

\* DeleteConnection keeps the invariant: the grant dies with it.
LEMMA DeleteConnectionKeeps ==
    ASSUME CatInv, NEW c \in CatConns, DeleteConnection(c)
    PROVE  CatInv'
<1> DEFINE con == mem.con[c]
<1>1. StartAs(Plan([mem EXCEPT !.con[c] = NoCon], {}, {}, "none", 0, {con.grant}), 0, {})
  BY DEF DeleteConnection, Start
<1>2. /\ NoCon \in IxCons /\ NoCon.kind = "none" /\ NoCon.pin = 0 /\ NoCon.bound = {}
      /\ NoCon.grant = 0
  BY CatAssumption DEF NoCon, IxCons
<1>3. con.grant \in 0..CatItems
  BY OldConIs DEF IxCons
<1>4. /\ NoCon.kind # "none" => c \in born \cup {}
      /\ NoCon.pin # 0 => NoCon.kind # "none"
      /\ NoCon.grant \in {0, con.grant}
      /\ \A i \in NoCon.bound : Secret(mem.sec[i])
      /\ NoCon.kind = "api" => /\ IdsNamed(mem, NoCon.refs) = NoCon.bound
                               /\ NoCon.refs \subseteq NamesOf(mem)
      /\ con.pin = 1 /\ Con(NoCon) /\ NoCon.pin = 0 => seen[c].pin = 1
      /\ {con.grant} \in SUBSET (0..CatItems)
      /\ {con.grant} \subseteq {0} \/ (NoCon.grant = 0 /\ {con.grant} \subseteq {con.grant})
  BY <1>2, <1>3 DEF Con
<1> QED BY <1>1, <1>2, <1>4, SetConKeeps

\* SetOAuth keeps the invariant: a first grant has an item of its own.
LEMMA SetOAuthKeeps ==
    ASSUME CatInv, NEW c \in CatConns, SetOAuth(c)
    PROVE  CatInv'
<1> DEFINE con == mem.con[c]
           gr == IF con.grant = 0 THEN NewId ELSE con.grant
           undo == IF con.grant = 0 THEN {gr} ELSE {}
           used == IF con.grant = 0 THEN 1 ELSE 0
           k == [con EXCEPT !.grant = gr]
           n == [mem EXCEPT !.con[c] = k]
           g == fresh + used
<1>1. /\ con.kind = "api" /\ gr \in Ids
      /\ Start(Plan([mem EXCEPT !.con[c].grant = gr], {gr}, undo, "none", 0, {}), used)
  BY DEF SetOAuth
<1>2. /\ con \in IxCons /\ mem \in IxType /\ fresh \in Nat /\ fresh \in 0..CatItems
      /\ IxOK(mem, fresh, born) /\ gr \in 1..CatItems /\ used \in Nat
  BY <1>1, OldConIs, CatStart
<1>3. g \in 0..CatItems /\ fresh <= g
  BY <1>1, <1>2, CatAssumption DEF Start, StartAs
<1>4. /\ k \in IxCons /\ k.kind = con.kind /\ k.refs = con.refs /\ k.grant = gr
      /\ k.bound = con.bound /\ k.pin = con.pin
  BY <1>2 DEF IxCons
<1>5. [mem EXCEPT !.con[c].grant = gr] = n
  BY <1>2 DEF IxType
<1>6. \/ k.grant = con.grant
      \/ k.grant > fresh /\ k.grant <= g
  BY <1>2, <1>4 DEF NewId
<1>7. undo = {} \/ (undo = {gr} /\ gr > fresh)
  BY <1>2 DEF NewId
<1>8. Start(Plan(n, {gr}, undo, "none", 0, {}), used)
  BY <1>1, <1>5
<1> HIDE DEF k, gr, undo, used
<1>9. IxOK(n, g, born)
  <2>1. /\ k.kind # "none" => c \in born
        /\ k.pin # 0 => k.kind # "none"
        /\ \A i \in k.bound : Secret(mem.sec[i])
        /\ k.kind = "api" => IdsNamed(mem, k.refs) = k.bound /\ k.refs \subseteq NamesOf(mem)
    BY <1>4, OldConIs DEF Con
  <2>2. \/ k.grant = 0
        \/ k.grant = mem.con[c].grant
        \/ k.grant > fresh /\ k.grant <= g
    BY <1>6
  <2> HIDE DEF g
  <2> QED BY <1>2, <1>3, <1>4, <2>1, <2>2, ConKeeps
<1>10. /\ Relied(n) \subseteq Relied(mem) \cup {k.grant}
       /\ \A sn : (mem.con[c].pin = 1 /\ Con(k) /\ k.pin = 0 => sn[c].pin = 1)
                 => PinsKept(mem, n, sn)
  BY <1>2, <1>4, ConRelied
<1>11. PinsKept(mem, n, seen)
  BY <1>4, <1>10
<1>12. Free(undo)
  BY <1>1, <1>7, FreshUnused DEF Free
<1>13. {gr} \in SUBSET (1..Token) /\ undo \in SUBSET {gr} /\ 0 \in 0..Token
  BY <1>2, <1>7, CatAssumption DEF Token
<1>14. n \in IxType /\ {} \cap Relied(n) \subseteq {0} /\ {} \in SUBSET (0..CatItems)
  BY <1>9 DEF IxOK
<1>15. "none" \in Stricts /\ "none" \notin {"del", "purge"}
  BY DEF Stricts
<1> HIDE DEF n, g
<1>16. Relied(n) \subseteq Relied(mem) \cup {gr} \cup {0}
  BY <1>4, <1>10
<1>17. Prepared(Plan(n, {gr}, undo, "none", 0, {}), mem, g, born, seen)
  BY <1>9, <1>11, <1>12, <1>13, <1>14, <1>15, <1>16, PrepareIs
<1> QED BY <1>2, <1>8, <1>17, StartPlain DEF g

\* AddConnectionWithSecret keeps the invariant: both in one index write.
LEMMA AddConnectionWithSecretKeeps ==
    ASSUME CatInv, NEW c \in CatConns, NEW kind \in CatKinds, NEW name \in CatNames,
           AddConnectionWithSecret(c, kind, name, 0)
    PROVE  CatInv'
<1> DEFINE s == [name |-> name, source |-> "local", totp |-> 0]
           ix == [mem EXCEPT !.sec[NewId] = s]
           refs == IF kind = "api" THEN {name} ELSE {}
           pick == IF kind = "api" THEN {} ELSE {NewId}
           k == NewCon(ix, kind, refs, pick, 0)
           n == [ix EXCEPT !.con[c] = k]
           e == born \cup {c}
           g == fresh + 1
<1>1. /\ c \notin born /\ name \notin NamesOf(mem) /\ NewId \in Ids
      /\ StartAs(Plan(n, {NewId}, {NewId}, "none", 0, {}), 1, {c})
  BY DEF AddConnectionWithSecret
<1>2. /\ fresh \in Nat /\ fresh \in 0..CatItems /\ IxOK(mem, fresh, born) /\ NewId = g
      /\ g \in 0..CatItems /\ g \in Nat /\ NewId > fresh /\ fresh <= g
      /\ NewId \in 1..CatItems /\ g <= g
  BY <1>1, CatStart, CatAssumption DEF NewId, Ids
<1>3. s \in IxSecs /\ s.name = name /\ s.totp = 0 /\ s.source = "local" /\ Secret(s)
  <2>1. name \in IxNames /\ 0 \in 0..CatItems
    BY CatAssumption DEF IxNames
  <2> QED BY <2>1 DEF IxSecs, Secret
<1> HIDE DEF g
<1>4. /\ IxOK(ix, g, born) /\ ix.sec = [mem.sec EXCEPT ![NewId] = s] /\ ix.con = mem.con
  <2>1. Secret(s) => NewId <= g /\ s.name \in CatNames
    BY <1>2, <1>3
  <2>2. \/ /\ \A d \in CatConns : NewId \notin mem.con[d].bound
           /\ Secret(s) => s.name \notin NamesOf(mem)
        \/ Secret(s) /\ Secret(mem.sec[NewId]) /\ s.name = mem.sec[NewId].name
    BY <1>1, <1>2, <1>3, FreshUnused
  <2>3. \/ s.totp = 0
        \/ s.totp = mem.sec[NewId].totp
        \/ s.totp > fresh /\ s.totp <= g /\ s.totp # NewId
    BY <1>3
  <2>4. s.source = "local" => mem.sec[NewId].source = "local" \/ NewId > fresh
    BY <1>2
  <2> HIDE DEF s
  <2> QED BY <1>1, <1>2, <1>3, <2>1, <2>2, <2>3, <2>4, SecKeeps
<1>5. /\ Relied(ix) \subseteq Relied(mem) \cup {s.totp}
                                  \cup (IF s.source = "local" THEN {NewId} ELSE {})
  <2>1. s.source = "local" => mem.sec[NewId].source = "local" \/ NewId > fresh
    BY <1>2
  <2> HIDE DEF s
  <2> QED BY <1>1, <1>2, <1>3, <2>1, SecRelied
<1>6. Relied(ix) \subseteq Relied(mem) \cup {NewId} \cup {0}
  BY <1>5, <1>3
<1>7. Secret(ix.sec[NewId]) /\ ix.sec[NewId].name = name
  BY <1>1, <1>2, <1>3, <1>4 DEF IxOK, IxType
<1>8. IxOK(ix, g, e)
  BY <1>2, <1>4, IxGrows
<1> HIDE DEF ix, s
<1>9. refs \in SUBSET CatNames /\ pick \in SUBSET Ids /\ Bindable(ix, kind, refs, pick)
  <2>1. refs \in SUBSET CatNames /\ pick \in SUBSET Ids
    BY <1>1
  <2>2. name \in NamesOf(ix)
    BY <1>1, <1>7 DEF NamesOf
  <2>3. Cardinality({NewId}) = 1
    BY FS_Singleton
  <2> QED BY <2>1, <2>2, <2>3, <1>7 DEF Bindable
<1>10. /\ k \in IxCons /\ k.kind = kind /\ k.kind # "none" /\ k.refs = refs
       /\ k.bound = Binds(ix, kind, refs, pick) /\ k.grant = 0 /\ k.pin = 0
  BY <1>9, NewConIs
<1>11. /\ \A i \in k.bound : Secret(ix.sec[i])
       /\ k.kind = "api" => IdsNamed(ix, k.refs) = k.bound /\ k.refs \subseteq NamesOf(ix)
  <2> HIDE DEF k, refs, pick
  <2>1. /\ \A i \in Binds(ix, kind, refs, pick) : Secret(ix.sec[i])
        /\ kind = "api" => /\ IdsNamed(ix, refs) = Binds(ix, kind, refs, pick)
                           /\ refs \subseteq NamesOf(ix)
    BY <1>9, BindsOK
  <2> QED BY <2>1, <1>10
<1> HIDE DEF k, refs, pick
<1>12. IxOK(n, g, e)
  <2>1. k.kind # "none" => c \in e
    OBVIOUS
  <2>2. k.pin # 0 => k.kind # "none"
    BY <1>10
  <2>3. \/ k.grant = 0
        \/ k.grant = ix.con[c].grant
        \/ k.grant > g /\ k.grant <= g
    BY <1>10
  <2> HIDE DEF e
  <2> QED BY <1>2, <1>8, <1>10, <1>11, <2>1, <2>2, <2>3, ConKeeps
<1>13. /\ Relied(n) \subseteq Relied(ix) \cup {k.grant}
       /\ \A sn : (ix.con[c].pin = 1 /\ Con(k) /\ k.pin = 0 => sn[c].pin = 1)
                 => PinsKept(ix, n, sn)
  BY <1>2, <1>8, <1>10, ConRelied
<1>14. mem.con[c].pin # 1
  BY <1>1, Unborn
<1>15. PinsKept(mem, n, seen)
  BY <1>4, <1>13, <1>14 DEF PinsKept
<1> HIDE DEF n, e
<1>16. Relied(n) \subseteq Relied(mem) \cup {NewId} \cup {0}
  BY <1>6, <1>10, <1>13
<1>17. Free({NewId})
  BY <1>1, <1>2, FreshUnused DEF Free
<1>18. {NewId} \in SUBSET (1..Token) /\ {NewId} \in SUBSET {NewId} /\ 0 \in 0..Token
  BY <1>2, CatAssumption DEF Token
<1>19. n \in IxType /\ {} \cap Relied(n) \subseteq {0} /\ {} \in SUBSET (0..CatItems)
  BY <1>12 DEF IxOK
<1>20. "none" \in Stricts /\ "none" \notin {"del", "purge"}
  BY DEF Stricts
<1>21. Prepared(Plan(n, {NewId}, {NewId}, "none", 0, {}), mem, g, e, seen)
  BY <1>12, <1>15, <1>16, <1>17, <1>18, <1>19, <1>20, PrepareIs
<1> QED BY <1>1, <1>21, StartKeeps DEF g, e

----------------------------------------------------------------------------
(* The theorems                                                            *)

\* Opening, reading and dying keep the invariant.
LEMMA OpenKeeps ==
    ASSUME CatInv, CatOpen \/ CatCrash \/ (\E c \in CatConns : CatRead(c))
    PROVE  CatInv'
<1>1. CASE CatOpen
  BY <1>1 DEF CatOpen, CatInv, NoOp
<1>2. CASE CatCrash
  BY <1>2 DEF CatCrash, CatInv, NoOp
<1>3. CASE \E c \in CatConns : CatRead(c)
  BY <1>3 DEF CatRead, CatInv, NoOp
<1> QED BY <1>1, <1>2, <1>3

\* The invariant at the start.
LEMMA CatInitially ==
    ASSUME CatInit
    PROVE  CatInv
<1>0. 0 \in 0..CatItems /\ 0 \in 0..CatMaxVer /\ 0 \in 0..Token
  BY CatAssumption DEF Token
<1>1. EmptyIndex.sec \in [Ids -> IxSecs] /\ \A i \in Ids : EmptyIndex.sec[i] = NoSecret
  BY NoSecretIs DEF EmptyIndex
<1>2. NoCon \in IxCons /\ NoCon.grant = 0 /\ NoCon.pin = 0 /\ NoCon.kind = "none"
      /\ NoCon.bound = {}
  BY <1>0 DEF NoCon, IxCons
<1>3. EmptyIndex.con \in [CatConns -> IxCons] /\ \A c \in CatConns : EmptyIndex.con[c] = NoCon
  BY <1>2 DEF EmptyIndex
<1>4. EmptyIndex \in IxType /\ EmptyIndex.intg = "none"
  BY <1>1, <1>3 DEF EmptyIndex, IxType
<1>5. IxOK(EmptyIndex, 0, {})
  BY <1>0, <1>1, <1>2, <1>3, <1>4, NoSecretIs
     DEF IxOK, IxNamed, IxApart, IxBelow, IxResolves, Con
<1>6. Relied(EmptyIndex) \subseteq {0}
  <2> SUFFICES ASSUME NEW x \in Relied(EmptyIndex) PROVE x = 0 OBVIOUS
  <2>1. \/ x \in Ids /\ EmptyIndex.sec[x].source = "local"
        \/ \E i \in Ids : x = EmptyIndex.sec[i].totp
        \/ \E c \in CatConns : x = EmptyIndex.con[c].grant
        \/ EmptyIndex.intg = "token" /\ x = Token
    BY ReliedIs
  <2> QED BY <2>1, <1>1, <1>2, <1>3, <1>4, NoSecretIs
<1>7. /\ mem = EmptyIndex /\ disk = EmptyIndex /\ vault = {0} /\ fresh = 0 /\ born = {}
      /\ op = NoOp /\ undone = {}
  BY DEF CatInit
<1> QED BY <1>0, <1>5, <1>6, <1>7 DEF CatInv

\* Every step keeps the invariant.
LEMMA CatKeeps ==
    ASSUME CatInv, [CatNext]_catVars
    PROVE  CatInv'
<1>1. CASE CatOpen \/ CatCrash \/ (\E c \in CatConns : CatRead(c))
  BY <1>1, OpenKeeps
<1>2. CASE CatStage \/ CatIndex \/ CatStrict \/ CatTidy
  BY <1>2, StageKeeps, IndexKeeps, StrictKeeps, TidyKeeps
<1>3. CASE CatBegin
  <2>1. CASE \E n \in CatNames, f \in BOOLEAN : AddCredential(n, f)
    BY <2>1, AddCredentialKeeps
  <2>2. CASE \E n \in CatNames : AddOnePasswordSecret(n)
    BY <2>2, AddOnePasswordKeeps
  <2>3. ASSUME NEW i \in Ids, SetTotp(i) \/ ClearTotp(i) \/ ReplaceValue(i) \/ DeleteSecret(i)
        PROVE  CatInv'
    <3>1. CASE SetTotp(i) BY <3>1, SetTotpKeeps
    <3>2. CASE ClearTotp(i) BY <3>2, ClearTotpKeeps
    <3>3. CASE DeleteSecret(i) BY <3>3, DeleteSecretKeeps
    <3>4. CASE ReplaceValue(i)
      <4>1. i \in 0..Token
        BY CatStart, CatAssumption DEF Token
      <4>2. Start(Plan(mem, {}, {}, "set", i, {}), 0)
        BY <3>4 DEF ReplaceValue
      <4> QED BY <4>1, <4>2, ReplaceKeeps
    <3> QED BY <2>3, <3>1, <3>2, <3>3, <3>4
  <2>4. CASE \E i \in Ids, n \in CatNames, t \in Now : RenameSecret(i, n, t)
    BY <2>4, RenameSecretKeeps
  <2>5. CASE \E a \in {"token", "desktop"} : AddIntegration(a)
    BY <2>5, AddIntegrationKeeps
  <2>6. CASE ReplaceToken
    <3>1. Token \in 0..Token
      BY CatAssumption DEF Token
    <3>2. Start(Plan(mem, {}, {}, "set", Token, {}), 0)
      BY <2>6 DEF ReplaceToken
    <3> QED BY <3>1, <3>2, ReplaceKeeps
  <2>7. CASE DeleteIntegration
    BY <2>7, DeleteIntegrationKeeps
  <2> QED BY <1>3, <2>1, <2>2, <2>3, <2>4, <2>5, <2>6, <2>7 DEF CatBegin
<1>4. CASE CatConnect
  <2>0. \A p \in Picks : p \in SUBSET Ids
    BY DEF Picks
  <2>1. CASE \E c \in CatConns, k \in CatKinds, r \in SUBSET CatNames, p \in Picks :
                AddConnection(c, k, r, p, 0)
    BY <2>0, <2>1, AddConnectionKeeps
  <2>2. CASE \E c \in CatConns, k \in CatKinds, n \in CatNames :
                AddConnectionWithSecret(c, k, n, 0)
    BY <2>2, AddConnectionWithSecretKeeps
  <2>3. CASE \E c \in CatConns, r \in SUBSET CatNames, p \in Picks, k \in 0..1, t \in Now :
                UpdateConnection(c, r, p, k, t)
    BY <2>0, <2>3, UpdateConnectionKeeps
  <2>4. CASE \E c \in CatConns, t \in Now : RenameConnection(c, t)
    BY <2>4, RenameConnectionKeeps
  <2>5. CASE TouchIndex
    <3>1. 0 \in 0..Token
      BY CatAssumption DEF Token
    <3>2. Start(Plan(mem, {}, {}, "none", 0, {}), 0)
      BY <2>5 DEF TouchIndex, Commit
    <3> QED BY <3>1, <3>2, ReplaceKeeps
  <2>6. CASE \E c \in CatConns : SetOAuth(c) \/ PinHostKey(c) \/ DeleteConnection(c)
    BY <2>6, SetOAuthKeeps, PinHostKeyKeeps, DeleteConnectionKeeps
  <2> QED BY <1>4, <2>1, <2>2, <2>3, <2>4, <2>5, <2>6 DEF CatConnect
<1>5. CASE UNCHANGED catVars
  BY <1>5 DEF catVars, CatInv
<1> QED BY <1>1, <1>2, <1>3, <1>4, <1>5 DEF CatNext

\* The invariant gives the properties.
LEMMA CatGives ==
    ASSUME CatInv
    PROVE  CatalogSound
<1>1. CatTypeOK
  <2>1. ASSUME NEW ix \in {mem, disk}
        PROVE  /\ \A i \in Ids : /\ ix.sec[i].source \in {"none", "local", "op"}
                                 /\ Secret(ix.sec[i]) => ix.sec[i].name \in CatNames
               /\ \A c \in CatConns : /\ ix.con[c].kind \in CatKinds \cup {"none"}
                                      /\ ix.con[c].ver \in 0..CatMaxVer
    <3>1. IxOK(ix, fresh, born)
      BY <2>1 DEF CatInv
    <3>2. \A i \in Ids : ix.sec[i] \in IxSecs
      BY <3>1 DEF IxOK, IxType
    <3>3. \A i \in Ids : /\ ix.sec[i].source \in {"none", "local", "op"}
                         /\ Secret(ix.sec[i]) => ix.sec[i].name \in CatNames
      BY <3>1, <3>2, IxSecFields DEF IxOK, IxNamed
    <3>4. \A c \in CatConns : /\ ix.con[c].kind \in CatKinds \cup {"none"}
                              /\ ix.con[c].ver \in 0..CatMaxVer
      BY <3>1 DEF IxOK, IxType, IxCons
    <3> QED BY <3>3, <3>4
  <2>2. vault \cup undone \subseteq 0..CatItems + 1
    BY DEF CatInv, Token
  <2>3. op.phase \in {"idle", "stage", "index", "strict", "tidy"}
    BY DEF CatInv, PlanOK, PlanType, NoOp
  <2> QED BY <2>1, <2>2, <2>3 DEF CatTypeOK
<1>2. CatBacked
  BY DEF CatInv, CatBacked
<1>3. CatDurable
  BY DEF CatInv, CatDurable, NoOp
<1>4. CatNamesResolve
  BY DEF CatInv, CatNamesResolve, IxOK, IxResolves
<1> QED BY <1>1, <1>2, <1>3, <1>4 DEF CatalogSound

\* Whatever write fails, in place or not, and wherever the process dies, memory
\* and disk rely only on what the vault holds or such a failure took, disk and
\* memory agree but after one, and templates resolve to what they are bound to
\* (the write order of every operation of store.rs).
THEOREM CatalogHolds == CatSpec => []CatalogSound
<1>1. CatInit => CatInv
  BY CatInitially
<1>2. CatInv /\ [CatNext]_catVars => CatInv'
  BY CatKeeps
<1>3. CatInv => CatalogSound
  BY CatGives
<1> QED BY <1>1, <1>2, <1>3, PTL DEF CatSpec

\* Saving a form never undoes a host key learned while it was open
\* (update_connection_if_current and Connection::version).
THEOREM CatalogKeepsPins == CatSpec => CatNoLostEdit
<1> DEFINE Kept == up /\ up' => \A c \in CatConns :
                mem.con[c].pin = 1 /\ Con(mem'.con[c]) /\ mem'.con[c].pin = 0
                    => seen[c].pin = 1
<1>1. CatInit => CatInv
  BY CatInitially
<1>2. CatInv /\ [CatNext]_catVars => CatInv'
  BY CatKeeps
<1>3. CatInv /\ [CatNext]_catVars => [Kept]_catVars
  <2> SUFFICES ASSUME CatInv, CatNext PROVE Kept
    OBVIOUS
  <2>1. CASE mem' = mem
    BY <2>1
  <2>2. CASE CatOpen \/ CatCrash
    BY <2>2 DEF CatOpen, CatCrash
  <2>3. CASE CatIndex \/ CatStrict
    <3>0. op # NoOp
      BY <2>3 DEF CatIndex, CatStrict, NoOp
    <3>1. mem' = op.next \/ mem' = mem
      <4>1. CASE CatIndex
        BY <4>1 DEF CatIndex, CatIndexFails
      <4>2. CASE CatStrict
        BY <4>2 DEF CatStrict, CatStrictDone, CatStrictFails
      <4> QED BY <2>3, <4>1, <4>2
    <3>2. PinsKept(mem, op.next, seen)
      BY <3>0 DEF CatInv, PlanOK
    <3> QED BY <3>1, <3>2 DEF PinsKept
  <2>4. mem' = mem \/ CatOpen \/ CatCrash \/ CatIndex \/ CatStrict
    BY DEF CatNext, CatStage, CatTidy, CatRead, CatBegin, CatConnect, AddCredential,
           AddOnePasswordSecret, SetTotp, ClearTotp, ReplaceValue, DeleteSecret,
           RenameSecret, AddIntegration, ReplaceToken, DeleteIntegration,
           AddConnection, AddConnectionWithSecret, UpdateConnection,
           RenameConnection, TouchIndex, SetOAuth, PinHostKey, DeleteConnection,
           Start, StartAs
  <2> QED BY <2>1, <2>2, <2>3, <2>4
<1> QED BY <1>1, <1>2, <1>3, PTL DEF CatSpec, CatNoLostEdit

----------------------------------------------------------------------------
(* The activity log                                                        *)

\* A line, a seal and an entry of the view, as they can be.
AuLine == [rec : 0 .. AuditMax + 1, mac : Seq(0 .. AuditMax)]
AuHeads == Seq(1 .. AuditMax)
AuSeal == [head : AuHeads, count : Nat, legacy : Nat, kind : {"none", "seal"}]
AuEntry == [at : Nat, rec : 0 .. AuditMax + 1]

\* The type of each variable.
AuShape ==
    /\ lines \in Seq(AuLine)
    /\ sealed \in AuSeal /\ sealed.count = Len(sealed.head)
    /\ head \in AuSeal /\ head.count = Len(head.head)
    /\ phase \in {"down", "idle", "owed", "appended", "cleared"}
    /\ verdict \in {"none", "verified", "unsealed", "tampered"}
    /\ made \in 0 .. AuditMax
    /\ smooth \in BOOLEAN
    /\ view \in [on : BOOLEAN, base : Seq(AuLine), before : Nat, got : Seq(AuEntry)]

\* The lines past the legacy prefix are the records under a head, each with its MAC.
AuChain(s, h) ==
    /\ Len(s) = h.legacy + Len(h.head)
    /\ \A i \in 1 .. Len(h.head) :
          /\ s[h.legacy + i].rec = h.head[i]
          /\ s[h.legacy + i].mac = SubSeq(h.head, 1, i)

\* A seal is of an earlier point of the chain.
AuBehind(p, h) ==
    /\ p.legacy = h.legacy /\ Len(p.head) <= Len(h.head)
    /\ \A i \in 1 .. Len(p.head) : p.head[i] = h.head[i]

\* As long as nothing went wrong: every line parses, the log is the chain of the head in
\* memory, and what is sealed, but for a clear under way, is an earlier point of it.
AuWhole(s, p, h, at) ==
    /\ \A i \in 1 .. Len(s) : s[i].rec # 0
    /\ IF h.kind = "seal" THEN AuChain(s, h) ELSE at = "down"
    /\ at # "cleared" /\ p.kind = "seal" => h.kind = "seal" /\ AuBehind(p, h)

\* What was returned is what there is from the cursor on, once and in order.
AuExact(base, before, got) ==
    /\ \A i, j \in DOMAIN got : i < j => got[i].at > got[j].at
    /\ {got[i] : i \in DOMAIN got} =
          {[at |-> k, rec |-> base[k].rec] : k \in Entries(base, before + 1, Len(base))}

\* The log a reader started from is still the beginning of the log.
AuSeen(s, v) ==
    IF v.on
    THEN /\ v.before <= Len(v.base) /\ Len(v.base) <= Len(s)
         /\ \A i \in 1 .. Len(v.base) : s[i].rec = v.base[i].rec
         /\ AuExact(v.base, v.before, v.got)
    ELSE v = AuditNoView

\* The inductive invariant of the log.
AuInv == AuShape /\ (smooth => AuWhole(lines, sealed, head, phase)) /\ AuSeen(lines, view)

\* The bounds are numbers.
LEMMA AuLimits == AuditMax \in Nat \ {0} /\ AuditLimit \in Nat \ {0}
BY AuditAssumption

\* A set of numbers has a least one.
LEMMA AuLeast ==
    ASSUME NEW T \in SUBSET Nat, T # {}
    PROVE  \E m \in T : \A k \in T : m <= k
<1>1. \E m \in T : \A y \in T : ~ (<<y, m>> \in OpToRel(<, Nat))
  BY NatLessThanWellFounded, WFMin
<1>2. PICK m \in T : \A y \in T : ~ (<<y, m>> \in OpToRel(<, Nat))
  BY <1>1
<1>3. \A y \in T : ~(y < m)
  BY <1>2 DEF OpToRel
<1>4. QED BY <1>3

\* A bounded one also has a greatest.
LEMMA AuGreatest ==
    ASSUME NEW n \in Nat, NEW S \in SUBSET (1 .. n), S # {}
    PROVE  \E m \in S : \A k \in S : k <= m
<1> DEFINE T == {x \in Nat : n - x \in S}
<1>1. T \in SUBSET Nat
  OBVIOUS
<1>2. T # {}
  <2>1. PICK k \in S : TRUE
    OBVIOUS
  <2>2. n - k \in Nat /\ n - (n - k) = k
    BY <2>1
  <2>3. n - k \in T
    BY <2>1, <2>2
  <2>4. QED BY <2>3
<1>3. PICK m \in T : \A k \in T : m <= k
  BY <1>1, <1>2, AuLeast
<1>4. \A k \in S : k <= n - m
  <2> TAKE k \in S
  <2>1. k \in 1 .. n /\ n - k \in Nat /\ n - (n - k) = k
    OBVIOUS
  <2>2. n - k \in T
    BY <2>1
  <2>3. m <= n - k /\ m \in Nat
    BY <2>2, <1>3
  <2>4. QED BY <2>1, <2>3
<1>5. n - m \in S
  BY <1>3
<1>6. QED BY <1>4, <1>5

\* The set of the places from one on is finite, and a place counts in it.
LEMMA AuFrom ==
    ASSUME NEW n \in Nat, NEW S \in SUBSET (1 .. n), NEW i \in S
    PROVE  /\ IsFiniteSet(S) /\ Cardinality(S) \in Nat
           /\ IsFiniteSet({x \in S : x >= i})
           /\ Rank(S, i) \in Nat /\ Rank(S, i) <= Cardinality(S) /\ Rank(S, i) >= 1
<1> DEFINE F == {x \in S : x >= i}
<1>0. 1 \in Int /\ n \in Int
  OBVIOUS
<1>1. IsFiniteSet(1 .. n)
  BY <1>0, FS_Interval
<1>2. IsFiniteSet(S)
  BY <1>1, FS_Subset
<1>3. F \in SUBSET S /\ i \in F
  OBVIOUS
<1> HIDE DEF F
<1>4. IsFiniteSet(F) /\ Cardinality(F) <= Cardinality(S)
  BY <1>2, <1>3, FS_Subset
<1>5. Cardinality(F) \in Nat /\ Cardinality(S) \in Nat
  BY <1>2, <1>4, FS_CardinalityType
<1>6. Cardinality(F) # 0
  BY <1>3, <1>4, FS_EmptySet
<1>7. Rank(S, i) = Cardinality(F)
  BY DEF Rank, F
<1>8. QED BY <1>2, <1>4, <1>5, <1>6, <1>7 DEF F

\* A later place has a lower rank.
LEMMA AuRankFalls ==
    ASSUME NEW n \in Nat, NEW S \in SUBSET (1 .. n), NEW i \in S, NEW k \in S, i < k
    PROVE  Rank(S, k) < Rank(S, i)
<1> DEFINE F == {x \in S : x >= i}
           G == {x \in S : x >= k}
<1>1. IsFiniteSet(F) /\ Rank(S, i) \in Nat /\ Rank(S, k) \in Nat
  BY AuFrom
<1>n. \A x \in S : x \in 1 .. n /\ x \in Nat
  OBVIOUS
<1>2. G \in SUBSET F /\ i \in F /\ i \notin G
  <2>1. i \in Nat /\ k \in Nat /\ i < k
    BY <1>n
  <2>2. \A x \in S : x >= k => x >= i
    BY <1>n, <2>1
  <2>3. i \in F /\ i \notin G
    BY <2>1
  <2>4. QED BY <2>2, <2>3
<1>3. Rank(S, i) = Cardinality(F) /\ Rank(S, k) = Cardinality(G)
  BY DEF Rank
<1> HIDE DEF F, G
<1>4. Cardinality(G) <= Cardinality(F) /\ (Cardinality(F) = Cardinality(G) => F = G)
  BY <1>1, <1>2, FS_Subset
<1>5. Cardinality(F) # Cardinality(G)
  BY <1>2, <1>4
<1>6. QED BY <1>1, <1>3, <1>4, <1>5

\* Every rank up to the size is some place's.
LEMMA AuRanks ==
    ASSUME NEW n \in Nat, NEW S \in SUBSET (1 .. n), NEW j \in 1 .. Cardinality(S)
    PROVE  \E i \in S : Rank(S, i) = j
<1>n. \A x \in S : x \in 1 .. n /\ x \in Nat
  OBVIOUS
<1> DEFINE Missing == {k \in 1 .. Cardinality(S) : \A i \in S : Rank(S, i) # k}
<1>0. S # {} /\ IsFiniteSet(S) /\ Cardinality(S) \in Nat
  <2>1. S # {}
    <3>1. Cardinality({}) = 0
      BY FS_EmptySet
    <3>2. QED BY <3>1
  <2>2. PICK i \in S : TRUE
    BY <2>1
  <2>3. IsFiniteSet(S) /\ Cardinality(S) \in Nat
    BY <2>2, AuFrom
  <2>4. QED BY <2>1, <2>3
<1> SUFFICES ASSUME Missing # {} PROVE FALSE
  OBVIOUS
<1>1. Missing \in SUBSET Nat
  BY <1>0
<1>2. PICK m \in Missing : \A k \in Missing : m <= k
  BY <1>1, AuLeast
<1>3. m \in 1 .. Cardinality(S) /\ \A i \in S : Rank(S, i) # m
  BY <1>2
<1>4. CASE m = 1
  <2>1. PICK e \in S : \A k \in S : k <= e
    BY <1>0, AuGreatest
  <2>2. {x \in S : x >= e} = {e}
    <3>1. \A x \in S : x >= e <=> x = e
      BY <2>1, <1>n
    <3>2. QED BY <3>1
  <2>3. Rank(S, e) = 1
    BY <2>2, FS_Singleton DEF Rank
  <2>4. QED BY <2>1, <2>3, <1>3, <1>4
<1>5. CASE m # 1
  <2>1. m - 1 \in 1 .. Cardinality(S) /\ m - 1 < m
    BY <1>3, <1>5, <1>0
  <2>2. m - 1 \notin Missing
    BY <1>2, <2>1, <1>1
  <2>3. PICK i \in S : Rank(S, i) = m - 1
    BY <2>1, <2>2
  <2> DEFINE Low == {x \in S : x < i}
             F == {x \in S : x >= i}
  <2>4. Rank(S, i) = Cardinality(F)
    BY DEF Rank
  <2>5. CASE Low = {}
    <3>1. F = S
      <4>1. \A x \in S : ~(x < i)
        BY <2>5
      <4>2. \A x \in S : x >= i
        BY <4>1, <1>n
      <4>3. QED BY <4>2
    <3>2. QED BY <3>1, <2>3, <2>4, <1>3, <1>0
  <2>6. CASE Low # {}
    <3>1. Low \in SUBSET (1 .. n)
      OBVIOUS
    <3>2. PICK l \in Low : \A k \in Low : k <= l
      BY <3>1, <2>6, AuGreatest
    <3>3. l \in S /\ l \notin F /\ {x \in S : x >= l} = F \cup {l}
      <4>1. l \in S /\ l < i
        BY <3>2
      <4>2. \A x \in S : x < i => x <= l
        BY <3>2
      <4>3. \A x \in S : x >= l <=> x >= i \/ x = l
        BY <4>1, <4>2, <1>n
      <4>4. l \notin F
        BY <4>1, <1>n
      <4>5. QED BY <4>1, <4>3, <4>4
    <3>4. IsFiniteSet(F)
      BY AuFrom
    <3> HIDE DEF F
    <3>5. Cardinality(F \cup {l}) = Cardinality(F) + 1
      BY <3>3, <3>4, FS_AddElement
    <3>6. Rank(S, l) = m
      BY <3>3, <3>5, <2>3, <2>4, <1>3 DEF Rank
    <3>7. QED BY <3>3, <3>6, <1>3
  <2>7. QED BY <2>5, <2>6
<1>6. QED BY <1>4, <1>5

\* Places in descending order: all of them, each once.
LEMMA AuDescends ==
    ASSUME NEW n \in Nat, NEW S \in SUBSET (1 .. n)
    PROVE  /\ Cardinality(S) \in Nat /\ DOMAIN Descending(S) = 1 .. Cardinality(S)
           /\ \A j \in 1 .. Cardinality(S) : Descending(S)[j] \in S
           /\ \A i, j \in 1 .. Cardinality(S) : i < j => Descending(S)[i] > Descending(S)[j]
           /\ \A k \in S : \E j \in 1 .. Cardinality(S) : Descending(S)[j] = k
<1>n. \A x \in S : x \in Nat
  OBVIOUS
<1> DEFINE D == Descending(S)
           c == Cardinality(S)
<1>0. 1 \in Int /\ n \in Int
  OBVIOUS
<1>1. IsFiniteSet(1 .. n)
  BY <1>0, FS_Interval
<1>2. IsFiniteSet(S)
  BY <1>1, FS_Subset
<1>3. c \in Nat
  BY <1>2, FS_CardinalityType
<1>4. DOMAIN D = 1 .. c /\ \A j \in 1 .. c : D[j] = CHOOSE i \in S : Rank(S, i) = j
  BY DEF Descending
<1> HIDE DEF D
<1>5. \A j \in 1 .. c : D[j] \in S /\ Rank(S, D[j]) = j
  <2> TAKE j \in 1 .. c
  <2>1. \E i \in S : Rank(S, i) = j
    BY AuRanks
  <2>2. D[j] = CHOOSE i \in S : Rank(S, i) = j
    BY <1>4
  <2>3. QED BY <2>1, <2>2
<1> HIDE DEF c
<1>6. \A i, j \in 1 .. c : i < j => D[i] > D[j]
  <2> TAKE i, j \in 1 .. c
  <2> HAVE i < j
  <2>1. D[i] \in S /\ D[j] \in S /\ Rank(S, D[i]) = i /\ Rank(S, D[j]) = j
    BY <1>5
  <2>2. D[i] \in Nat /\ D[j] \in Nat /\ i \in Nat /\ j \in Nat
    <3>1. D[i] \in Nat
      BY <2>1, <1>n
    <3>2. D[j] \in Nat
      BY <2>1, <1>n
    <3>3. QED BY <3>1, <3>2, <1>3
  <2>3. CASE D[i] < D[j]
    <3>1. Rank(S, D[j]) < Rank(S, D[i])
      BY <2>1, <2>3, AuRankFalls
    <3>2. QED BY <3>1, <2>1, <2>2
  <2>4. CASE D[i] = D[j]
    BY <2>4, <2>1
  <2>5. QED BY <2>2, <2>3, <2>4
<1>7. \A k \in S : \E j \in 1 .. c : D[j] = k
  <2> TAKE k \in S
  <2> DEFINE j == Rank(S, k)
  <2>1. j \in Nat /\ j <= c /\ j >= 1
    BY AuFrom DEF c
  <2>2. j \in 1 .. c
    BY <2>1, <1>3
  <2> HIDE DEF j
  <2>3. D[j] \in S /\ Rank(S, D[j]) = Rank(S, k)
    BY <2>2, <1>5 DEF j
  <2>4. D[j] \in Nat /\ k \in Nat
    BY <2>3, <1>n
  <2>5. Rank(S, k) \in Nat
    BY AuFrom
  <2>6. CASE D[j] < k
    <3>1. Rank(S, k) < Rank(S, D[j])
      BY <2>3, <2>6, AuRankFalls
    <3>2. QED BY <3>1, <2>3, <2>5
  <2>7. CASE k < D[j]
    <3>1. Rank(S, D[j]) < Rank(S, k)
      BY <2>3, <2>7, AuRankFalls
    <3>2. QED BY <3>1, <2>3, <2>5
  <2>8. CASE D[j] = k
    BY <2>2, <2>8
  <2>9. QED BY <2>4, <2>6, <2>7, <2>8
<1>8. QED BY <1>3, <1>4, <1>5, <1>6, <1>7 DEF D, c

\* The first part of a head.
LEMMA AuFirst ==
    ASSUME NEW S, NEW q \in Seq(S), NEW i \in 0 .. Len(q)
    PROVE  /\ SubSeq(q, 1, i) \in Seq(S) /\ Len(SubSeq(q, 1, i)) = i
           /\ \A k \in 1 .. i : SubSeq(q, 1, i)[k] = q[k]
<1> DEFINE r == SubSeq(q, 1, i)
<1>1. 1 \in Int /\ i \in Int /\ \A k \in 1 .. i : q[k] \in S
  OBVIOUS
<1>2. /\ r \in Seq(S)
      /\ Len(r) = IF 1 <= i THEN i - 1 + 1 ELSE 0
      /\ \A k \in 1 .. i - 1 + 1 : r[k] = q[1 + k - 1]
  BY <1>1, SubSeqProperties
<1> HIDE DEF r
<1>3. Len(r) = i
  BY <1>2
<1>4. \A k \in 1 .. i : r[k] = q[k]
  <2> TAKE k \in 1 .. i
  <2>1. k \in 1 .. i - 1 + 1 /\ 1 + k - 1 = k
    OBVIOUS
  <2>2. QED BY <2>1, <1>2
<1>5. QED BY <1>2, <1>3, <1>4 DEF r

\* The lines past the legacy prefix.
LEMMA AuChainedIs ==
    ASSUME NEW s \in Seq(AuLine), NEW h \in AuSeal, h.legacy <= Len(s)
    PROVE  /\ Chained(s, h) \in Seq(AuLine) /\ Len(Chained(s, h)) = Len(s) - h.legacy
           /\ \A i \in 1 .. Len(s) - h.legacy : Chained(s, h)[i] = s[h.legacy + i]
<1> DEFINE c == Chained(s, h)
           l == h.legacy
<1>0. l \in Nat /\ Len(s) \in Nat /\ l <= Len(s)
  BY DEF AuSeal
<1>1. l + 1 \in Int /\ Len(s) \in Int /\ \A i \in l + 1 .. Len(s) : s[i] \in AuLine
  BY <1>0
<1>2. c = SubSeq(s, l + 1, Len(s))
  BY DEF Chained
<1> HIDE DEF c, l
<1>3. /\ c \in Seq(AuLine)
      /\ Len(c) = IF l + 1 <= Len(s) THEN Len(s) - (l + 1) + 1 ELSE 0
      /\ \A i \in 1 .. Len(s) - (l + 1) + 1 : c[i] = s[l + 1 + i - 1]
  BY <1>1, <1>2, SubSeqProperties
<1>4. Len(c) = Len(s) - l
  BY <1>0, <1>3
<1>5. \A i \in 1 .. Len(s) - l : c[i] = s[l + i]
  <2> TAKE i \in 1 .. Len(s) - l
  <2>1. i \in 1 .. Len(s) - (l + 1) + 1 /\ l + 1 + i - 1 = l + i
    BY <1>0
  <2>2. QED BY <2>1, <1>3
<1>6. QED BY <1>3, <1>4, <1>5 DEF c, l

\* Recs lists the records.
LEMMA AuRecs ==
    ASSUME NEW s \in Seq(AuLine), NEW q \in AuHeads, Len(s) = Len(q),
           \A i \in 1 .. Len(q) : s[i].rec = q[i]
    PROVE  Recs(s) = q
<1>1. Len(q) \in Nat /\ q = [i \in 1 .. Len(q) |-> q[i]]
  BY DEF AuHeads
<1>2. Recs(s) = [i \in 1 .. Len(q) |-> s[i].rec]
  BY DEF Recs
<1>3. QED BY <1>1, <1>2

\* A log that is the chain of a head checks out against it, and against a seal of an
\* earlier point of it is unsealed at the worst.
LEMMA AuVerify ==
    ASSUME NEW s \in Seq(AuLine), NEW h \in AuSeal, NEW p \in AuSeal,
           p.count = Len(p.head), AuChain(s, h), AuBehind(p, h)
    PROVE  IF Len(p.head) = Len(h.head) THEN Verify(s, p) = "verified" /\ p.head = h.head
           ELSE Verify(s, p) = "unsealed"
<1> DEFINE c == Chained(s, p)
<1>0. /\ h.head \in AuHeads /\ p.head \in AuHeads /\ h.legacy \in Nat /\ p.legacy = h.legacy
      /\ Len(h.head) \in Nat /\ Len(p.head) \in Nat /\ Len(p.head) <= Len(h.head)
      /\ Len(s) = h.legacy + Len(h.head)
      /\ \A i \in 1 .. Len(h.head) :
          /\ s[h.legacy + i].rec = h.head[i]
          /\ s[h.legacy + i].mac = SubSeq(h.head, 1, i)
      /\ \A i \in 1 .. Len(p.head) : p.head[i] = h.head[i]
  BY DEF AuChain, AuBehind, AuSeal, AuHeads
<1>1. p.legacy <= Len(s) /\ Len(s) - p.legacy = Len(h.head)
  BY <1>0
<1>2. /\ c \in Seq(AuLine) /\ Len(c) = Len(h.head)
      /\ \A i \in 1 .. Len(h.head) : c[i] = s[h.legacy + i]
  <2>1. /\ c \in Seq(AuLine) /\ Len(c) = Len(s) - p.legacy
        /\ \A i \in 1 .. Len(s) - p.legacy : c[i] = s[p.legacy + i]
    BY <1>1, AuChainedIs
  <2>2. QED BY <2>1, <1>0, <1>1
<1> HIDE DEF c
<1>3. \A i \in 1 .. Len(c) : Parses(c[i]) /\ c[i].mac = Recs(SubSeq(c, 1, i))
  <2> TAKE i \in 1 .. Len(c)
  <2>1. i \in 1 .. Len(h.head) /\ i \in 0 .. Len(h.head) /\ i \in 0 .. Len(c)
    BY <1>0, <1>2
  <2>2. c[i].rec = h.head[i] /\ c[i].mac = SubSeq(h.head, 1, i)
    BY <2>1, <1>0, <1>2
  <2>3. h.head[i] \in 1 .. AuditMax
    BY <2>1, <1>0, ElementOfSeq DEF AuHeads
  <2>4. Parses(c[i])
    BY <2>2, <2>3 DEF Parses
  <2> DEFINE a == SubSeq(c, 1, i)
             b == SubSeq(h.head, 1, i)
  <2>5. a \in Seq(AuLine) /\ Len(a) = i /\ \A k \in 1 .. i : a[k] = c[k]
    BY <2>1, <1>2, AuFirst
  <2>6. b \in AuHeads /\ Len(b) = i /\ \A k \in 1 .. i : b[k] = h.head[k]
    BY <2>1, <1>0, AuFirst DEF AuHeads
  <2> HIDE DEF a, b
  <2>7. \A k \in 1 .. Len(b) : a[k].rec = b[k]
    <3> TAKE k \in 1 .. Len(b)
    <3>1. k \in 1 .. i /\ k \in 1 .. Len(h.head)
      BY <2>1, <2>6, <1>0
    <3>2. a[k] = c[k] /\ b[k] = h.head[k] /\ c[k].rec = h.head[k]
      BY <3>1, <2>5, <2>6, <1>0, <1>2
    <3>3. QED BY <3>2
  <2>8. Recs(a) = b
    BY <2>5, <2>6, <2>7, AuRecs
  <2>9. QED BY <2>2, <2>4, <2>8 DEF a, b
<1>4. Recs(c) = h.head
  <2>1. \A i \in 1 .. Len(h.head) : c[i].rec = h.head[i]
    BY <1>0, <1>2
  <2>2. QED BY <2>1, <1>0, <1>2, AuRecs
<1>5. Verify(s, p) = IF Len(c) < p.count THEN "tampered" ELSE IF Len(c) > p.count THEN "unsealed"
                     ELSE IF Recs(c) # p.head THEN "tampered" ELSE "verified"
  BY <1>3 DEF Verify, c
<1>6. CASE Len(p.head) = Len(h.head)
  <2>1. p.head = h.head
    BY <1>6, <1>0, SeqEqual DEF AuHeads
  <2>2. QED BY <1>6, <2>1, <1>0, <1>2, <1>4, <1>5
<1>7. CASE Len(p.head) # Len(h.head)
  BY <1>7, <1>0, <1>2, <1>5
<1>8. QED BY <1>6, <1>7

\* An earlier point of the same length is the same chain.
LEMMA AuSameChain ==
    ASSUME NEW s, NEW h, NEW p, AuChain(s, h), p.head = h.head, p.legacy = h.legacy
    PROVE  AuChain(s, p)
BY DEF AuChain

\* A chain that starts now has no lines.
LEMMA AuFresh ==
    ASSUME NEW s \in Seq(AuLine)
    PROVE  /\ SealOf(<<>>, 0, Len(s)) \in AuSeal
           /\ SealOf(<<>>, 0, Len(s)).kind = "seal" /\ SealOf(<<>>, 0, Len(s)).count = 0
           /\ Len(SealOf(<<>>, 0, Len(s)).head) = 0
           /\ AuChain(s, SealOf(<<>>, 0, Len(s)))
<1> DEFINE h == SealOf(<<>>, 0, Len(s))
<1>1. Len(s) \in Nat /\ <<>> \in AuHeads /\ Len(<<>>) = 0
  BY DEF AuHeads
<1>2. h.head = <<>> /\ h.count = 0 /\ h.legacy = Len(s) /\ h.kind = "seal"
  BY DEF SealOf
<1>3. h \in AuSeal
  BY <1>1 DEF SealOf, AuSeal
<1>4. AuChain(s, h)
  BY <1>1, <1>2 DEF AuChain
<1>5. QED BY <1>1, <1>2, <1>3, <1>4

\* The cursor stays between the beginning of the log and where the page began.
LEMMA AuStops ==
    ASSUME NEW s, NEW from \in Nat
    PROVE  PageStop(s, from) \in Nat \ {0} /\ PageStop(s, from) - 1 \in 0 .. from
<1> DEFINE stops == {k \in 1 .. from : Cardinality(Entries(s, k, from)) = AuditLimit}
<1>1. PageStop(s, from) = IF stops = {} THEN 1 ELSE Max(stops)
  BY DEF PageStop
<1>2. CASE stops = {}
  BY <1>1, <1>2
<1>3. CASE stops # {}
  <2>1. stops \in SUBSET (1 .. from)
    OBVIOUS
  <2> HIDE DEF stops
  <2>2. \E m \in stops : \A k \in stops : k <= m
    BY <1>3, <2>1, AuGreatest
  <2>3. \E m \in stops : \A k \in stops : m >= k
    BY <2>1, <2>2
  <2>4. Max(stops) \in stops
    BY <2>3 DEF Max
  <2>5. Max(stops) \in 1 .. from
    BY <2>1, <2>4
  <2>6. QED BY <1>1, <1>3, <2>5
<1>4. QED BY <1>2, <1>3

\* Where two logs have the same records, the same lines parse.
LEMMA AuSameEntries ==
    ASSUME NEW s, NEW base, NEW k \in Nat, NEW from,
           \A i \in k .. from : s[i].rec = base[i].rec
    PROVE  Entries(s, k, from) = Entries(base, k, from)
BY DEF Entries, Parses

\* A page takes over where the ones before stopped.
LEMMA AuTurns ==
    ASSUME NEW base \in Seq(AuLine), NEW got \in Seq(AuEntry), NEW took,
           NEW from \in 0 .. Len(base), NEW stop \in Nat \ {0}, stop - 1 <= from,
           lines \in Seq(AuLine), Len(base) <= Len(lines),
           \A i \in 1 .. Len(base) : lines[i].rec = base[i].rec,
           took = Descending(Entries(lines, stop, from)),
           AuExact(base, from, got)
    PROVE  LET more == got \o [j \in DOMAIN took |-> [at |-> took[j], rec |-> lines[took[j]].rec]]
           IN  more \in Seq(AuEntry) /\ AuExact(base, stop - 1, more)
<1> DEFINE S == Entries(lines, stop, from)
           page == [j \in DOMAIN took |-> [at |-> took[j], rec |-> lines[took[j]].rec]]
           more == got \o page
           n == Cardinality(S)
           Of(k) == [at |-> k, rec |-> base[k].rec]
<1>0. Len(base) \in Nat /\ from \in Nat /\ from <= Len(base) /\ Len(got) \in Nat
  OBVIOUS
<1>1. S \in SUBSET (1 .. from) /\ \A k \in S : k \in stop .. from
  BY DEF Entries
<1>2. S = Entries(base, stop, from)
  <2>1. \A i \in stop .. from : lines[i].rec = base[i].rec
    BY <1>0
  <2>2. QED BY <2>1, AuSameEntries
<1>3. /\ n \in Nat /\ DOMAIN took = 1 .. n
      /\ \A j \in 1 .. n : took[j] \in S
      /\ \A i, j \in 1 .. n : i < j => took[i] > took[j]
      /\ \A k \in S : \E j \in 1 .. n : took[j] = k
  <2>1. took = Descending(S)
    OBVIOUS
  <2> HIDE DEF S
  <2>2. S \in SUBSET (1 .. from)
    BY <1>1
  <2>3. from \in Nat
    BY <1>0
  <2> DEFINE D == Descending(S)
  <2>4. /\ n \in Nat /\ DOMAIN D = 1 .. n
        /\ \A j \in 1 .. n : D[j] \in S
        /\ \A i, j \in 1 .. n : i < j => D[i] > D[j]
        /\ \A k \in S : \E j \in 1 .. n : D[j] = k
    BY ONLY <2>2, <2>3, AuDescends
  <2>5. took = D
    BY <2>1
  <2> HIDE DEF D, n
  <2>6. QED BY <2>4, <2>5
<1> HIDE DEF n
<1>4. \A j \in 1 .. n : /\ took[j] \in 1 .. from /\ took[j] \in stop .. from
                        /\ lines[took[j]].rec = base[took[j]].rec
                        /\ Of(took[j]) \in AuEntry
  <2> TAKE j \in 1 .. n
  <2>1. took[j] \in 1 .. from /\ took[j] \in stop .. from /\ took[j] \in 1 .. Len(base)
    BY <1>0, <1>1, <1>3
  <2>2. base[took[j]] \in AuLine
    BY <2>1, ElementOfSeq
  <2>3. Of(took[j]) \in AuEntry
    <3>1. took[j] \in Nat /\ base[took[j]].rec \in 0 .. AuditMax + 1
      <4>1. took[j] \in Nat
        BY <1>0, <2>1
      <4>2. base[took[j]].rec \in 0 .. AuditMax + 1
        BY <2>2 DEF AuLine
      <4>3. QED BY <4>1, <4>2
    <3>2. QED BY <3>1 DEF AuEntry
  <2>4. QED BY <2>1, <2>3
<1>5. /\ page = [j \in 1 .. n |-> Of(took[j])] /\ page \in Seq(AuEntry) /\ Len(page) = n
      /\ \A j \in 1 .. n : page[j] = Of(took[j])
  <2>1. page = [j \in 1 .. n |-> Of(took[j])]
    BY <1>3, <1>4
  <2> HIDE DEF page
  <2>2. \A j \in 1 .. n : page[j] = Of(took[j])
    BY <2>1
  <2>3. page \in [1 .. n -> AuEntry]
    <3> HIDE DEF Of
    <3>1. QED BY <2>1, <1>4
  <2>4. page \in Seq(AuEntry) /\ Len(page) = n
    BY <2>3, <1>3
  <2>5. QED BY <2>1, <2>2, <2>4
<1> HIDE DEF page
<1>6. /\ more \in Seq(AuEntry) /\ Len(more) = Len(got) + n
      /\ \A i \in 1 .. Len(got) + n : more[i] = IF i <= Len(got) THEN got[i] ELSE page[i - Len(got)]
  <2>1. page \in Seq(AuEntry) /\ Len(page) = n
    BY <1>5
  <2>2. /\ more \in Seq(AuEntry) /\ Len(more) = Len(got) + Len(page)
        /\ \A i \in 1 .. Len(got) + Len(page) :
              more[i] = IF i <= Len(got) THEN got[i] ELSE page[i - Len(got)]
    BY <2>1, ConcatProperties
  <2> HIDE DEF more
  <2>3. QED BY <2>1, <2>2
<1> HIDE DEF more
<1>7. DOMAIN more = 1 .. Len(got) + n /\ DOMAIN got = 1 .. Len(got)
  BY <1>6
<1>8. /\ \A i, j \in 1 .. Len(got) : i < j => got[i].at > got[j].at
      /\ {got[i] : i \in 1 .. Len(got)} = {Of(k) : k \in Entries(base, from + 1, Len(base))}
  BY <1>7 DEF AuExact
<1>9. \A i \in 1 .. Len(got) : more[i] = got[i] /\ got[i].at \in Nat /\ got[i].at > from
  <2> TAKE i \in 1 .. Len(got)
  <2>1. i \in 1 .. Len(got) + n /\ i <= Len(got)
    BY <1>0, <1>3
  <2>2. more[i] = got[i]
    BY <2>1, <1>6
  <2>3. got[i] \in {Of(k) : k \in Entries(base, from + 1, Len(base))}
    BY <1>8
  <2>4. PICK k \in Entries(base, from + 1, Len(base)) : got[i] = Of(k)
    BY <2>3
  <2>5. k \in from + 1 .. Len(base) /\ got[i].at = k
    BY <2>4 DEF Entries
  <2>6. QED BY <2>2, <2>5, <1>0
<1>10. \A i \in Len(got) + 1 .. Len(got) + n :
          /\ i - Len(got) \in 1 .. n /\ more[i] = Of(took[i - Len(got)])
          /\ more[i].at = took[i - Len(got)]
  <2> TAKE i \in Len(got) + 1 .. Len(got) + n
  <2>1. i - Len(got) \in 1 .. n /\ i \in 1 .. Len(got) + n /\ ~(i <= Len(got))
    BY <1>0, <1>3
  <2>2. more[i] = page[i - Len(got)]
    BY <2>1, <1>6
  <2>3. QED BY <2>1, <2>2, <1>5
<1>11. \A i, j \in 1 .. Len(got) + n : i < j => more[i].at > more[j].at
  <2> TAKE i, j \in 1 .. Len(got) + n
  <2> HAVE i < j
  <2>1. CASE j <= Len(got)
    <3>1. i \in 1 .. Len(got) /\ j \in 1 .. Len(got)
      BY <2>1, <1>0, <1>3
    <3>2. QED BY <3>1, <1>8, <1>9
  <2>2. CASE i <= Len(got) /\ j > Len(got)
    <3>1. i \in 1 .. Len(got) /\ j \in Len(got) + 1 .. Len(got) + n
      BY <2>2, <1>0, <1>3
    <3>2. more[i].at > from /\ more[i].at \in Nat
      BY <3>1, <1>9
    <3>3. more[j].at \in 1 .. from
      BY <3>1, <1>10, <1>4
    <3>4. QED BY <3>2, <3>3, <1>0
  <2>3. CASE i > Len(got)
    <3>1. i \in Len(got) + 1 .. Len(got) + n /\ j \in Len(got) + 1 .. Len(got) + n
      BY <2>3, <1>0, <1>3
    <3>2. i - Len(got) \in 1 .. n /\ j - Len(got) \in 1 .. n /\ i - Len(got) < j - Len(got)
      BY <3>1, <1>0, <1>3
    <3>3. took[i - Len(got)] > took[j - Len(got)]
      BY <3>2, <1>3
    <3>4. QED BY <3>1, <3>3, <1>10
  <2>4. QED BY <2>1, <2>2, <2>3, <1>0, <1>3
<1>12. Entries(base, stop, Len(base)) = S \cup Entries(base, from + 1, Len(base))
  <2>1. stop .. Len(base) = stop .. from \cup from + 1 .. Len(base)
    BY <1>0
  <2>2. QED BY <2>1, <1>2 DEF Entries
<1>13. {more[i] : i \in 1 .. Len(got) + n} = {Of(k) : k \in Entries(base, stop, Len(base))}
  <2> HIDE DEF S, Of
  <2>1. ASSUME NEW i \in 1 .. Len(got) + n
        PROVE  more[i] \in {Of(k) : k \in Entries(base, stop, Len(base))}
    <3>1. CASE i <= Len(got)
      <4>1. i \in 1 .. Len(got)
        BY <3>1, <1>0, <1>3
      <4>2. more[i] = got[i] /\ got[i] \in {Of(k) : k \in Entries(base, from + 1, Len(base))}
        BY <4>1, <1>8, <1>9
      <4>3. QED BY <4>2, <1>12
    <3>2. CASE i > Len(got)
      <4>1. i \in Len(got) + 1 .. Len(got) + n
        BY <3>2, <1>0, <1>3
      <4>2. more[i] = Of(took[i - Len(got)]) /\ took[i - Len(got)] \in S
        BY <4>1, <1>3, <1>10
      <4>3. QED BY <4>2, <1>12
    <3>3. QED BY <3>1, <3>2, <1>0, <1>3
  <2>2. ASSUME NEW k \in Entries(base, stop, Len(base))
        PROVE  \E i \in 1 .. Len(got) + n : more[i] = Of(k)
    <3>1. CASE k \in S
      <4>1. PICK j \in 1 .. n : took[j] = k
        BY <3>1, <1>3
      <4>2. Len(got) + j \in Len(got) + 1 .. Len(got) + n /\ (Len(got) + j) - Len(got) = j
            /\ Len(got) + j \in 1 .. Len(got) + n
        BY <1>0, <1>3
      <4>3. more[Len(got) + j] = Of(k)
        BY <4>1, <4>2, <1>10
      <4>4. QED BY <4>2, <4>3
    <3>2. CASE k \in Entries(base, from + 1, Len(base))
      <4>1. Of(k) \in {got[i] : i \in 1 .. Len(got)}
        BY <3>2, <1>8
      <4>2. PICK i \in 1 .. Len(got) : got[i] = Of(k)
        BY <4>1
      <4>3. more[i] = Of(k) /\ i \in 1 .. Len(got) + n
        BY <4>2, <1>9, <1>0, <1>3
      <4>4. QED BY <4>3
    <3>3. QED BY <3>1, <3>2, <1>12
  <2>3. QED BY <2>1, <2>2
<1>14. stop - 1 + 1 = stop
  OBVIOUS
<1>15. AuExact(base, stop - 1, more)
  BY <1>7, <1>11, <1>13, <1>14 DEF AuExact
<1>16. QED BY <1>6, <1>15 DEF more, page

\* A line is added, or completes a fragment; what was there keeps its records.
LEMMA AuAdds ==
    ASSUME NEW s \in Seq(AuLine), NEW line \in AuLine
    PROVE  /\ WithLine(s, line) \in Seq(AuLine) /\ Len(s) <= Len(WithLine(s, line))
           /\ \A i \in 1 .. Len(s) : WithLine(s, line)[i].rec = s[i].rec
           /\ (\A i \in 1 .. Len(s) : s[i].rec # 0) => WithLine(s, line) = Append(s, line)
<1>1. CASE s # <<>> /\ Last(s) = Fragment
  <2>1. Len(s) \in 1 .. Len(s) /\ s[Len(s)] = Fragment
    BY <1>1, EmptySeq DEF Last
  <2>2. Torn \in AuLine /\ Torn.rec = 0 /\ Fragment.rec = 0
    BY AuLimits DEF Torn, Fragment, AuLine
  <2>3. WithLine(s, line) = [s EXCEPT ![Len(s)] = Torn]
    BY <1>1 DEF WithLine
  <2> DEFINE t == WithLine(s, line)
  <2>4. /\ t \in Seq(AuLine) /\ Len(t) = Len(s)
        /\ \A j \in 1 .. Len(s) : t[j] = IF j = Len(s) THEN Torn ELSE s[j]
    BY <2>1, <2>2, <2>3, ExceptSeq
  <2> HIDE DEF t
  <2>5. \A i \in 1 .. Len(s) : t[i].rec = s[i].rec
    BY <2>1, <2>2, <2>4
  <2>6. ~ \A i \in 1 .. Len(s) : s[i].rec # 0
    BY <2>1, <2>2
  <2>7. Len(s) <= Len(t)
    BY <2>4
  <2>8. QED BY <2>4, <2>5, <2>6, <2>7 DEF t
<1>2. CASE ~(s # <<>> /\ Last(s) = Fragment)
  <2>1. WithLine(s, line) = Append(s, line)
    BY <1>2 DEF WithLine
  <2> DEFINE t == Append(s, line)
  <2>2. t \in Seq(AuLine) /\ Len(t) = Len(s) + 1 /\ \A i \in 1 .. Len(s) : t[i] = s[i]
    BY AppendProperties
  <2> HIDE DEF t
  <2>3. Len(s) <= Len(t)
    BY <2>2
  <2>4. QED BY <2>1, <2>2, <2>3 DEF t
<1>3. QED BY <1>1, <1>2

\* A reader's log stays the beginning of a log that only grew.
LEMMA AuSeenOn ==
    ASSUME NEW s \in Seq(AuLine), NEW t \in Seq(AuLine), NEW v, v.base \in Seq(AuLine), AuSeen(s, v),
           Len(s) <= Len(t), \A i \in 1 .. Len(s) : t[i].rec = s[i].rec
    PROVE  AuSeen(t, v)
<1>1. CASE ~v.on
  BY <1>1 DEF AuSeen
<1>2. CASE v.on
  <2>1. /\ v.before <= Len(v.base) /\ Len(v.base) <= Len(s)
        /\ \A i \in 1 .. Len(v.base) : s[i].rec = v.base[i].rec
        /\ AuExact(v.base, v.before, v.got)
    BY <1>2 DEF AuSeen
  <2>2. Len(v.base) \in Nat /\ Len(s) \in Nat /\ Len(t) \in Nat
    OBVIOUS
  <2>3. Len(v.base) <= Len(t)
    BY <2>1, <2>2
  <2>4. \A i \in 1 .. Len(v.base) : t[i].rec = v.base[i].rec
    <3> TAKE i \in 1 .. Len(v.base)
    <3>1. i \in 1 .. Len(s)
      BY <2>1, <2>2
    <3>2. QED BY <3>1, <2>1
  <2>5. QED BY <1>2, <2>1, <2>3, <2>4 DEF AuSeen
<1>3. QED BY <1>1, <1>2

\* The next record is chained: the line goes to the end and the head follows.
LEMMA AuChainGrows ==
    ASSUME NEW s \in Seq(AuLine), NEW h \in AuSeal, AuChain(s, h), NEW r \in 1 .. AuditMax
    PROVE  /\ AuChain(Append(s, [rec |-> r, mac |-> Append(h.head, r)]),
                      SealOf(Append(h.head, r), h.count + 1, h.legacy))
           /\ AuBehind(h, SealOf(Append(h.head, r), h.count + 1, h.legacy))
           /\ \A p \in AuSeal : AuBehind(p, h) =>
                 AuBehind(p, SealOf(Append(h.head, r), h.count + 1, h.legacy))
<1> DEFINE H == Append(h.head, r)
           line == [rec |-> r, mac |-> H]
           t == Append(s, line)
           g == SealOf(H, h.count + 1, h.legacy)
           l == h.legacy
<1>0. /\ h.head \in AuHeads /\ l \in Nat /\ Len(h.head) \in Nat /\ Len(s) = l + Len(h.head)
      /\ \A i \in 1 .. Len(h.head) :
          /\ s[l + i].rec = h.head[i]
          /\ s[l + i].mac = SubSeq(h.head, 1, i)
  BY DEF AuChain, AuSeal, AuHeads
<1>1. /\ H \in AuHeads /\ Len(H) = Len(h.head) + 1 /\ H[Len(h.head) + 1] = r
      /\ \A i \in 1 .. Len(h.head) : H[i] = h.head[i]
  BY <1>0, AppendProperties DEF AuHeads
<1>2. g.head = H /\ g.legacy = l
  BY DEF SealOf
<1>3. line.rec = r /\ line.mac = H
  OBVIOUS
<1>4. Len(t) = Len(s) + 1 /\ (\A i \in 1 .. Len(s) : t[i] = s[i]) /\ t[Len(s) + 1] = line
  BY AppendProperties
<1> HIDE DEF H, line, t, g, l
<1>5. \A i \in 1 .. Len(H) : t[l + i].rec = H[i] /\ t[l + i].mac = SubSeq(H, 1, i)
  <2> TAKE i \in 1 .. Len(H)
  <2> DEFINE a == SubSeq(H, 1, i)
  <2>1. i \in 0 .. Len(H)
    BY <1>0, <1>1
  <2>2. a \in AuHeads /\ Len(a) = i /\ \A k \in 1 .. i : a[k] = H[k]
    BY <2>1, <1>1, AuFirst DEF AuHeads
  <2> HIDE DEF a
  <2>3. CASE i = Len(h.head) + 1
    <3>1. l + i = Len(s) + 1 /\ Len(a) = Len(H)
      BY <2>2, <2>3, <1>0, <1>1
    <3>2. a = H
      BY <3>1, <2>2, <1>1, SeqEqual DEF AuHeads
    <3>3. QED BY <2>3, <3>1, <3>2, <1>1, <1>3, <1>4 DEF a
  <2>4. CASE i # Len(h.head) + 1
    <3>1. i \in 1 .. Len(h.head) /\ l + i \in 1 .. Len(s) /\ i \in 0 .. Len(h.head)
      BY <2>4, <1>0, <1>1
    <3>2. t[l + i] = s[l + i] /\ s[l + i].rec = h.head[i] /\ s[l + i].mac = SubSeq(h.head, 1, i)
          /\ H[i] = h.head[i]
      BY <3>1, <1>0, <1>1, <1>4
    <3> DEFINE b == SubSeq(h.head, 1, i)
    <3>3. b \in AuHeads /\ Len(b) = i /\ \A k \in 1 .. i : b[k] = h.head[k]
      BY <3>1, <1>0, AuFirst DEF AuHeads
    <3> HIDE DEF b
    <3>4. \A k \in 1 .. Len(b) : a[k] = b[k]
      <4> TAKE k \in 1 .. Len(b)
      <4>1. k \in 1 .. i /\ k \in 1 .. Len(h.head)
        BY <3>1, <3>3, <1>0
      <4>2. QED BY <4>1, <2>2, <3>3, <1>1
    <3>5. a = b
      BY <2>2, <3>3, <3>4, SeqEqual DEF AuHeads
    <3>6. QED BY <3>2, <3>5 DEF a, b
  <2>5. QED BY <2>3, <2>4
<1>6. Len(t) = l + Len(H)
  BY <1>0, <1>1, <1>4
<1>7. AuChain(t, g)
  BY <1>2, <1>5, <1>6 DEF AuChain
<1>8. AuBehind(h, g)
  <2>1. Len(h.head) <= Len(H)
    BY <1>0, <1>1
  <2>2. QED BY <2>1, <1>1, <1>2 DEF AuBehind, l
<1>9. ASSUME NEW p \in AuSeal, AuBehind(p, h) PROVE AuBehind(p, g)
  <2>1. p.legacy = l /\ Len(p.head) <= Len(h.head) /\ \A i \in 1 .. Len(p.head) : p.head[i] = h.head[i]
    BY <1>9 DEF AuBehind, l
  <2>2. Len(p.head) \in Nat
    BY DEF AuSeal, AuHeads
  <2>3. Len(p.head) <= Len(H)
    BY <2>1, <2>2, <1>0, <1>1
  <2>4. \A i \in 1 .. Len(p.head) : p.head[i] = H[i]
    <3> TAKE i \in 1 .. Len(p.head)
    <3>1. i \in 1 .. Len(h.head)
      BY <2>1, <2>2, <1>0
    <3>2. QED BY <3>1, <2>1, <1>1
  <2>5. QED BY <2>1, <2>3, <2>4, <1>2 DEF AuBehind
<1>10. QED BY <1>7, <1>8, <1>9 DEF t, g, line, H, l

\* The parts of the invariant.
LEMMA AuParts ==
    ASSUME AuInv
    PROVE  /\ lines \in Seq(AuLine) /\ Len(lines) \in Nat
           /\ sealed \in AuSeal /\ sealed.count = Len(sealed.head)
           /\ head \in AuSeal /\ head.count = Len(head.head)
           /\ head.head \in AuHeads /\ head.count \in Nat /\ head.legacy \in Nat
           /\ made \in Nat /\ made <= AuditMax
           /\ view.base \in Seq(AuLine) /\ view.before \in Nat /\ view.got \in Seq(AuEntry)
           /\ view.on \in BOOLEAN
           /\ smooth => AuWhole(lines, sealed, head, phase)
           /\ AuSeen(lines, view)
BY AuLimits DEF AuInv, AuShape, AuSeal, AuHeads

\* The initial state satisfies the invariant.
LEMMA AuInvInit == AuditInit => AuInv
<1> SUFFICES ASSUME AuditInit PROVE AuInv
  OBVIOUS
<1>1. PICK n \in 0 .. 1 : lines = [i \in 1 .. n |-> Legacy(i)] /\ made = n
  BY DEF AuditInit
<1>2. \A i \in 1 .. n : Legacy(i) \in AuLine /\ Legacy(i).rec = i
  <2> TAKE i \in 1 .. n
  <2>1. NoMac \in Seq(0 .. AuditMax)
    BY AuLimits DEF NoMac
  <2>2. i \in 0 .. AuditMax + 1
    BY <1>1, AuLimits
  <2>3. QED BY <2>1, <2>2 DEF Legacy, AuLine
<1>3. lines \in Seq(AuLine) /\ Len(lines) = n /\ \A i \in 1 .. n : lines[i].rec = i
  <2>1. lines \in [1 .. n -> AuLine]
    <3>1. \A i \in 1 .. n : lines[i] = Legacy(i)
      BY <1>1
    <3>2. QED BY <1>1, <1>2, <3>1
  <2>2. n \in Nat
    BY <1>1
  <2>3. lines \in Seq(AuLine) /\ Len(lines) = n
    BY <2>1, <2>2
  <2>4. \A i \in 1 .. n : lines[i] = Legacy(i)
    BY <1>1
  <2>5. QED BY <1>2, <2>3, <2>4
<1>4. <<>> \in AuHeads /\ <<>> \in Seq(AuLine) /\ <<>> \in Seq(AuEntry) /\ Len(<<>>) = 0
  BY DEF AuHeads
<1>5. NoSeal \in AuSeal /\ NoSeal.count = Len(NoSeal.head) /\ NoSeal.kind = "none"
  BY <1>4 DEF NoSeal, AuSeal
<1>6. AuditNoView \in [on : BOOLEAN, base : Seq(AuLine), before : Nat, got : Seq(AuEntry)]
      /\ ~AuditNoView.on
  BY <1>4 DEF AuditNoView
<1>7. made \in 0 .. AuditMax
  BY <1>1, AuLimits
<1>8. AuShape
  BY <1>3, <1>5, <1>6, <1>7 DEF AuditInit, AuShape
<1>9. AuWhole(lines, sealed, head, phase)
  BY <1>3, <1>5 DEF AuditInit, AuWhole
<1>10. AuSeen(lines, view)
  BY <1>6 DEF AuditInit, AuSeen
<1>11. QED BY <1>8, <1>9, <1>10 DEF AuInv

\* What a start finds, or takes over.
LEMMA AuAdopts ==
    ASSUME AuInv
    PROVE  /\ LoadOrAdopt \in AuSeal /\ LoadOrAdopt.count = Len(LoadOrAdopt.head)
           /\ LoadOrAdopt.kind = "seal"
           /\ AuBehind(LoadOrAdopt, LoadOrAdopt)
           /\ smooth /\ phase = "down" =>
                 /\ Verify(lines, LoadOrAdopt) # "tampered"
                 /\ Verify(lines, LoadOrAdopt) = "verified" => AuChain(lines, LoadOrAdopt)
<1>1. CASE sealed.kind = "seal"
  <2>1. LoadOrAdopt = sealed
    BY <1>1 DEF LoadOrAdopt
  <2>2. ASSUME smooth, phase = "down"
        PROVE  /\ Verify(lines, sealed) # "tampered"
               /\ Verify(lines, sealed) = "verified" => AuChain(lines, sealed)
    <3>1. AuWhole(lines, sealed, head, phase)
      BY <2>2, AuParts
    <3>2. AuChain(lines, head) /\ AuBehind(sealed, head)
      BY <3>1, <2>2, <1>1 DEF AuWhole
    <3>3. IF Len(sealed.head) = Len(head.head) THEN Verify(lines, sealed) = "verified" /\ sealed.head = head.head
          ELSE Verify(lines, sealed) = "unsealed"
      BY <3>2, AuParts, AuVerify
    <3>4. CASE Len(sealed.head) = Len(head.head)
      <4>1. sealed.legacy = head.legacy
        BY <3>2 DEF AuBehind
      <4>2. AuChain(lines, sealed)
        BY <3>2, <3>3, <3>4, <4>1, AuSameChain
      <4>3. QED BY <3>3, <3>4, <4>2
    <3>5. CASE Len(sealed.head) # Len(head.head)
      BY <3>3, <3>5
    <3>6. QED BY <3>4, <3>5
  <2>3. AuBehind(sealed, sealed)
    <3>1. Len(sealed.head) \in Nat
      BY AuParts DEF AuSeal, AuHeads
    <3>2. QED BY <3>1 DEF AuBehind
  <2>4. QED BY <1>1, <2>1, <2>2, <2>3, AuParts
<1>2. CASE sealed.kind # "seal"
  <2> DEFINE h == SealOf(<<>>, 0, Len(lines))
  <2>1. LoadOrAdopt = h
    BY <1>2 DEF LoadOrAdopt
  <2>2. h \in AuSeal /\ h.kind = "seal" /\ h.count = 0 /\ Len(h.head) = 0 /\ AuChain(lines, h)
    BY AuParts, AuFresh
  <2> HIDE DEF h
  <2>3. AuBehind(h, h) /\ h.count = Len(h.head)
    BY <2>2 DEF AuBehind
  <2>4. Verify(lines, h) = "verified"
    BY <2>2, <2>3, AuParts, AuVerify
  <2>5. QED BY <2>1, <2>2, <2>3, <2>4
<1>3. QED BY <1>1, <1>2

\* Opening keeps the invariant: it takes over what is sealed, or seals what is there.
LEMMA AuOpenStep == AuInv /\ AuditOpen => AuInv'
<1> SUFFICES ASSUME AuInv, AuditOpen PROVE AuInv'
  OBVIOUS
<1>1. /\ phase = "down" /\ head' = LoadOrAdopt /\ sealed' \in {LoadOrAdopt, sealed}
      /\ verdict' = Verify(lines, LoadOrAdopt)
      /\ phase' = IF verdict' = "verified" THEN "idle" ELSE "owed"
      /\ smooth' = (smooth /\ verdict' = "verified")
      /\ UNCHANGED <<lines, made, honest, view>>
  BY DEF AuditOpen
<1>2. /\ LoadOrAdopt \in AuSeal /\ LoadOrAdopt.count = Len(LoadOrAdopt.head)
      /\ LoadOrAdopt.kind = "seal" /\ AuBehind(LoadOrAdopt, LoadOrAdopt)
      /\ smooth /\ phase = "down" =>
            (Verify(lines, LoadOrAdopt) = "verified" => AuChain(lines, LoadOrAdopt))
  BY AuAdopts
<1>3. sealed' \in AuSeal /\ sealed'.count = Len(sealed'.head)
      /\ (sealed'.kind = "seal" => sealed' = LoadOrAdopt)
  <2>1. sealed.kind = "seal" => LoadOrAdopt = sealed
    BY DEF LoadOrAdopt
  <2>2. QED BY <1>1, <1>2, <2>1, AuParts
<1>4. verdict' \in {"none", "verified", "unsealed", "tampered"}
  BY <1>1 DEF Verify
<1>5. phase' \in {"idle", "owed"} /\ smooth' \in BOOLEAN
  BY <1>1
<1>6. AuShape'
  BY <1>1, <1>2, <1>3, <1>4, <1>5 DEF AuInv, AuShape
<1>7. ASSUME smooth' PROVE AuWhole(lines', sealed', head', phase')
  <2>1. smooth /\ Verify(lines, LoadOrAdopt) = "verified"
    BY <1>1, <1>7
  <2>2. AuChain(lines, LoadOrAdopt)
    BY <1>1, <1>2, <2>1
  <2>3. \A i \in 1 .. Len(lines) : lines[i].rec # 0
    BY <2>1, AuParts DEF AuWhole
  <2>4. QED BY <1>1, <1>2, <1>3, <2>2, <2>3 DEF AuWhole
<1>8. AuSeen(lines', view')
  BY <1>1, AuParts
<1>9. QED BY <1>6, <1>7, <1>8 DEF AuInv

\* A line is chained, and the file and the head agree on it.
LEMMA AuAppendStep == AuInv /\ AuditAppend => AuInv'
<1> SUFFICES ASSUME AuInv, AuditAppend PROVE AuInv'
  OBVIOUS
<1> DEFINE r == NextRec
           H == Append(head.head, r)
           line == [rec |-> r, mac |-> H]
           g == SealOf(H, head.count + 1, head.legacy)
           t == WithLine(lines, line)
<1>1. /\ phase \in {"idle", "owed"} /\ made < AuditMax /\ made' = r /\ lines' = t
      /\ head' = g /\ phase' = "appended"
      /\ UNCHANGED <<sealed, verdict, honest, smooth, view>>
  BY DEF AuditAppend
<1>2. r \in 1 .. AuditMax /\ r \in 0 .. AuditMax
  BY <1>1, AuParts, AuLimits DEF NextRec
<1>3. H \in AuHeads /\ Len(H) = Len(head.head) + 1
  BY <1>2, AuParts, AppendProperties DEF AuHeads
<1>4. line \in AuLine
  <2>1. H \in Seq(0 .. AuditMax)
    <3>1. H \in Seq(1 .. AuditMax) /\ 1 .. AuditMax \subseteq 0 .. AuditMax
      BY <1>3, AuLimits DEF AuHeads
    <3> HIDE DEF H
    <3>2. QED BY <3>1, SeqMonotonic
  <2>2. r \in 0 .. AuditMax + 1
    BY <1>2, AuLimits
  <2> HIDE DEF H, r
  <2>3. QED BY <2>1, <2>2 DEF AuLine
<1>5. g \in AuSeal /\ g.kind = "seal" /\ g.count = Len(g.head)
  <2> HIDE DEF H
  <2>1. g.head = H /\ g.count = head.count + 1 /\ g.legacy = head.legacy /\ g.kind = "seal"
    BY DEF SealOf
  <2>2. g \in AuSeal
    BY <1>3, AuParts DEF SealOf, AuSeal
  <2>3. QED BY <2>1, <2>2, <1>3, AuParts
<1>6. /\ t \in Seq(AuLine) /\ Len(lines) <= Len(t)
      /\ \A i \in 1 .. Len(lines) : t[i].rec = lines[i].rec
      /\ (\A i \in 1 .. Len(lines) : lines[i].rec # 0) => t = Append(lines, line)
  <2> HIDE DEF line
  <2>1. QED BY <1>4, AuParts, AuAdds
<1>7. AuSeen(t, view)
  <2> HIDE DEF t
  <2>1. QED BY <1>6, AuParts, AuSeenOn
<1>8. ASSUME smooth PROVE AuWhole(t, sealed, g, "appended")
  <2>1. AuWhole(lines, sealed, head, phase)
    BY <1>8, AuParts
  <2>2. \A i \in 1 .. Len(lines) : lines[i].rec # 0
    BY <2>1 DEF AuWhole
  <2>3. AuChain(lines, head) /\ (sealed.kind = "seal" => AuBehind(sealed, head))
    BY <2>1, <1>1 DEF AuWhole
  <2>4. t = Append(lines, line)
    BY <1>6, <2>2
  <2>5. AuChain(Append(lines, line), g) /\ \A p \in AuSeal : AuBehind(p, head) => AuBehind(p, g)
    BY <1>2, <2>3, AuParts, AuChainGrows
  <2>6. \A i \in 1 .. Len(t) : t[i].rec # 0
    <3>0. line.rec = r
      OBVIOUS
    <3> HIDE DEF line, t, r
    <3>1. /\ Len(t) = Len(lines) + 1 /\ t[Len(lines) + 1] = line
          /\ \A i \in 1 .. Len(lines) : t[i] = lines[i]
      BY <2>4, <1>4, AuParts, AppendProperties
    <3>2. \A i \in 1 .. Len(t) : i \in 1 .. Len(lines) \/ i = Len(lines) + 1
      BY <3>1, AuParts
    <3>3. r # 0
      BY <1>2
    <3>4. QED BY <2>2, <3>0, <3>1, <3>2, <3>3
  <2>7. AuChain(t, g)
    BY <2>4, <2>5
  <2>8. sealed.kind = "seal" => AuBehind(sealed, g)
    BY <2>3, <2>5, AuParts
  <2> HIDE DEF t, g
  <2>9. QED BY <1>5, <2>6, <2>7, <2>8 DEF AuWhole
<1> HIDE DEF t, g, r
<1>9. AuShape'
  BY <1>1, <1>2, <1>5, <1>6 DEF AuInv, AuShape
<1>10. QED BY <1>1, <1>7, <1>8, <1>9 DEF AuInv

\* A line that was refused leaves the file as it was, or with a fragment.
LEMMA AuFailStep == AuInv /\ AuditAppendFails => AuInv'
<1> SUFFICES ASSUME AuInv, AuditAppendFails PROVE AuInv'
  OBVIOUS
<1>1. /\ phase \in {"idle", "owed"} /\ made' = NextRec /\ made' \in 0 .. AuditMax /\ phase' = "idle"
      /\ UNCHANGED <<sealed, head, verdict, honest, view>>
  BY AuParts, AuLimits DEF AuditAppendFails, NextRec
<1>2. CASE UNCHANGED <<lines, smooth>>
  <2>1. AuShape'
    BY <1>1, <1>2 DEF AuInv, AuShape
  <2>2. ASSUME smooth PROVE AuWhole(lines, sealed, head, "idle")
    BY <1>1, <2>2, AuParts DEF AuWhole
  <2>3. AuSeen(lines', view')
    BY <1>1, <1>2, AuParts
  <2>4. QED BY <1>1, <1>2, <2>1, <2>2, <2>3 DEF AuInv
<1>3. CASE lines' = WithLine(lines, Fragment) /\ smooth' = FALSE
  <2>1. Fragment \in AuLine
    BY AuLimits DEF Fragment, AuLine
  <2>2. /\ lines' \in Seq(AuLine) /\ Len(lines) <= Len(lines')
        /\ \A i \in 1 .. Len(lines) : lines'[i].rec = lines[i].rec
    BY <1>3, <2>1, AuParts, AuAdds
  <2>3. AuSeen(lines', view)
    BY <2>2, AuParts, AuSeenOn
  <2>4. AuShape'
    BY <1>1, <1>3, <2>2 DEF AuInv, AuShape
  <2>5. QED BY <1>1, <1>3, <2>3, <2>4 DEF AuInv
<1>4. QED BY <1>2, <1>3 DEF AuditAppendFails

\* An emptied log is a new chain; what is sealed still is of the old one.  When the clear
\* stops half way the head is of the old one as well, unless there was nothing to empty.
LEMMA AuClearStep == AuInv /\ AuditClear => AuInv'
<1> SUFFICES ASSUME AuInv, AuditClear PROVE AuInv'
  OBVIOUS
<1> DEFINE g == SealOf(<<>>, 0, 0)
<1>1. /\ lines' = <<>> /\ view' = AuditNoView
      /\ UNCHANGED <<sealed, verdict, made, honest>>
      /\ phase = "idle"
  BY DEF AuditClear
<1>2. <<>> \in Seq(AuLine) /\ <<>> \in AuHeads /\ <<>> \in Seq(AuEntry) /\ Len(<<>>) = 0
  BY DEF AuHeads
<1>3. g \in AuSeal /\ g.kind = "seal" /\ g.count = 0 /\ Len(g.head) = 0 /\ AuChain(<<>>, g)
  BY <1>2, AuFresh
<1>4. \/ head' = g /\ phase' = "cleared" /\ smooth' = TRUE
      \/ smooth' = (smooth /\ lines = <<>>) /\ UNCHANGED <<head, phase>>
  BY DEF AuditClear
<1> HIDE DEF g
<1>5. AuditNoView \in [on : BOOLEAN, base : Seq(AuLine), before : Nat, got : Seq(AuEntry)]
      /\ ~AuditNoView.on
  BY <1>2 DEF AuditNoView
<1>6. AuShape'
  BY <1>1, <1>2, <1>3, <1>4, <1>5 DEF AuInv, AuShape
<1>7. AuWhole(<<>>, sealed, g, "cleared")
  BY <1>2, <1>3 DEF AuWhole
<1>8. AuSeen(<<>>, AuditNoView)
  BY <1>5 DEF AuSeen
<1>9. CASE head' = g /\ phase' = "cleared" /\ smooth' = TRUE
  BY <1>1, <1>6, <1>7, <1>8, <1>9 DEF AuInv
<1>10. CASE smooth' = (smooth /\ lines = <<>>) /\ UNCHANGED <<head, phase>>
  BY <1>1, <1>6, <1>8, <1>10 DEF AuInv
<1>11. QED BY <1>4, <1>9, <1>10

\* A seal that is written is of the head in memory.
LEMMA AuSealStep == AuInv /\ AuditSeal => AuInv'
<1> SUFFICES ASSUME AuInv, AuditSeal PROVE AuInv'
  OBVIOUS
<1>1. /\ phase \in {"appended", "cleared"} /\ sealed' \in {head, sealed}
      /\ smooth' = (smooth /\ (phase = "cleared" => sealed' = head))
      /\ phase' = IF phase = "appended" THEN "idle" ELSE "owed"
      /\ UNCHANGED <<lines, head, verdict, made, honest, view>>
  BY DEF AuditSeal
<1>2. sealed' \in AuSeal /\ sealed'.count = Len(sealed'.head) /\ phase' \in {"idle", "owed"}
      /\ smooth' \in BOOLEAN
  BY <1>1, AuParts
<1>3. AuShape'
  BY <1>1, <1>2 DEF AuInv, AuShape
<1>4. ASSUME smooth' PROVE AuWhole(lines, sealed', head, phase')
  <2>1. AuWhole(lines, sealed, head, phase)
    BY <1>1, <1>4, AuParts
  <2>2. AuBehind(head, head)
    <3>1. Len(head.head) \in Nat
      BY AuParts DEF AuHeads
    <3>2. QED BY <3>1 DEF AuBehind
  <2>3. head.kind = "seal" /\ AuChain(lines, head) /\ \A i \in 1 .. Len(lines) : lines[i].rec # 0
    BY <2>1, <1>1 DEF AuWhole
  <2>4. sealed'.kind = "seal" => AuBehind(sealed', head)
    <3>1. CASE sealed' = head
      BY <3>1, <2>2
    <3>2. CASE sealed' = sealed /\ phase = "appended"
      BY <3>2, <2>1 DEF AuWhole
    <3>3. QED BY <3>1, <3>2, <1>1, <1>4
  <2>5. QED BY <2>3, <2>4 DEF AuWhole
<1>5. QED BY <1>1, <1>3, <1>4, AuParts DEF AuInv

\* A process that ends leaves the files as they are; only inside a clear do they disagree.
LEMMA AuStopStep == AuInv /\ AuditStop => AuInv'
<1> SUFFICES ASSUME AuInv, AuditStop PROVE AuInv'
  OBVIOUS
<1>1. /\ phase' = "down" /\ smooth' = (smooth /\ phase # "cleared")
      /\ UNCHANGED <<lines, sealed, head, verdict, made, honest, view>>
  BY DEF AuditStop
<1>2. smooth' \in BOOLEAN
  BY <1>1
<1>3. AuShape'
  BY <1>1, <1>2 DEF AuInv, AuShape
<1>4. ASSUME smooth' PROVE AuWhole(lines, sealed, head, "down")
  BY <1>1, <1>4, AuParts DEF AuWhole
<1>5. QED BY <1>1, <1>3, <1>4, AuParts DEF AuInv

\* A log without one of its lines is still a log.
LEMMA AuShorter ==
    ASSUME NEW s \in Seq(AuLine), NEW i \in 1 .. Len(s)
    PROVE  RemoveAt(s, i) \in Seq(AuLine)
<1> DEFINE a == SubSeq(s, 1, i - 1)
           b == SubSeq(s, i + 1, Len(s))
<1>1. 1 \in Int /\ i - 1 \in Int /\ \A k \in 1 .. i - 1 : s[k] \in AuLine
  BY ElementOfSeq
<1>2. a \in Seq(AuLine)
  BY <1>1, SubSeqProperties
<1>3. i + 1 \in Int /\ Len(s) \in Int /\ \A k \in i + 1 .. Len(s) : s[k] \in AuLine
  BY ElementOfSeq
<1>4. b \in Seq(AuLine)
  BY <1>3, SubSeqProperties
<1> HIDE DEF a, b
<1>5. a \o b \in Seq(AuLine)
  BY <1>2, <1>4, ConcatProperties
<1>6. QED BY <1>5 DEF RemoveAt, a, b

\* A function on the first places is a sequence.
LEMMA AuIsSeq ==
    ASSUME NEW n \in Nat, NEW S, NEW f \in [1 .. n -> S]
    PROVE  f \in Seq(S)
OBVIOUS

\* After an outside change nothing is promised but that the file is a log.
LEMMA AuOutsideStep == AuInv /\ AuditOutside => AuInv'
<1> SUFFICES ASSUME AuInv, AuditOutside PROVE AuInv'
  OBVIOUS
<1>1. smooth' = FALSE /\ view' = AuditNoView /\ UNCHANGED <<head, phase, verdict, made>>
  BY DEF AuditOutside
<1>2. <<>> \in Seq(AuLine) /\ <<>> \in AuHeads /\ <<>> \in Seq(AuEntry) /\ Len(<<>>) = 0
  BY DEF AuHeads
<1>3. AuditNoView \in [on : BOOLEAN, base : Seq(AuLine), before : Nat, got : Seq(AuEntry)]
      /\ ~AuditNoView.on
  BY <1>2 DEF AuditNoView
<1>4. AuSeen(lines', AuditNoView)
  BY <1>3 DEF AuSeen
<1>5. lines' \in Seq(AuLine) /\ sealed' \in AuSeal /\ sealed'.count = Len(sealed'.head)
  <2>1. CASE UNCHANGED sealed /\ \E i \in 1 .. Len(lines) : lines' = RemoveAt(lines, i)
    BY <2>1, AuParts, AuShorter
  <2>2. CASE UNCHANGED sealed
             /\ \E i \in 1 .. Len(lines) : lines' = [lines EXCEPT ![i].rec = AuditMax + 1]
    <3>1. PICK i \in 1 .. Len(lines) : lines' = [lines EXCEPT ![i].rec = AuditMax + 1]
      BY <2>2
    <3> DEFINE e == [lines[i] EXCEPT !.rec = AuditMax + 1]
    <3>2. lines[i] \in AuLine /\ AuditMax + 1 \in 0 .. AuditMax + 1
      BY <3>1, AuParts, AuLimits, ElementOfSeq
    <3>3. e \in AuLine
      BY ONLY <3>2 DEF AuLine
    <3>4. lines' = [lines EXCEPT ![i] = e]
      BY <3>1
    <3> HIDE DEF e
    <3>5. lines' \in Seq(AuLine)
      <4>1. lines \in Seq(AuLine)
        BY AuParts
      <4>2. [lines EXCEPT ![i] = e] \in Seq(AuLine)
        BY <3>3, <4>1, ExceptSeq
      <4>3. QED BY <3>4, <4>2
    <3>6. QED BY <3>5, <2>2, AuParts
  <2>3. CASE UNCHANGED sealed
             /\ \E n \in 1 .. AuditMax :
                    lines' = [i \in 1 .. n |-> [rec |-> i, mac |-> [j \in 1 .. i |-> j]]]
    <3>1. PICK n \in 1 .. AuditMax :
                    lines' = [i \in 1 .. n |-> [rec |-> i, mac |-> [j \in 1 .. i |-> j]]]
      BY <2>3
    <3> DEFINE m(i) == [j \in 1 .. i |-> j]
               e(i) == [rec |-> i, mac |-> m(i)]
    <3>2. \A i \in 1 .. n : m(i) \in Seq(0 .. AuditMax)
      <4> TAKE i \in 1 .. n
      <4>1. i \in Nat /\ \A j \in 1 .. i : j \in 0 .. AuditMax
        BY AuLimits
      <4>2. m(i) \in [1 .. i -> 0 .. AuditMax]
        BY <4>1
      <4> HIDE DEF m
      <4>3. QED BY <4>1, <4>2, AuIsSeq
    <3>3. \A i \in 1 .. n : i \in 0 .. AuditMax + 1
      BY AuLimits
    <3> HIDE DEF m
    <3>4. \A i \in 1 .. n : e(i) \in AuLine
      BY <3>2, <3>3 DEF AuLine
    <3>5. lines' = [i \in 1 .. n |-> e(i)]
      BY <3>1 DEF m
    <3> HIDE DEF e
    <3>6. lines' \in [1 .. n -> AuLine] /\ n \in Nat
      BY <3>4, <3>5, AuLimits
    <3>7. lines' \in Seq(AuLine)
      BY <3>6
    <3>8. QED BY <3>7, <2>3, AuParts
  <2>4. CASE sealed' = NoSeal /\ UNCHANGED lines
    BY <2>4, <1>2, AuParts DEF NoSeal, AuSeal
  <2>5. QED BY <2>1, <2>2, <2>3, <2>4 DEF AuditOutside
<1>6. AuShape'
  BY <1>1, <1>3, <1>5 DEF AuInv, AuShape
<1>7. QED BY <1>1, <1>4, <1>6 DEF AuInv

\* A page continues the ones before it, or begins at the end of the log.
LEMMA AuPageStep == AuInv /\ AuditPage => AuInv'
<1> SUFFICES ASSUME AuInv, AuditPage PROVE AuInv'
  OBVIOUS
<1> DEFINE start == IF view.on THEN view.before ELSE Len(lines)
           from == IF start > Len(lines) THEN Len(lines) ELSE start
           stop == PageStop(lines, from)
           took == Descending(Entries(lines, stop, from))
           base == IF view.on THEN view.base ELSE lines
           more == view.got \o [j \in DOMAIN took |-> [at |-> took[j], rec |-> lines[took[j]].rec]]
<1>1. /\ view' = [on |-> TRUE, base |-> base, before |-> stop - 1, got |-> more]
      /\ UNCHANGED <<lines, sealed, head, phase, verdict, made, honest, smooth>>
  BY DEF AuditPage
<1>2. /\ base \in Seq(AuLine) /\ Len(base) <= Len(lines)
      /\ \A i \in 1 .. Len(base) : lines[i].rec = base[i].rec
      /\ from \in 0 .. Len(base)
      /\ AuExact(base, from, view.got)
  <2>1. CASE view.on
    <3>1. /\ view.before <= Len(view.base) /\ Len(view.base) <= Len(lines)
          /\ \A i \in 1 .. Len(view.base) : lines[i].rec = view.base[i].rec
          /\ AuExact(view.base, view.before, view.got)
      BY <2>1, AuParts DEF AuSeen
    <3>2. base = view.base /\ from = view.before
      BY <2>1, <3>1, AuParts
    <3> HIDE DEF base, from
    <3>3. QED BY <3>1, <3>2, AuParts
  <2>2. CASE ~view.on
    <3>1. base = lines /\ from = Len(lines)
      BY <2>2, AuParts
    <3>2. view.got = <<>>
      BY <2>2, AuParts DEF AuSeen, AuditNoView
    <3>3. AuExact(lines, Len(lines), <<>>)
      <4>1. Entries(lines, Len(lines) + 1, Len(lines)) = {}
        BY AuParts DEF Entries
      <4>2. DOMAIN <<>> = {}
        OBVIOUS
      <4>3. {[at |-> k, rec |-> lines[k].rec] : k \in Entries(lines, Len(lines) + 1, Len(lines))} = {}
        BY <4>1
      <4>4. QED BY <4>2, <4>3 DEF AuExact
    <3> HIDE DEF base, from
    <3>4. QED BY <3>1, <3>2, <3>3, AuParts
  <2>3. QED BY <2>1, <2>2
<1> HIDE DEF base, from
<1>3. from \in Nat /\ Len(base) \in Nat
  BY <1>2
<1>4. stop \in Nat \ {0} /\ stop - 1 \in 0 .. from
  BY <1>3, AuStops
<1> HIDE DEF stop
<1>5. more \in Seq(AuEntry) /\ AuExact(base, stop - 1, more)
  <2>1. stop - 1 <= from
    BY <1>3, <1>4
  <2>2. took = Descending(Entries(lines, stop, from))
    OBVIOUS
  <2> HIDE DEF took
  <2>3. view.got \in Seq(AuEntry) /\ lines \in Seq(AuLine)
    BY AuParts
  <2>4. QED BY <1>2, <1>4, <2>1, <2>2, <2>3, AuTurns
<1> HIDE DEF more, took
<1>6. view'.on /\ view'.base = base /\ view'.before = stop - 1 /\ view'.got = more
  BY <1>1
<1>7. view' \in [on : BOOLEAN, base : Seq(AuLine), before : Nat, got : Seq(AuEntry)]
  BY <1>1, <1>2, <1>3, <1>4, <1>5
<1>8. AuShape'
  BY <1>1, <1>7 DEF AuInv, AuShape
<1>9. stop - 1 <= Len(base)
  BY <1>2, <1>3, <1>4
<1>10. AuSeen(lines, view')
  BY <1>2, <1>5, <1>6, <1>9 DEF AuSeen
<1>11. QED BY <1>1, <1>8, <1>10, AuParts DEF AuInv

\* Every step keeps the invariant.
LEMMA AuInvStep == AuInv /\ [AuditNext]_auditVars => AuInv'
<1> SUFFICES ASSUME AuInv, [AuditNext]_auditVars PROVE AuInv'
  OBVIOUS
<1>1. CASE UNCHANGED auditVars
  BY <1>1 DEF auditVars, AuInv, AuShape
<1>2. QED BY <1>1, AuOpenStep, AuAppendStep, AuFailStep, AuClearStep, AuSealStep, AuStopStep,
             AuOutsideStep, AuPageStep DEF AuditNext

\* The invariant says what the properties ask.
LEMMA AuInvMeans == AuInv => AuditSound
<1> SUFFICES ASSUME AuInv PROVE AuditSound
  OBVIOUS
<1>1. AuditTypeOK
  BY DEF AuInv, AuShape, AuLine, AuSeal, AuHeads, AuditTypeOK
<1>2. AuditVerifiedWhole
  BY DEF AuditVerifiedWhole, Verify
<1>3. AuditRunConsistent
  <2> SUFFICES ASSUME phase = "idle", smooth PROVE Verify(lines, head) = "verified"
    BY DEF AuditRunConsistent
  <2>1. AuWhole(lines, sealed, head, phase)
    BY AuParts
  <2>2. AuChain(lines, head)
    BY <2>1 DEF AuWhole
  <2>3. AuBehind(head, head)
    <3>1. Len(head.head) \in Nat
      BY AuParts DEF AuHeads
    <3>2. QED BY <3>1 DEF AuBehind
  <2>4. QED BY <2>2, <2>3, AuParts, AuVerify
<1>4. AuditCrashIsUnsealed
  BY AuAdopts DEF AuditCrashIsUnsealed
<1>5. AuditPagesExact
  BY AuParts DEF AuSeen, AuExact, AuditPagesExact
<1>6. QED BY <1>1, <1>2, <1>3, <1>4, <1>5 DEF AuditSound

\* For any records, faults and pages: the log of a process that met no fault which leaves
\* its files disagreeing checks out, a crash is told from tampering, a log that checks out
\* is the chain of its head, and the pages of the view give every entry once and in order
\* (append, clear, persist_seal, verify, recent_page).
THEOREM AuditHolds == AuditSpec => []AuditSound
<1>1. AuditInit => AuInv
  BY AuInvInit
<1>2. AuInv /\ [AuditNext]_auditVars => AuInv'
  BY AuInvStep
<1>3. AuInv => AuditSound
  BY AuInvMeans
<1>4. QED BY <1>1, <1>2, <1>3, PTL DEF AuditSpec
=============================================================================
