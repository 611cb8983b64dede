------------------------------ MODULE FileVault ------------------------------
(***************************************************************************)
(* The vault of the hosted builds, in vault.rs: a file of values sealed    *)
(* under the master key of the environment, or, without one, a plain file  *)
(* for development.  A record beside the store names the backend that owns *)
(* its values.  Each start of the broker brings its own environment.       *)
(***************************************************************************)
EXTENDS Naturals, FiniteSets

CONSTANTS
    FvIds,     \* the ids of secrets
    FvKeys,    \* master keys
    FvMaxVal,  \* bound: values written
    FvFaults   \* what may go wrong: ways in which a write ends, and "lost", a lost record

ASSUME FvAssumption == FvMaxVal \in Nat /\ "none" \notin FvKeys

\* How the replacement of a file ends (write_private_atomic): reported as a success, as a
\* failure with the old file in place, or as one although the new file has taken its place
\* (the directory cannot be synced after the rename).
Endings == {"done", "failed", "landed"}

VARIABLES
    fvenv,     \* the master key of the environment, "none", or "bad" for one that does not parse
    fvopen,    \* the backend of the running broker, or "closed"
    fvmem,     \* its items, in memory
    fvfile,    \* backend |-> its file, or Absent
    fvrec,     \* the record: a backend, or "none"
    fvtrue,    \* id |-> the value the store owes a reader, 0 if none
    fvkept,    \* and the one it will owe after the next start
    fvnext     \* the next value

fvVars == <<fvenv, fvopen, fvmem, fvfile, fvrec, fvtrue, fvkept, fvnext>>

Sealed == "encrypted-file"
Clear == "plaintext-dev-file"
Backends == {Sealed, Clear}
NoItem == [val |-> 0, key |-> "none"]
Absent == [id \in FvIds |-> [val |-> 0, key |-> "absent"]]
Empty == [id \in FvIds |-> NoItem]
Held(items) == {id \in FvIds : items[id].val # 0}

FvInit ==
    /\ fvenv = "none" /\ fvopen = "closed" /\ fvmem = Empty
    /\ fvfile = [b \in Backends |-> Absent] /\ fvrec = "none"
    /\ fvtrue = [id \in FvIds |-> 0] /\ fvkept = fvtrue /\ fvnext = 1

----------------------------------------------------------------------------
(* Opening                                                                 *)

\* selected_platform_vault_backend
Selected(env) == IF env = "none" THEN Clear ELSE Sealed

Present(b) == fvfile[b] # Absent

\* recorded_platform_vault_backend: the record, or what the files tell.
Recorded ==
    IF fvrec # "none" THEN fvrec
    ELSE IF Present(Sealed) /\ ~Present(Clear) THEN Sealed
    ELSE IF Present(Clear) /\ ~Present(Sealed) THEN Clear
    ELSE "none"

\* Mutant: without a record any backend is fine.
CheckRecordOnly(env) == fvrec \in {"none", Selected(env)}

\* check_vault_backend
Check(env) ==
    /\ ~(fvrec = "none" /\ Present(Sealed) /\ Present(Clear))
    /\ Recorded \in {"none", Selected(env)}

Loaded(b) == IF Present(b) THEN fvfile[b] ELSE Empty

\* EncryptedFileVault::open tries one item, whichever the table yields first.
Unseals(env, probe) == probe \in Held(Loaded(Sealed)) => Loaded(Sealed)[probe].key = env

\* non_macos_vault: the backend is recorded after it has opened.  What the files hold is
\* what the store owes from here on.
FvOpen(env, probe, recorded) ==
    /\ fvopen = "closed" /\ fvenv' = env
    /\ Held(Loaded(Sealed)) # {} /\ Selected(env) = Sealed => probe \in Held(Loaded(Sealed))
    /\ recorded # "done" => recorded \in FvFaults /\ fvrec # Selected(env)
    /\ LET b == Selected(env)
           opens == Check(env) /\ env # "bad" /\ (b = Sealed => Unseals(env, probe))
       IN /\ fvopen' = IF opens /\ recorded = "done" THEN b ELSE "closed"
          /\ fvmem' = IF opens /\ recorded = "done" THEN Loaded(b) ELSE Empty
          /\ fvrec' = IF opens /\ recorded # "failed" THEN b ELSE fvrec
    /\ fvtrue' = fvkept
    /\ UNCHANGED <<fvfile, fvkept, fvnext>>

FvClose ==
    /\ fvopen # "closed" /\ fvopen' = "closed" /\ fvmem' = Empty /\ fvenv' = "none"
    /\ UNCHANGED <<fvfile, fvrec, fvtrue, fvkept, fvnext>>

FvLoseRecord ==
    /\ "lost" \in FvFaults /\ fvrec # "none" /\ fvrec' = "none"
    /\ UNCHANGED <<fvenv, fvopen, fvmem, fvfile, fvtrue, fvkept, fvnext>>

----------------------------------------------------------------------------
(* Items                                                                   *)

\* set, delete and set_attrs change a copy of the table, write it, and then adopt it; owed
\* is what the store owes once the operation is done.
FvWrite(items, owed, how) ==
    /\ how # "done" => how \in FvFaults
    /\ fvfile' = IF how = "failed" THEN fvfile ELSE [fvfile EXCEPT ![fvopen] = items]
    /\ fvmem' = IF how = "done" THEN items ELSE fvmem
    /\ fvtrue' = IF how = "done" THEN owed ELSE fvtrue
    /\ fvkept' = IF how = "failed" THEN fvkept ELSE owed
    /\ UNCHANGED <<fvenv, fvopen, fvrec>>

FvSet(id, how) ==
    /\ fvopen # "closed" /\ fvnext <= FvMaxVal /\ fvnext' = fvnext + 1
    /\ FvWrite([fvmem EXCEPT ![id] = [val |-> fvnext, key |-> IF fvopen = Sealed THEN fvenv ELSE "none"]],
               [fvtrue EXCEPT ![id] = fvnext], how)

FvDelete(id, how) ==
    /\ fvopen # "closed" /\ id \in Held(fvmem)
    /\ FvWrite([fvmem EXCEPT ![id] = NoItem], [fvtrue EXCEPT ![id] = 0], how)
    /\ UNCHANGED fvnext

\* set_attrs: the table is written again with the values it has.
FvRetitle(id, how) ==
    /\ fvopen # "closed" /\ id \in Held(fvmem)
    /\ FvWrite(fvmem, fvtrue, how)
    /\ UNCHANGED fvnext

\* get: the item's seal is opened under the key of the process; 0 for a missing item.
Unsealable == FvMaxVal + 1
FvGet(id) ==
    IF fvmem[id].val # 0 /\ fvopen = Sealed /\ fvmem[id].key # fvenv THEN Unsealable ELSE fvmem[id].val

FvNext ==
    \/ \E env \in FvKeys \cup {"none", "bad"}, probe \in FvIds, recorded \in Endings :
          FvOpen(env, probe, recorded)
    \/ FvClose \/ FvLoseRecord
    \/ \E id \in FvIds, how \in Endings : FvSet(id, how) \/ FvDelete(id, how) \/ FvRetitle(id, how)

FvSpec == FvInit /\ [][FvNext]_fvVars

----------------------------------------------------------------------------
(* Properties                                                              *)

\* A vault that opens shows every value that was ever stored and not deleted, whatever
\* environments, failed writes and lost records came before: a broker started with another
\* key, without one, or with one where there was none, does not open an empty vault.  A
\* write that was reported as failed shows nothing while the process runs, and after the
\* next start all of itself, if the file had landed and no later write replaced it, or
\* nothing.
FvShowsAll ==
    fvopen # "closed" => \A id \in FvIds : FvGet(id) = fvtrue[id]

\* The values of one store lie in one file, under one key, although a start tries a single
\* one of them.
FvOneHome ==
    /\ ~(Present(Sealed) /\ Present(Clear))
    /\ Cardinality({Loaded(Sealed)[id].key : id \in Held(Loaded(Sealed))}) <= 1

FileVaultSound == FvShowsAll /\ FvOneHome
=============================================================================
