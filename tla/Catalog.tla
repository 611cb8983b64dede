------------------------------ MODULE Catalog ------------------------------
(***************************************************************************)
(* The catalog of one workspace: secrets, 1Password links and connections  *)
(* in the sealed index.json (store.rs) and their values in the vault.  The *)
(* two share no transaction: every operation is a plan of vault and index  *)
(* writes in a fixed order, each of which can fail, with the roll-back the *)
(* code attempts, and the process can die between any two of them.  A      *)
(* write that fails may be in place all the same: the directory is synced  *)
(* after the rename, and what the caller rolls back is then on disk.       *)
(*                                                                         *)
(* A vault item is present or not; its value is not modelled.  A template  *)
(* is the set of secret names it refers to.  The state mutex is held from  *)
(* the first write of a plan to its last, so one plan runs at a time.      *)
(* Every id is handed out once, and one integration is ever added.         *)
(***************************************************************************)
EXTENDS Naturals, FiniteSets

CONSTANTS
    CatItems,       \* bound: the fresh ids there are, 1..CatItems
    CatNames,       \* secret names
    CatConns,       \* connection ids
    CatKinds,       \* the connection kinds an instance uses
    CatMaxVer,      \* bound on versions
    CatFaults       \* writes that may fail, "landed": in place when they do; and "crash"

ASSUME CatAssumption ==
    /\ CatItems \in Nat /\ CatMaxVer \in Nat \ {0}
    /\ CatKinds \subseteq {"api", "pg", "ssh"}
    /\ CatFaults \subseteq {"vault", "index", "rollback", "landed", "crash"}

VARIABLES
    mem,        \* Store.state
    disk,       \* index.json
    vault,      \* items the vault holds
    fresh,      \* ids handed out so far
    born,       \* connection ids, and the integration, handed out so far
    op,         \* the plan under way, or NoOp
    skew,       \* the index is ahead of memory: a roll-back failed, or a write that was
                \* in place did
    undone,     \* items taken out of the vault by an operation that failed although its
                \* write was in place
    seen,       \* what an editor last read of each connection
    up          \* the process runs

catVars == <<mem, disk, vault, fresh, born, op, skew, undone, seen, up>>

NoSecret == [name |-> "", source |-> "none", totp |-> 0]
NoCon == [kind |-> "none", refs |-> {}, bound |-> {}, ver |-> 0,
          grant |-> 0, pin |-> 0]
NoOp == [phase |-> "idle"]

Ids == 1..CatItems
Token == CatItems + 1       \* the vault item of the 1Password integration
Linked == "1password"       \* the integration, among the ids handed out
Secret(s) == s.source # "none"
Con(c) == c.kind # "none"

\* What the index says must be in the vault: local values, second factors,
\* OAuth grants and the token of the 1Password integration.  Item 0 stands for
\* "none" and is always there.
Relied(ix) ==
    {i \in Ids : ix.sec[i].source = "local"}
    \cup {ix.sec[i].totp : i \in Ids} \cup {ix.con[c].grant : c \in CatConns}
    \cup (IF ix.intg = "token" THEN {Token} ELSE {})

\* The id a name resolves to, and the names an index uses.
NamesOf(ix) == {ix.sec[i].name : i \in {j \in Ids : Secret(ix.sec[j])}}
IdsNamed(ix, ns) == {i \in Ids : Secret(ix.sec[i]) /\ ix.sec[i].name \in ns}
Users(ix, i) == {c \in CatConns : i \in ix.con[c].bound}

----------------------------------------------------------------------------
(* Opening                                                                 *)

EmptyIndex == [sec |-> [i \in Ids |-> NoSecret],
               con |-> [c \in CatConns |-> NoCon], intg |-> "none"]

CatInit ==
    /\ mem = EmptyIndex /\ disk = EmptyIndex
    /\ vault = {0} /\ fresh = 0 /\ born = {} /\ op = NoOp /\ skew = FALSE /\ undone = {}
    /\ up = FALSE
    /\ seen = [c \in CatConns |-> NoCon]

\* Store::open: the index as it is on disk.
CatOpen ==
    /\ ~up
    /\ mem' = disk
    /\ up' = TRUE /\ op' = NoOp /\ skew' = FALSE
    /\ UNCHANGED <<disk, vault, undone, fresh, born, seen>>

----------------------------------------------------------------------------
(* The writes of a plan                                                    *)

\* A plan: the next index; the items staged in the vault before the index is
\* written, of which `undo` are removed again when it cannot be; the strict
\* vault write after it ("set", "attrs", "del", or "purge", which does not mind
\* that the item is gone already), undone in the index when it fails; the items
\* deleted at the end whether or not that works.
Plan(next, stage, undo, strict, item, tidy) ==
    [phase |-> IF stage = {} THEN "index" ELSE "stage", next |-> next,
     stage |-> stage, undo |-> undo, strict |-> strict, item |-> item,
     tidy |-> tidy]

Commit(next) == Plan(next, {}, {}, "none", 0, {})

\* The operation takes the lock and checks what its handler checks.
StartAs(plan, used, new) ==
    /\ up /\ op = NoOp
    /\ born' = born \cup new
    /\ fresh + used <= CatItems
    /\ op' = plan
    /\ fresh' = fresh + used
    /\ UNCHANGED <<mem, disk, vault, skew, undone, seen, up>>

Start(plan, used) == StartAs(plan, used, {})

\* vault.set of the staged items, one by one: a failure deletes the ones that
\* were set, if it can.
CatStage ==
    /\ op.phase = "stage"
    /\ \/ /\ vault' = vault \cup op.stage /\ undone' = undone \ op.stage
          /\ op' = [op EXCEPT !.phase = "index"]
       \/ /\ "vault" \in CatFaults
          /\ \E left \in SUBSET op.undo :
                /\ Cardinality(left) < Cardinality(op.stage) \/ "landed" \in CatFaults
                /\ left = {} \/ CatFaults \cap {"rollback", "landed"} # {}
                /\ vault' = vault \cup left
          /\ op' = NoOp /\ UNCHANGED undone
    /\ UNCHANGED <<mem, disk, fresh, born, skew, seen, up>>

\* Mutant: memory takes the new index whether or not it was written.
IndexKeepsMemory ==
    /\ op.phase = "index"
    /\ mem' = op.next
    /\ \/ disk' = op.next
       \/ "index" \in CatFaults /\ UNCHANGED disk
    /\ op' = [op EXCEPT !.phase = IF op.strict = "none" THEN "tidy" ELSE "strict"]
    /\ UNCHANGED <<vault, skew, undone, fresh, born, seen, up>>

\* The index could not be written, or was and the sync after it failed: memory
\* stays, and the staged items go again, which the file may by now name.
CatIndexFails ==
    /\ "index" \in CatFaults
    /\ \E left \in SUBSET op.undo :
          /\ left = {} \/ "rollback" \in CatFaults
          /\ vault' = (vault \ op.undo) \cup left
          /\ \/ UNCHANGED <<disk, skew, undone>>
             \/ /\ "landed" \in CatFaults
                /\ disk' = op.next /\ skew' = TRUE
                /\ undone' = undone \cup (op.undo \ left)
    /\ op' = NoOp /\ UNCHANGED mem

\* persist: the sealed index is replaced whole.
CatIndex ==
    /\ op.phase = "index"
    /\ \/ /\ disk' = op.next
          /\ mem' = IF op.strict = "none" THEN op.next ELSE mem
          /\ op' = [op EXCEPT !.phase = IF op.strict = "none"
                                        THEN "tidy" ELSE "strict"]
          /\ skew' = (skew /\ op.strict # "none")
          /\ UNCHANGED <<vault, undone>>
       \/ CatIndexFails
    /\ UNCHANGED <<fresh, born, seen, up>>

\* The vault write the index write was for.
CatStrictDone ==
    /\ op.strict = "del" => op.item \in vault
    /\ \/ op.strict \in {"del", "purge"} /\ vault' = vault \ {op.item} /\ UNCHANGED undone
       \/ op.strict = "set" /\ vault' = vault \cup {op.item} /\ undone' = undone \ {op.item}
       \/ op.strict = "attrs" /\ UNCHANGED <<vault, undone>>
    /\ mem' = op.next /\ op' = [op EXCEPT !.phase = "tidy"] /\ skew' = FALSE
    /\ UNCHANGED disk

\* When it fails, as it may if the item is gone, the old index is written back,
\* if it can be, and the operation is an error; a deletion may be in place.
CatStrictFails ==
    /\ "vault" \in CatFaults \/ (op.strict \in {"del", "attrs"} /\ op.item \notin vault)
    /\ \/ disk' = mem /\ skew' = FALSE
       \/ "rollback" \in CatFaults /\ UNCHANGED disk /\ skew' = TRUE
    /\ \/ UNCHANGED <<vault, undone>>
       \/ /\ {"vault", "landed"} \subseteq CatFaults /\ op.strict \in {"del", "purge"}
          /\ vault' = vault \ {op.item} /\ undone' = undone \cup {op.item}
    /\ op' = NoOp /\ UNCHANGED mem

CatStrict ==
    /\ op.phase = "strict"
    /\ CatStrictDone \/ CatStrictFails
    /\ UNCHANGED <<fresh, born, seen, up>>

\* Items nothing refers to any more are deleted on a best-effort basis.
CatTidy ==
    /\ op.phase = "tidy"
    /\ \/ vault' = vault \ (op.tidy \ {0})
       \/ "vault" \in CatFaults /\ UNCHANGED vault
    /\ op' = NoOp
    /\ UNCHANGED <<mem, disk, fresh, born, skew, undone, seen, up>>

\* Memory and the plan are lost; what the next process will read takes their
\* place.
CatCrash ==
    /\ up /\ "crash" \in CatFaults
    /\ up' = FALSE
    /\ mem' = disk /\ op' = NoOp /\ skew' = FALSE
    /\ UNCHANGED <<disk, vault, undone, fresh, born, seen>>

----------------------------------------------------------------------------
(* Secrets                                                                 *)

NewId == fresh + 1

\* add_credential: the value, and a password's second factor, are in the
\* vault before the index names them.
AddCredential(name, factor) ==
    /\ name \notin NamesOf(mem)
    /\ LET ids == IF factor THEN {NewId, fresh + 2} ELSE {NewId}
           meta == [name |-> name, source |-> "local",
                    totp |-> IF factor THEN fresh + 2 ELSE 0]
       IN  /\ NewId \in Ids
           /\ Start(Plan([mem EXCEPT !.sec[NewId] = meta], ids, ids,
                         "none", 0, {}),
                    Cardinality(ids))

\* add_onepassword_secret: an alias, with no vault item of its own.
AddOnePasswordSecret(name) ==
    /\ name \notin NamesOf(mem) /\ mem.intg # "none" /\ NewId \in Ids
    /\ Start(Commit([mem EXCEPT !.sec[NewId] =
                        [name |-> name, source |-> "op", totp |-> 0]]), 1)

\* set_totp_factor: a new factor is staged in a slot of its own and the old
\* one retired afterwards; a removal is index first.
SetTotp(i) ==
    /\ mem.sec[i].source = "local" /\ NewId \in Ids
    /\ Start(Plan([mem EXCEPT !.sec[i].totp = NewId], {NewId}, {NewId},
                  "none", 0, {mem.sec[i].totp}), 1)

ClearTotp(i) ==
    /\ mem.sec[i].totp # 0
    /\ Start(Plan([mem EXCEPT !.sec[i].totp = 0], {}, {}, "del",
                  mem.sec[i].totp, {}), 0)

\* replace_secret_value, and set_password_profile, which writes the index only.
ReplaceValue(i) ==
    /\ mem.sec[i].source = "local"
    /\ Start(Plan(mem, {}, {}, "set", i, {}), 0)

\* Every change of a connection moves its version, even when the clock did
\* not move or moved back (next_connection_updated_at).
NextVer(ver, now) == IF now > ver THEN now ELSE ver + 1

\* rename_secret: every template that names the secret is rewritten in the
\* same index write, and those connections get a new version.
Follows(con, old, name, now) ==
    [con EXCEPT !.refs = (@ \ {old}) \cup {name}, !.ver = NextVer(@, now)]

Renamed(ix, i, name, now) ==
    LET old == ix.sec[i].name
    IN  [ix EXCEPT
           !.sec[i].name = name,
           !.con = [c \in CatConns |->
               IF old \in ix.con[c].refs
               THEN Follows(ix.con[c], old, name, now) ELSE ix.con[c]]]

RenameSecret(i, name, now) ==
    /\ Secret(mem.sec[i]) /\ name \notin NamesOf(mem)
    /\ \A c \in CatConns : mem.con[c].ver < CatMaxVer
    /\ Start(IF mem.sec[i].source = "local"
             THEN Plan(Renamed(mem, i, name, now), {}, {}, "attrs", i, {})
             ELSE Commit(Renamed(mem, i, name, now)), 0)

\* delete_secret: refused while a connection is bound to it.
DeleteSecret(i) ==
    /\ Secret(mem.sec[i]) /\ Users(mem, i) = {}
    /\ LET next == [mem EXCEPT !.sec[i] = NoSecret]
       IN  Start(IF mem.sec[i].source = "local"
                 THEN Plan(next, {}, {}, "purge", i, {mem.sec[i].totp})
                 ELSE Commit(next), 0)

\* The 1Password integration: added with its token staged, its token replaced
\* after the index, removed when no secret links to it.
AddIntegration(auth) ==
    /\ mem.intg = "none" /\ Linked \notin born
    /\ LET st == IF auth = "token" THEN {Token} ELSE {}
       IN  StartAs(Plan([mem EXCEPT !.intg = auth], st, st, "none", 0, {}), 0, {Linked})

ReplaceToken ==
    /\ mem.intg = "token"
    /\ Start(Plan(mem, {}, {}, "set", Token, {}), 0)

DeleteIntegration ==
    /\ mem.intg # "none"
    /\ \A i \in Ids : mem.sec[i].source # "op"
    /\ LET next == [mem EXCEPT !.intg = "none"]
       IN  Start(IF mem.intg = "token" THEN Plan(next, {}, {}, "purge", Token, {})
                 ELSE Commit(next), 0)

----------------------------------------------------------------------------
(* Connections                                                             *)

\* validate_config_and_bind_secrets: an API connection is bound to the secrets
\* its template names, every one of which must exist; the others to at most
\* one secret of the caller's choice.
Binds(ix, kind, refs, pick) ==
    IF kind = "api" THEN IdsNamed(ix, refs) ELSE pick

Bindable(ix, kind, refs, pick) ==
    IF kind = "api" THEN refs \subseteq NamesOf(ix) /\ pick = {}
    ELSE /\ refs = {}
         /\ Cardinality(pick) <= 1 /\ \A i \in pick : Secret(ix.sec[i])

NewCon(ix, kind, refs, pick, now) ==
    [kind |-> kind, refs |-> refs, bound |-> Binds(ix, kind, refs, pick),
     ver |-> NextVer(0, now), grant |-> 0, pin |-> 0]

AddConnection(c, kind, refs, pick, now) ==
    /\ c \notin born /\ Bindable(mem, kind, refs, pick)
    /\ StartAs(Commit([mem EXCEPT !.con[c] =
                          NewCon(mem, kind, refs, pick, now)]), 0, {c})

\* add_connection_with_secret: both or neither in one index write, the value
\* staged before it.
AddConnectionWithSecret(c, kind, name, now) ==
    /\ c \notin born /\ name \notin NamesOf(mem) /\ NewId \in Ids
    /\ LET ix == [mem EXCEPT !.sec[NewId] =
                     [name |-> name, source |-> "local", totp |-> 0]]
           refs == IF kind = "api" THEN {name} ELSE {}
           pick == IF kind = "api" THEN {} ELSE {NewId}
       IN  StartAs(Plan([ix EXCEPT !.con[c] = NewCon(ix, kind, refs, pick, now)],
                        {NewId}, {NewId}, "none", 0, {}), 1, {c})

\* Mutant: the time of the last change alone.
TimeOnly(con) == con.ver

\* Connection::version: the time of the last change and everything an edit
\* form echoes back, so that a host key pinned on first use, which leaves the
\* time alone, still makes an open form stale.
Version(con) == <<con.ver, con.kind, con.refs, con.bound, con.pin>>

\* An editor reads a connection and keeps its version.
CatRead(c) ==
    /\ up /\ op = NoOp /\ Con(mem.con[c]) /\ seen[c] # mem.con[c]
    /\ seen' = [seen EXCEPT ![c] = mem.con[c]]
    /\ UNCHANGED <<mem, disk, vault, fresh, born, op, skew, undone, up>>

\* update_connection_if_current: refused when the version is not the one the
\* editor read.  A tool signed in with OAuth can only be renamed; the form
\* carries the template, the binding and, for ssh, the host key it knew
\* or none.
UpdateConnection(c, refs, pick, pin, now) ==
    /\ Con(mem.con[c]) /\ Con(seen[c]) /\ Version(seen[c]) = Version(mem.con[c])
    /\ mem.con[c].ver < CatMaxVer
    /\ mem.con[c].grant = 0
    /\ Bindable(mem, mem.con[c].kind, refs, pick)
    /\ pin \in {0, seen[c].pin}
    /\ LET con == [mem.con[c] EXCEPT
                     !.refs = refs, !.bound = Binds(mem, mem.con[c].kind, refs, pick),
                     !.pin = pin, !.ver = NextVer(@, now)]
       IN  Start(Commit([mem EXCEPT !.con[c] = con]), 0)

\* rename_connection_if_current: the display name only, but a new version.
RenameConnection(c, now) ==
    /\ Con(mem.con[c]) /\ Con(seen[c]) /\ Version(seen[c]) = Version(mem.con[c])
    /\ mem.con[c].ver < CatMaxVer
    /\ Start(Commit([mem EXCEPT !.con[c].ver = NextVer(@, now)]), 0)

\* Display metadata, display order and settings: the index is written again
\* with nothing changed that is modelled.
TouchIndex == Start(Commit(mem), 0)

\* set_connection_oauth: a fresh grant is staged, an existing one overwritten;
\* the version does not move.
SetOAuth(c) ==
    /\ mem.con[c].kind = "api"
    /\ LET old == mem.con[c].grant
           g == IF old = 0 THEN NewId ELSE old
       IN  /\ g \in Ids
           /\ Start(Plan([mem EXCEPT !.con[c].grant = g], {g},
                         IF old = 0 THEN {g} ELSE {}, "none", 0, {}),
                    IF old = 0 THEN 1 ELSE 0)

\* pin_ssh_host_key: only an empty pin is set, and updated_at stays.
PinHostKey(c) ==
    /\ mem.con[c].kind = "ssh" /\ mem.con[c].pin = 0
    /\ Start(Commit([mem EXCEPT !.con[c].pin = 1]), 0)

\* delete_connection: the grant dies with it, best effort.
DeleteConnection(c) ==
    /\ Con(mem.con[c])
    /\ Start(Plan([mem EXCEPT !.con[c] = NoCon], {}, {}, "none", 0,
                  {mem.con[c].grant}), 0)

----------------------------------------------------------------------------
Now == {0, CatMaxVer - 1}
Picks == {{}} \cup {{i} : i \in Ids}

CatBegin ==
    \/ \E n \in CatNames, f \in BOOLEAN : AddCredential(n, f)
    \/ \E n \in CatNames : AddOnePasswordSecret(n)
    \/ \E i \in Ids : SetTotp(i) \/ ClearTotp(i) \/ ReplaceValue(i) \/ DeleteSecret(i)
    \/ \E i \in Ids, n \in CatNames, t \in Now : RenameSecret(i, n, t)
    \/ \E a \in {"token", "desktop"} : AddIntegration(a)
    \/ ReplaceToken
    \/ DeleteIntegration

CatConnect ==
    \/ \E c \in CatConns, k \in CatKinds, r \in SUBSET CatNames, p \in Picks :
          AddConnection(c, k, r, p, 0)
    \/ \E c \in CatConns, k \in CatKinds, n \in CatNames :
          AddConnectionWithSecret(c, k, n, 0)
    \/ \E c \in CatConns, r \in SUBSET CatNames, p \in Picks, k \in 0..1,
          t \in Now : UpdateConnection(c, r, p, k, t)
    \/ \E c \in CatConns, t \in Now : RenameConnection(c, t)
    \/ TouchIndex
    \/ \E c \in CatConns : SetOAuth(c) \/ PinHostKey(c) \/ DeleteConnection(c)

CatNext ==
    \/ CatOpen \/ CatStage \/ CatIndex \/ CatStrict \/ CatTidy \/ CatCrash
    \/ CatBegin \/ CatConnect
    \/ \E c \in CatConns : CatRead(c)

CatSpec == CatInit /\ [][CatNext]_catVars

----------------------------------------------------------------------------
(* Properties                                                              *)

\* Both copies of the index have a name for every secret and a known kind for
\* every connection, and the plan under way is at one of its steps.
CatTypeOK ==
    /\ \A ix \in {mem, disk} :
          /\ \A i \in Ids : /\ ix.sec[i].source \in {"none", "local", "op"}
                            /\ Secret(ix.sec[i]) => ix.sec[i].name \in CatNames
          /\ \A c \in CatConns : /\ ix.con[c].kind \in CatKinds \cup {"none"}
                                 /\ ix.con[c].ver \in 0..CatMaxVer
    /\ vault \cup undone \subseteq 0..CatItems + 1
    /\ op.phase \in {"idle", "stage", "index", "strict", "tidy"}

\* Whatever fails and wherever the process dies, neither the running broker nor the next
\* one to open the index relies on a value the vault lost, but for what an operation took
\* out of it that failed with its write in place: a roll-back that trusts the error, or a
\* deletion that reported one (the order of vault and index writes in every operation of
\* the store).
CatBacked == Relied(mem) \cup Relied(disk) \subseteq vault \cup undone

\* What was acknowledged survives a restart: between two operations memory and disk agree,
\* unless a roll-back failed or a failed write was in place (persist before *state = next).
CatDurable == up /\ op = NoOp /\ ~skew => mem = disk

\* A template and the binding it stands for never part: the names an API
\* connection refers to resolve to exactly the secrets it is bound to, through
\* renames, reuse of a name, deletions and restarts.
CatNamesResolve ==
    \A ix \in {mem, disk} : \A c \in CatConns :
        /\ \A i \in ix.con[c].bound : Secret(ix.sec[i])
        /\ ix.con[c].kind = "api" =>
              /\ IdsNamed(ix, ix.con[c].refs) = ix.con[c].bound
              /\ ix.con[c].refs \subseteq NamesOf(ix)

\* No lost update: a host key learned while a form was open is not undone by
\* saving that form; only an editor that had seen the key can drop it
\* (Connection::version, update_connection_if_current).
CatNoLostEdit ==
    [][up /\ up' => \A c \in CatConns :
          mem.con[c].pin = 1 /\ Con(mem'.con[c]) /\ mem'.con[c].pin = 0
              => seen[c].pin = 1]_catVars

\* The catalog whatever write fails and wherever it crashes: every secret has
\* its vault item, disk and memory tell one story, and names resolve.
CatalogSound ==
    /\ CatTypeOK
    /\ CatBacked
    /\ CatDurable
    /\ CatNamesResolve
=============================================================================
