------------------------------ MODULE Endpoints ------------------------------
(***************************************************************************)
(* Direct endpoints: the sealed registry of standing addresses             *)
(* (endpoints.rs), the listeners that serve them and the plaintexts kept   *)
(* in the vault (broker.rs), and the changes of a connection that end them *)
(* (domain.rs).  An operation checks, changes the registry under the       *)
(* configuration gate and binds a listener outside of it, so two of them   *)
(* interleave at those points; the process can die at any of them.         *)
(*                                                                         *)
(* An SSH endpoint listens on a path made from its secret, the others on a *)
(* port of their own; a listener is known by that address.  Sessions are   *)
(* modelled in DataPlane.                                                  *)
(***************************************************************************)
EXTENDS Naturals, FiniteSets

CONSTANTS
    EpConns,        \* connection ids
    EpWidth,        \* bound: operations under way at once
    EpMax,          \* max_total
    EpMaxSec,       \* bound: secrets minted, also the endpoint ids
    EpMaxTarget,    \* bound: destinations a connection has had
    EpMaxFaults,    \* bound: writes and binds that fail in one behaviour
    EpFaults        \* what may fail; "landed": a write may be in place when it does

ASSUME EpAssumption ==
    /\ IsFiniteSet(EpConns)
    /\ EpMax \in Nat /\ EpMaxSec \in Nat \ {0} /\ EpMaxTarget \in Nat
    /\ EpWidth \in Nat \ {0} /\ EpMaxFaults \in Nat
    /\ EpFaults \subseteq {"file", "revoke", "landed", "bind", "vault", "crash"}

VARIABLES
    ssh,        \* the connections of kind ssh; a kind never changes
    target,     \* connection -> its destination; 0 once deleted
    barred,     \* connections agents may not use
    reg,        \* connection -> its record, or NoEp
    epfile,     \* endpoints.json, which has no plaintext
    lis,        \* endpoint id -> the address its listener holds, 0 for none
    kept,       \* endpoint id -> the secret the vault holds for it, 0 for none
    minted,     \* secrets minted so far
    task,       \* the operations under way
    run,        \* "down", "starting" or "up"
    due,        \* ids still to rebind while starting
    scar        \* what faults and races have left: history, not program state

epVars == <<ssh, target, barred, reg, epfile, lis, kept, minted, task, run, due, scar>>

EpIds == 1..EpMaxSec
EpTasks == 1..EpWidth
NoEp == [id |-> 0, sec |-> 0, plain |-> 0, exp |-> "never", tgt |-> 0]
\* What an operation keeps of the record it works on.
Captured(e) == [NoEp EXCEPT !.id = e.id, !.sec = e.sec, !.plain = e.plain]
NoTask == [op |-> "none", c |-> "none", pc |-> "idle", ep |-> NoEp, live |-> FALSE]

IsEp(c) == reg[c] # NoEp
Count == Cardinality({c \in EpConns : IsEp(c)})
Expired(e) == e.exp = "lapsed"

\* The address of a listener: the path an SSH secret gives (the legacy name when
\* the plaintext is not known), or the endpoint's own port.
EpLegacy == EpMaxSec + 1
Address(c, sec) == IF c \notin ssh THEN 1 ELSE IF sec = 0 THEN EpLegacy ELSE sec

\* endpoint_secret_for: what is known in memory, else what the vault has.
Plain(e) == IF e.plain # 0 THEN e.plain ELSE kept[e.id]

EpInit ==
    /\ ssh \in SUBSET EpConns
    /\ target = [c \in EpConns |-> 1] /\ barred = {}
    /\ reg = [c \in EpConns |-> NoEp] /\ epfile = reg
    /\ lis = [i \in EpIds |-> 0] /\ kept = [i \in EpIds |-> 0]
    /\ minted = 0
    /\ task = [t \in EpTasks |-> NoTask]
    /\ run = "up" /\ due = {}
    /\ scar = [unrevoked |-> {}, raced |-> {}, unkept |-> {}, torn |-> {}, stray |-> {},
               count |-> 0]

\* A fault happens, and leaves `ids` marked with `what`.
Fault(kind) == kind \in EpFaults /\ scar.count < EpMaxFaults
Hit == [scar EXCEPT !.count = @ + 1]
Marked(what, ids) == [Hit EXCEPT ![what] = @ \cup ids]

Free(t) == task[t] = NoTask /\ \A u \in 1..(t - 1) : task[u] # NoTask
\* An operation on c is under way that has more to do than to show the address.
Busy(c) == \E t \in EpTasks : task[t].c = c /\ task[t].pc # "show"
\* An operation that ends leaves its place to those that began after it.
End(t) == task' = [u \in EpTasks |-> IF u < t THEN task[u]
                                      ELSE IF u < EpWidth THEN task[u + 1] ELSE NoTask]

\* persist: the file first, then memory.  The directory is synced after the
\* rename, so a write that fails may be in place.
OnDisk(next) == [c \in EpConns |-> [next[c] EXCEPT !.plain = 0]]
Persist(next) == reg' = next /\ epfile' = OnDisk(next)
PersistFails(kind, next) ==
    /\ Fault(kind) /\ UNCHANGED reg
    /\ \/ UNCHANGED epfile
       \/ "landed" \in EpFaults /\ epfile' = OnDisk(next)

\* store_endpoint_secret: a failure is not an error.
Keep(e) == kept' = [kept EXCEPT ![e.id] = e.plain]

----------------------------------------------------------------------------
(* Issuing                                                                 *)

\* ui_issue_endpoint and auto_issue_api_endpoint, the checks before the gate.
EpIssue(t, c) ==
    /\ run = "up" /\ Free(t)
    /\ target[c] # 0 /\ c \notin barred /\ ~Expired(reg[c])
    /\ task' = [task EXCEPT ![t] = [NoTask EXCEPT !.op = "issue", !.c = c, !.pc = "mint"]]
    /\ UNCHANGED <<ssh, target, barred, reg, epfile, lis, kept, minted, run, due, scar>>

\* EndpointRegistry::issue: the record keeps its id, its posture and deadline
\* when there is one; a new one counts against the limit.
Issued(c, sec) ==
    IF IsEp(c) THEN [reg[c] EXCEPT !.sec = sec, !.plain = sec]
    ELSE [NoEp EXCEPT !.id = sec, !.sec = sec, !.plain = sec, !.tgt = target[c]]

\* A rotation leaves a live listener alone, except that the path of an SSH
\* socket is made from the secret.
KeepsListener(c) == IsEp(c) /\ lis[reg[c].id] # 0 /\ c \notin ssh

\* The record is written.  A read or another operation that holds what the
\* connection had before may now write the old plaintext over the new one.
EpMinted(t, next) ==
    LET c == task[t].c IN
    \/ /\ Persist(next)
       /\ task' = [task EXCEPT ![t].ep = Captured(next[c]),
                      ![t].pc = IF KeepsListener(c) THEN "park" ELSE "bind"]
       /\ scar' = IF \E u \in EpTasks \ {t} : task[u].c = c
                  THEN [scar EXCEPT !.raced = @ \cup {next[c].id}] ELSE scar
    \/ PersistFails("file", next) /\ scar' = Hit /\ End(t)

\* Under the gate: checked again, then the registry.  Neither the connection nor
\* its destination is looked at again.
EpMint(t) ==
    LET c == task[t].c
        refused == c \in barred \/ Expired(reg[c]) \/ (~IsEp(c) /\ Count >= EpMax)
    IN
    /\ task[t].pc = "mint"
    /\ \/ refused /\ End(t) /\ UNCHANGED <<reg, epfile, minted, scar>>
       \/ /\ ~refused /\ minted < EpMaxSec
          /\ minted' = minted + 1
          /\ EpMinted(t, [reg EXCEPT ![c] = Issued(c, minted + 1)])
    /\ UNCHANGED <<ssh, target, barred, lis, kept, run, due>>

\* What the registry holds once id is revoked.
EpWithout(id) == [c \in EpConns |-> IF reg[c].id = id THEN NoEp ELSE reg[c]]

\* The record of an endpoint whose listener could not be bound is revoked, if
\* that can be written.
Withdraw(id) ==
    \/ Persist(EpWithout(id)) /\ UNCHANGED scar
    \/ PersistFails("revoke", EpWithout(id)) /\ scar' = Marked("unrevoked", {id})

\* A listener is bound.  A port it has for the first time goes into the record
\* (set_port), which writes the file again.
Bound(c, id, addr) ==
    /\ lis' = [lis EXCEPT ![id] = addr] /\ UNCHANGED reg
    /\ epfile' \in {epfile} \cup (IF c \in ssh THEN {} ELSE {OnDisk(reg)})

\* bind_endpoint_listener, outside the gate; the previous listener of the same
\* endpoint is stopped.  An SSH listener looks its connection up and parks the
\* plaintext it knows.
EpBind(t) ==
    LET c == task[t].c  e == task[t].ep IN
    /\ task[t].pc = "bind"
    /\ \/ /\ c \in ssh => target[c] # 0
          /\ Bound(c, e.id, Address(c, Plain(e)))
          /\ IF c \in ssh /\ e.plain # 0 THEN Keep(e) ELSE UNCHANGED kept
          /\ task' = [task EXCEPT ![t].pc = IF task[t].op = "issue" THEN "park"
                                            ELSE "renew"]
          /\ UNCHANGED scar
       \/ /\ Fault("bind") \/ (c \in ssh /\ target[c] = 0)
          /\ IF task[t].op = "issue" THEN Withdraw(e.id) ELSE UNCHANGED <<reg, epfile, scar>>
          /\ End(t) /\ UNCHANGED <<lis, kept>>
    /\ UNCHANGED <<ssh, target, barred, minted, run, due>>

\* What was issued goes to the vault.
EpPark(t) ==
    /\ task[t].pc = "park"
    /\ \/ Keep(task[t].ep) /\ UNCHANGED scar
       \/ Fault("vault") /\ UNCHANGED kept /\ scar' = Hit
    /\ task' = [task EXCEPT ![t].pc = "show"]
    /\ UNCHANGED <<ssh, target, barred, reg, epfile, lis, minted, run, due>>

\* endpoint_info, the last thing an operation does and the whole of a read:
\* outside the gate, the plaintext the operation holds goes to the vault,
\* whatever the registry has become meanwhile.
EpShow(t) ==
    LET e == task[t].ep IN
    /\ task[t].pc = "show"
    /\ \/ (IF e.plain # 0 THEN Keep(e) ELSE UNCHANGED kept) /\ UNCHANGED scar
       \/ /\ e.plain # 0 /\ Fault("vault") /\ UNCHANGED kept
          /\ scar' = IF kept[e.id] = e.plain THEN Hit ELSE Marked("unkept", {e.id})
    /\ End(t)
    /\ UNCHANGED <<ssh, target, barred, reg, epfile, lis, minted, run, due>>

----------------------------------------------------------------------------
(* Renewing, and opting into or out of expiry                              *)

\* Mutant: the deadline moves first and the listener is bound afterwards, if at
\* all.
ExtendUnbound(t, c, op) ==
    /\ run = "up" /\ Free(t)
    /\ target[c] # 0 /\ c \notin barred /\ IsEp(c)
    /\ task' = [task EXCEPT ![t] = [op |-> op, c |-> c, ep |-> Captured(reg[c]),
                                    live |-> TRUE, pc |-> "renew"]]
    /\ UNCHANGED <<ssh, target, barred, reg, epfile, lis, kept, minted, run, due, scar>>

\* ui_renew_endpoint and ui_set_endpoint_expiry: an endpoint without a listener
\* gets one before its secret is valid again.
EpExtend(t, c, op) ==
    /\ run = "up" /\ Free(t)
    /\ target[c] # 0 /\ c \notin barred /\ IsEp(c)
    /\ LET live == lis[reg[c].id] # 0
       IN  task' = [task EXCEPT ![t] = [op |-> op, c |-> c, ep |-> Captured(reg[c]), live |-> live,
                                        pc |-> IF live THEN "renew" ELSE "bind"]]
    /\ UNCHANGED <<ssh, target, barred, reg, epfile, lis, kept, minted, run, due, scar>>

\* Under the gate: if the endpoint went away meanwhile, the listener bound for
\* it is stopped; otherwise the deadline moves, and the record is read back.
EpExtended(t) ==
    LET c == task[t].c  e == task[t].ep
        next == [reg EXCEPT ![c].exp = IF task[t].op = "keep" THEN "never" ELSE "live"]
    IN
    /\ task[t].pc = "renew"
    /\ \/ /\ c \notin barred /\ reg[c].id # e.id
          /\ lis' = IF task[t].live THEN lis ELSE [lis EXCEPT ![e.id] = 0]
          /\ End(t) /\ UNCHANGED <<reg, epfile, scar>>
       \/ /\ c \notin barred /\ reg[c].id = e.id
          /\ \/ /\ Persist(next) /\ UNCHANGED scar
                /\ task' = [task EXCEPT ![t].ep = Captured(reg[c]), ![t].pc = "show"]
             \/ PersistFails("file", next) /\ scar' = Hit /\ End(t)
          /\ UNCHANGED lis
       \/ c \in barred /\ End(t) /\ UNCHANGED <<reg, epfile, lis, scar>>
    /\ UNCHANGED <<ssh, target, barred, kept, minted, run, due>>

\* The deadline of an endpoint passes.
EpLapse(c) ==
    /\ IsEp(c) /\ reg[c].exp = "live"
    /\ reg' = [reg EXCEPT ![c].exp = "lapsed"]
    /\ epfile' = [d \in EpConns |->
          IF d = c /\ epfile[c].exp = "live" THEN [epfile[c] EXCEPT !.exp = "lapsed"]
          ELSE epfile[d]]
    /\ UNCHANGED <<ssh, target, barred, lis, kept, minted, task, run, due, scar>>

\* ui_get_endpoint, ui_copy_endpoint: the record is read here and its address
\* built afterwards; without a plaintext in memory nothing is written.
EpRead(t, c) ==
    /\ run = "up" /\ Free(t) /\ target[c] # 0 /\ IsEp(c) /\ reg[c].plain # 0
    /\ task' = [task EXCEPT ![t] = [NoTask EXCEPT !.op = "read", !.c = c, !.pc = "show",
                                                 !.ep = Captured(reg[c])]]
    /\ UNCHANGED <<ssh, target, barred, reg, epfile, lis, kept, minted, run, due, scar>>

----------------------------------------------------------------------------
(* Ending                                                                  *)

EpGone(cs) == [c \in EpConns |-> IF c \in cs THEN NoEp ELSE reg[c]]
Silent(cs, f) == [i \in EpIds |-> IF \E c \in cs : reg[c].id = i THEN 0 ELSE f[i]]

\* ui_revoke_endpoint, and ui_rotate_key for all of them: the registry, the
\* plaintexts, the listeners, or an error and nothing more.
EpRevoke(cs) ==
    /\ run = "up" /\ cs # {} /\ \A c \in cs : IsEp(c)
    /\ \/ /\ Persist(EpGone(cs))
          /\ kept' = Silent(cs, kept) /\ lis' = Silent(cs, lis) /\ UNCHANGED scar
       \/ PersistFails("revoke", EpGone(cs)) /\ scar' = Hit /\ UNCHANGED <<kept, lis>>
    /\ UNCHANGED <<ssh, target, barred, minted, task, run, due>>

\* update_connection and delete_connection: the catalog, then the registry; the
\* listeners go when both were written.  The plaintexts stay in the vault.
EpChange(c, new) ==
    /\ run = "up" /\ target[c] # 0 /\ new # target[c]
    /\ target' = [target EXCEPT ![c] = new]
    /\ \/ ~IsEp(c) /\ UNCHANGED <<reg, epfile, lis, scar>>
       \/ IsEp(c) /\ Persist(EpGone({c})) /\ lis' = Silent({c}, lis) /\ UNCHANGED scar
       \/ /\ IsEp(c) /\ PersistFails("file", EpGone({c}))
          /\ scar' = Marked("torn", {reg[c].id})
          /\ UNCHANGED lis
    /\ UNCHANGED <<ssh, barred, kept, minted, task, run, due>>

\* set_enabled: an endpoint outlives the switch.
EpSwitch(c) ==
    /\ run = "up" /\ target[c] # 0
    /\ barred' = IF c \in barred THEN barred \ {c} ELSE barred \cup {c}
    /\ UNCHANGED <<ssh, target, reg, epfile, lis, kept, minted, task, run, due, scar>>

----------------------------------------------------------------------------
(* Restarting                                                              *)

\* The process ends; the plaintexts in memory and the listeners go with it, and
\* so does what memory had otherwise than the file.
EpStop ==
    /\ "crash" \in EpFaults /\ run # "down"
    /\ run' = "down" /\ due' = {}
    /\ lis' = [i \in EpIds |-> 0]
    /\ task' = [t \in EpTasks |-> NoTask]
    /\ reg' = epfile
    /\ scar' = [scar EXCEPT
          !.unkept = @ \cup {task[t].ep.id : t \in {u \in EpTasks : task[u].op = "issue"}},
          !.stray = @ \cup {epfile[c].id : c \in {d \in EpConns : epfile[d] # OnDisk(reg)[d]}}]
    /\ UNCHANGED <<ssh, target, barred, epfile, kept, minted>>

EpStart ==
    /\ run = "down" /\ run' = "starting"
    /\ due' = {reg[c].id : c \in {d \in EpConns : IsEp(d)}}
    /\ UNCHANGED <<ssh, target, barred, reg, epfile, lis, kept, minted, task, scar>>

\* rebind_endpoints: an expired one is left alone, one whose connection is gone
\* is dropped, one whose address is taken is revoked.
EpRebind(id) ==
    /\ run = "starting" /\ id \in due /\ due' = due \ {id}
    /\ \E c \in EpConns :
          /\ reg[c].id = id
          /\ IF Expired(reg[c]) THEN UNCHANGED <<reg, epfile, lis, scar>>
             ELSE IF target[c] = 0 THEN Withdraw(id) /\ UNCHANGED lis
             ELSE \/ Bound(c, id, Address(c, Plain(reg[c]))) /\ UNCHANGED scar
                  \/ Fault("bind") /\ Withdraw(id) /\ UNCHANGED lis
    /\ UNCHANGED <<ssh, target, barred, kept, minted, task, run>>

EpUp ==
    /\ run = "starting" /\ due = {} /\ run' = "up"
    /\ UNCHANGED <<ssh, target, barred, reg, epfile, lis, kept, minted, task, due, scar>>

----------------------------------------------------------------------------
EpNext ==
    \/ \E t \in EpTasks : EpMint(t) \/ EpBind(t) \/ EpPark(t) \/ EpExtended(t) \/ EpShow(t)
    \/ \E t \in EpTasks, c \in EpConns :
          \/ EpIssue(t, c) \/ EpRead(t, c)
          \/ \E op \in {"renew", "keep"} : EpExtend(t, c, op)
    \/ \E c \in EpConns : \/ EpLapse(c)
                          \/ EpSwitch(c) \/ EpRevoke({c})
                          \/ EpChange(c, 0)
                          \/ target[c] < EpMaxTarget /\ EpChange(c, target[c] + 1)
    \/ EpRevoke({c \in EpConns : IsEp(c)})
    \/ EpStop \/ EpStart \/ EpUp
    \/ \E id \in EpIds : EpRebind(id)

EpSpec == EpInit /\ [][EpNext]_epVars

----------------------------------------------------------------------------
(* Properties                                                              *)

\* A record per connection at most, with an id and a secret that were minted.
EpTypeOK ==
    /\ \A c \in EpConns :
          /\ reg[c].id \in 0..minted /\ reg[c].sec \in 0..minted
          /\ reg[c].plain \in {0, reg[c].sec}
          /\ reg[c].exp \in {"never", "live", "lapsed"}
          /\ reg[c].id = 0 <=> reg[c].sec = 0
    /\ \A i \in EpIds : lis[i] \in 0..EpLegacy /\ kept[i] \in 0..minted
    /\ Count <= EpMax

\* A secret that still authenticates never points at an address some other
\* process may hold: once the broker serves and no operation on the connection
\* is under way, an unexpired record has a listener of ours, unless the very
\* revocation that would have withdrawn it could not be written
\* (ui_issue_endpoint, ui_renew_endpoint, rebind_endpoints).
EpNoForeign ==
    run = "up" => \A c \in EpConns :
        IsEp(c) /\ ~Expired(reg[c]) /\ ~Busy(c) /\ reg[c].id \notin scar.unrevoked
            => lis[reg[c].id] # 0

\* The address the app shows is the one that works: the plaintext it can read
\* back is the secret the record holds, and an SSH listener sits on the path
\* that secret gives, as long as the vault took it and no two operations on one
\* connection overlapped (ui_issue_endpoint, endpoint_secret_for).
EpCopyWorks ==
    \A c \in EpConns :
        /\ IsEp(c) /\ ~Busy(c)
        /\ reg[c].id \notin scar.raced \cup scar.unkept \cup scar.unrevoked \cup scar.stray
        => /\ Plain(reg[c]) = reg[c].sec
           /\ lis[reg[c].id] \in {0, Address(c, reg[c].sec)}

\* An address granted for one destination does not cover another, unless the
\* registry could not be written (update_connection).
EpTargetKept ==
    \A c \in EpConns : IsEp(c) /\ reg[c].id \notin scar.torn \cup scar.stray => reg[c].tgt = target[c]

\* What the comment on ui_update_connection says without exception.
EpTargetAlways == \A c \in EpConns : IsEp(c) => reg[c].tgt = target[c]

\* What the comment on ui_issue_endpoint says without exception: later copies of
\* an address carry its secret.
EpCopyAlways ==
    \A c \in EpConns : IsEp(c) /\ ~Busy(c) => Plain(reg[c]) = reg[c].sec

\* The endpoint registry and its listeners through reconciliations, renewals and
\* failed binds: no foreign address, and the address handed out works.
EndpointsSound ==
    /\ EpTypeOK
    /\ EpNoForeign
    /\ EpCopyWorks
    /\ EpTargetKept
=============================================================================
