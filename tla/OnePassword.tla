----------------------------- MODULE OnePassword -----------------------------
(***************************************************************************)
(* Linked credentials are resolved by a helper process that speaks          *)
(* numbered lines over a pipe (onepassword.rs, sidecars/onepassword): one   *)
(* process per integration, shared by every caller, found or started        *)
(* outside the lock of the table, and thrown away when the pipe can no      *)
(* longer be trusted.  A caller may time out or be dropped at any await, at *)
(* which moment its request or its answer is on the pipe in part or in      *)
(* whole; the access token may be replaced, or the integration deleted,     *)
(* between any two steps of a call.                                         *)
(***************************************************************************)
EXTENDS Naturals, Sequences, FiniteSets

CONSTANTS
    OpCallers,      \* callers
    OpMaxProc,      \* bound: processes at once
    OpMaxTok,       \* bound: tokens the integration has had
    OpMaxSeq,       \* bound: requests to one process
    OpFaults,       \* what may go wrong: "time", "drop", "expire", "die"
    OpMaxFaults     \* bound: how often it does

ASSUME OpAssumption ==
    /\ "free" \notin OpCallers
    /\ OpMaxProc \in Nat /\ OpMaxTok \in Nat \ {0} /\ OpMaxFaults \in Nat

VARIABLES opTok,    \* the version of the token in the vault; 0: deleted
          opEdit,   \* tokens written whose session is still to be dropped
          opTable,  \* the process of the integration; 0: none
          opProcs,  \* the processes started so far
          opCalls,  \* the callers
          opFaults  \* faults so far
opVars == <<opTok, opEdit, opTable, opProcs, opCalls, opFaults>>

OpIdle == [pc |-> "idle", tok |-> 0, proc |-> 0, id |-> 0, got |-> 0]

(* A process: its session's token, the ids handed out, the lines on their   *)
(* way through it, the caller that has the pipe, whether half a line is     *)
(* left on the way in or out; late: stored for a token already replaced;    *)
(* cut: a caller of it was dropped.                                         *)
OpSpawned(t) == [tok |-> t, seq |-> 0, out |-> <<>>, io |-> "free",
                 halfIn |-> FALSE, halfOut |-> FALSE, dead |-> FALSE,
                 late |-> FALSE, cut |-> FALSE]

OpGone == [OpSpawned(0) EXCEPT !.dead = TRUE]

OpInit == /\ opTok = 1 /\ opEdit = FALSE /\ opTable = 0
          /\ opProcs = [p \in 1 .. OpMaxProc |-> OpGone]
          /\ opCalls = [c \in OpCallers |-> OpIdle] /\ opFaults = 0

OpTypeOK == /\ opTok \in 0 .. OpMaxTok /\ opEdit \in BOOLEAN
            /\ opTable \in 0 .. OpMaxProc
            /\ \A c \in OpCallers : opCalls[c].proc \in 0 .. OpMaxProc

At(c, pc) == opCalls[c].pc = pc
Proc(c) == opProcs[opCalls[c].proc]

(* A step of a caller: what it makes of the table, of a process and of      *)
(* itself.  A helper that neither the table nor a caller refers to any more *)
(* is killed.                                                               *)
OpStep(c, table, procs, call) ==
   LET calls == [opCalls EXCEPT ![c] = call] IN
   /\ opTable' = table /\ opCalls' = calls
   /\ opProcs' = [p \in 1 .. OpMaxProc |->
                    IF p = table \/ \E o \in OpCallers : calls[o].proc = p THEN procs[p] ELSE OpGone]
   /\ UNCHANGED <<opTok, opEdit>>
OpFault(kind) == /\ kind \in OpFaults /\ opFaults < OpMaxFaults /\ opFaults' = opFaults + 1
OpNoFault == UNCHANGED opFaults
OpWith(p, proc) == [opProcs EXCEPT ![p] = proc]
OpTo(c, pc) == [opCalls[c] EXCEPT !.pc = pc]

(* A resolution begins with the token as the vault has it now. *)
OpToken(c) == /\ At(c, "idle") /\ opTok # 0
              /\ OpStep(c, opTable, opProcs, [OpIdle EXCEPT !.pc = "look", !.tok = opTok])

(* The table's process is taken; the number of the request comes first, the *)
(* turn on the pipe later.                                                  *)
OpJoin(c, p, procs) == /\ procs[p].seq < OpMaxSeq
                       /\ OpStep(c, p, [procs EXCEPT ![p].seq = @ + 1],
                                 [OpTo(c, "turn") EXCEPT !.proc = p, !.id = procs[p].seq + 1])
OpLookup(c) == At(c, "look") /\ opTable # 0 /\ OpJoin(c, opTable, opProcs)

(* None is there: one is started with the token in hand, outside the lock.  *)
OpSpawn(c) == /\ At(c, "look") /\ opTable = 0
              /\ \E p \in 1 .. OpMaxProc :
                   /\ opProcs[p] = OpGone /\ \A q \in 1 .. (p - 1) : opProcs[q] # OpGone
                   /\ OpStep(c, 0, OpWith(p, OpSpawned(opCalls[c].tok)),
                             [OpTo(c, "init") EXCEPT !.proc = p])

(* It answered "initialize": it is stored unless another one is there by    *)
(* now, which is then the one that is used.                                 *)
OpStore(c) == /\ At(c, "init")
              /\ \/ /\ opTable = 0
                    /\ OpJoin(c, opCalls[c].proc,
                              OpWith(opCalls[c].proc, [Proc(c) EXCEPT !.late = opCalls[c].tok # opTok]))
                 \/ opTable # 0 /\ OpJoin(c, opTable, opProcs)
OpRefused(c) == At(c, "init") /\ OpStep(c, opTable, opProcs, OpIdle)

(* The request is written as one line; behind half a line it makes a line   *)
(* the helper cannot read, which it answers under number 0.  It serves one   *)
(* line after the other, each with one answer under the line's number.      *)
OpWrite(c) == /\ At(c, "turn") /\ Proc(c).io = "free" /\ ~Proc(c).dead
              /\ OpStep(c, opTable,
                   OpWith(opCalls[c].proc,
                          [Proc(c) EXCEPT !.io = c, !.halfIn = FALSE,
                             !.out = Append(@, IF Proc(c).halfIn THEN 0 ELSE opCalls[c].id)]),
                   OpTo(c, "read"))

(* A line is read: what is left of one that a caller had begun is not JSON, *)
(* another number than the caller's is out of sequence; either fails the    *)
(* call in a way that condemns the process.                                 *)
OpAcceptsAny(c) == ~Proc(c).halfOut
OpAccepts(c) == Head(Proc(c).out) = opCalls[c].id /\ ~Proc(c).halfOut
OpRead(c) == /\ At(c, "read") /\ Proc(c).out # <<>>
             /\ OpStep(c, opTable,
                  OpWith(opCalls[c].proc, [Proc(c) EXCEPT !.io = "free", !.halfOut = FALSE, !.out = Tail(@)]),
                  [OpTo(c, IF OpAccepts(c) THEN "served" ELSE "condemn") EXCEPT
                     !.got = IF Proc(c).halfOut THEN 0 ELSE Head(Proc(c).out)])

(* The provider's own refusals keep the session, unless they say that it    *)
(* ended.                                                                   *)
OpAnswered(c) == At(c, "served") /\ OpStep(c, opTable, opProcs, OpIdle)
OpExpired(c) == /\ At(c, "served") /\ OpFault("expire")
                /\ OpStep(c, opTable, opProcs, OpTo(c, "condemn"))

(* The pipe of a dead helper fails who writes to it, and who reads it when  *)
(* it is empty.                                                             *)
OpBroken(c) == /\ opCalls[c].pc \in {"turn", "read"} /\ Proc(c).dead
               /\ Proc(c).io \in {"free", c} /\ (At(c, "read") => Proc(c).out = <<>>)
               /\ OpStep(c, opTable, OpWith(opCalls[c].proc, [Proc(c) EXCEPT !.io = "free"]),
                         OpTo(c, "condemn"))

(* A caller that lets go of the pipe may have passed half of its next line. *)
OpLet(c, call, cut) == \E part \in {"none", "in", "out"} :
   /\ opCalls[c].pc \in {"turn", "read"}
   /\ part = "in" => At(c, "turn") /\ Proc(c).io = "free" /\ ~Proc(c).dead
   /\ part = "out" => At(c, "read") /\ Proc(c).out # <<>>
   /\ OpStep(c, opTable,
        OpWith(opCalls[c].proc,
               [Proc(c) EXCEPT !.io = IF @ = c THEN "free" ELSE @, !.cut = @ \/ cut,
                               !.halfIn = @ \/ part = "in", !.halfOut = @ \/ part = "out"]), call)
OpTimeout(c) == OpFault("time") /\ OpLet(c, OpTo(c, "condemn"), FALSE)
OpDropped(c) == OpFault("drop") /\ OpLet(c, OpIdle, TRUE)

(* A condemned process leaves the table: whichever is there by now. *)
OpCondemn(c) == At(c, "condemn") /\ OpStep(c, 0, opProcs, OpIdle)
OpDies(p) == /\ OpFault("die") /\ ~opProcs[p].dead
             /\ \E out \in {opProcs[p].out, <<>>} :
                  opProcs' = OpWith(p, [opProcs[p] EXCEPT !.dead = TRUE, !.out = out])
             /\ UNCHANGED <<opTok, opEdit, opTable, opCalls>>

(* A replacement or a deletion writes the vault first and drops the session *)
(* after it; the vault is read without the lock they hold.  A new token was *)
(* tried in a process of its own, which no caller finds.                    *)
OpReplace == /\ ~opEdit /\ opTok \in 1 .. (OpMaxTok - 1)
             /\ opTok' = opTok + 1 /\ opEdit' = TRUE /\ UNCHANGED <<opTable, opProcs, opCalls, opFaults>>
OpDelete == /\ ~opEdit /\ opTok # 0
            /\ opTok' = 0 /\ opEdit' = TRUE /\ UNCHANGED <<opTable, opProcs, opCalls, opFaults>>
OpUnused(p) == p = opTable /\ \A c \in OpCallers : opCalls[c].proc # p
OpInvalidate == /\ opEdit /\ opEdit' = FALSE /\ opTable' = 0
                /\ opProcs' = [p \in 1 .. OpMaxProc |-> IF OpUnused(p) THEN OpGone ELSE opProcs[p]]
                /\ UNCHANGED <<opTok, opCalls, opFaults>>

OpNext == \/ \E c \in OpCallers :
                \/ OpNoFault /\ \/ OpToken(c) \/ OpLookup(c) \/ OpSpawn(c) \/ OpStore(c)
                                \/ OpRefused(c) \/ OpWrite(c) \/ OpRead(c) \/ OpAnswered(c)
                                \/ OpBroken(c) \/ OpCondemn(c)
                \/ OpExpired(c) \/ OpTimeout(c) \/ OpDropped(c)
          \/ \E p \in 1 .. OpMaxProc : OpDies(p)
          \/ OpReplace \/ OpDelete \/ OpInvalidate
OpSpec == OpInit /\ [][OpNext]_opVars

\* A call that is served got the answer to its own request, whatever earlier
\* callers left on the pipe when they let go of it.
OpAnswersOwn == \A c \in OpCallers : At(c, "served") => opCalls[c].got = opCalls[c].id

\* Outside a replacement the table holds no session of another token than the
\* vault's, except one that a slow caller stored after the replacement.
OpNoStale == opTable # 0 /\ ~opEdit =>
             opProcs[opTable].tok = opTok \/ opProcs[opTable].late

\* A process whose pipe holds what nobody waits for is out of the table, or a
\* caller is about to take it out, or it was a dropped caller that left it so
\* and the next caller will find out.
OpOutOfStep(p) == \/ opProcs[p].halfIn \/ opProcs[p].halfOut
                  \/ opProcs[p].io = "free" /\ opProcs[p].out # <<>>
OpCondemned == opTable # 0 /\ OpOutOfStep(opTable) =>
               opProcs[opTable].cut \/ \E c \in OpCallers : At(c, "condemn")

\* A served caller has its own answer, a session is never older than the token it
\* is for, and a process out of step is on its way out (onepassword.rs, request).
OnePasswordSound == OpTypeOK /\ OpAnswersOwn /\ OpNoStale /\ OpCondemned
=============================================================================
