----------------------------- MODULE AgentCalls -----------------------------
(***************************************************************************)
(* The admission of a call through the control plane: post_http and        *)
(* run_allowed in daemon/mod.rs, against the owner who edits, curates or   *)
(* switches off the tool meanwhile.                                        *)
(*                                                                         *)
(* A call notes the version of the connection and its allow-list, and      *)
(* reads the switch, before it parks on the user; what it noted is checked *)
(* again by the wrappers around its executor, one after the other, once it *)
(* was allowed.  A keyed call goes on when its caller leaves, an unkeyed   *)
(* one stops asking, a streamed one does not notice while it waits.        *)
(***************************************************************************)
EXTENDS Naturals

CONSTANTS
    AgCalls,        \* calls
    AgMaxVer,       \* bound: versions of the connection
    AgMaxChanges    \* bound: changes the owner makes

ASSUME AgAssumption == {AgMaxVer, AgMaxChanges} \subseteq Nat \ {0}

VARIABLES
    agcall,     \* the calls
    agon,       \* the access switch
    agver,      \* updated_at; 0 once the connection is deleted
    agcur,      \* the allow-list: none, with the tool these calls name, without it
    agconf,     \* whether traffic is confirmed
    agwin,      \* the approval window: open or not, and (history) what it was granted for
    agtodo,     \* whether a revocation of prompts and windows is still to come
    agoffs,     \* history: the tool was switched off
    agchanges   \* changes the owner has made

agAuth == <<agon, agver, agcur, agconf, agoffs, agchanges>>
agVars == <<agcall, agAuth, agwin, agtodo>>

Lists == {"none", "with", "without"}
NoAgCall == [pc |-> "idle", mode |-> "plain", ver |-> 0, cur |-> "none", asked |-> FALSE, stale |-> FALSE]
NoWindow == [open |-> FALSE, ver |-> 0, cur |-> "none"]

AgInit ==
    /\ agcall = [k \in AgCalls |-> NoAgCall]
    /\ agon = TRUE /\ agver = 1 /\ agcur \in Lists /\ agconf \in BOOLEAN
    /\ agwin = NoWindow /\ agtodo = FALSE /\ agoffs = FALSE /\ agchanges = 0

AgAt(k) == agcall[k].pc
AgTo(k, pc) == agcall' = [agcall EXCEPT ![k].pc = pc]
AgEnd(k) == agcall' = [agcall EXCEPT ![k] = NoAgCall]

\* The connection is no longer the one the call was judged for.
Outdated(k) == agcall[k].ver # agver

----------------------------------------------------------------------------
(* post_http                                                               *)

\* The connection is looked up, the request checked (any of which may refuse it).  A
\* call that carries a key, and one that streams, is kept when nobody waits for it.
AgCall(k, mode) ==
    /\ AgAt(k) = "idle" /\ agver # 0
    /\ agcall' = [agcall EXCEPT ![k] = [NoAgCall EXCEPT !.pc = "found", !.mode = mode, !.ver = agver]]
    /\ UNCHANGED <<agAuth, agwin, agtodo>>

\* The allow-list is noted, and a tool outside it refused.
AgJudge(k) ==
    /\ AgAt(k) = "found"
    /\ IF agcur = "without" THEN AgEnd(k)
       ELSE agcall' = [agcall EXCEPT ![k].pc = "judged", ![k].cur = agcur]
    /\ UNCHANGED <<agAuth, agwin, agtodo>>

----------------------------------------------------------------------------
(* run_allowed                                                             *)

\* The switch, and then the confirmation mode.
AgEnter(k) ==
    /\ AgAt(k) = "judged"
    /\ IF ~agon THEN AgEnd(k)
       ELSE agcall' = [agcall EXCEPT ![k].pc = IF agconf THEN "parking" ELSE "version",
                                     ![k].asked = agconf, ![k].stale = ~agconf /\ Outdated(k)]
    /\ UNCHANGED <<agAuth, agwin, agtodo>>

\* Inside the execution, before the prompt.
AgPark(k) ==
    /\ AgAt(k) = "parking"
    /\ IF ~agon \/ agver # agcall[k].ver THEN AgEnd(k) ELSE AgTo(k, "gate")
    /\ UNCHANGED <<agAuth, agwin, agtodo>>

\* gate: an open window answers, else a prompt is inserted.
AgGate(k) ==
    /\ AgAt(k) = "gate"
    /\ agcall' = [agcall EXCEPT ![k].pc = IF agwin.open THEN "version" ELSE "asking",
                                ![k].stale = agwin.open /\ Outdated(k)]
    /\ UNCHANGED <<agAuth, agwin, agtodo>>

\* The user's verdict, which may open a window for what the prompt showed.
AgVerdict(k, allow, window) ==
    /\ AgAt(k) = "asking" /\ (window => allow)
    /\ IF allow THEN agcall' = [agcall EXCEPT ![k].pc = "version", ![k].stale = Outdated(k)] ELSE AgEnd(k)
    /\ agwin' = IF window THEN [open |-> TRUE, ver |-> agcall[k].ver, cur |-> agcall[k].cur] ELSE agwin
    /\ UNCHANGED <<agAuth, agtodo>>

\* The only caller of an unkeyed call left; nobody can read the answer.
AgAbandon(k) ==
    /\ AgAt(k) = "asking" /\ agcall[k].mode = "plain"
    /\ AgEnd(k)
    /\ UNCHANGED <<agAuth, agwin, agtodo>>

\* Mutant: the version is not compared at the execution boundary.
AgVersionNot(k) == AgAt(k) = "version" /\ AgTo(k, "switch") /\ UNCHANGED <<agAuth, agwin, agtodo>>

\* At the execution boundary: the version, ...
AgVersion(k) ==
    /\ AgAt(k) = "version"
    /\ IF agver # agcall[k].ver THEN AgEnd(k) /\ agwin' = NoWindow
       ELSE AgTo(k, "switch") /\ UNCHANGED agwin
    /\ UNCHANGED <<agAuth, agtodo>>

\* ... the switch, whose refusal leaves an approval window alone, ...
AgSwitch(k) ==
    /\ AgAt(k) = "switch"
    /\ IF ~agon THEN AgEnd(k) ELSE AgTo(k, "list")
    /\ UNCHANGED <<agAuth, agwin, agtodo>>

\* ... and the allow-list, inside post_http's own wrapper.
AgList(k) ==
    /\ AgAt(k) = "list"
    /\ IF agcur # agcall[k].cur THEN AgEnd(k) /\ agwin' = NoWindow
       ELSE AgTo(k, "run") /\ UNCHANGED agwin
    /\ UNCHANGED <<agAuth, agtodo>>

AgDone(k) ==
    /\ AgAt(k) = "run" /\ AgEnd(k)
    /\ UNCHANGED <<agAuth, agwin, agtodo>>

----------------------------------------------------------------------------
(* The owner                                                               *)

AgChange(revokes) ==
    /\ agchanges < AgMaxChanges /\ agchanges' = agchanges + 1
    /\ agtodo' = (agtodo \/ revokes)
    /\ UNCHANGED <<agcall, agwin>>

AgSetAccess(on) ==
    /\ agver # 0 /\ on # agon /\ agon' = on /\ agoffs' = (agoffs \/ ~on)
    /\ AgChange(~on)
    /\ UNCHANGED <<agver, agcur, agconf>>

\* A change of the target; FALSE: the connection is deleted.
AgEdit(kept) ==
    /\ agver \in 1 .. AgMaxVer - 1
    /\ agver' = IF kept THEN agver + 1 ELSE 0
    /\ agon' = (agon /\ kept) /\ agoffs' = (agoffs \/ ~kept)
    /\ AgChange(TRUE)
    /\ UNCHANGED <<agcur, agconf>>

AgCurate(list) ==
    /\ agver # 0 /\ list # agcur /\ agcur' = list
    /\ AgChange(TRUE)
    /\ UNCHANGED <<agon, agver, agconf, agoffs>>

AgSetConfirm(on) ==
    /\ agver # 0 /\ on # agconf /\ agconf' = on
    /\ AgChange(FALSE)
    /\ UNCHANGED <<agon, agver, agcur, agoffs>>

\* approvals.revoke: the window closes, the prompts that are there are refused.
AgRevoke ==
    /\ agtodo /\ agtodo' = FALSE /\ agwin' = NoWindow
    /\ agcall' = [k \in AgCalls |-> IF AgAt(k) = "asking" THEN NoAgCall ELSE agcall[k]]
    /\ UNCHANGED agAuth

AgNext ==
    \/ \E k \in AgCalls :
          \/ \E mode \in {"plain", "kept"} : AgCall(k, mode)
          \/ AgJudge(k) \/ AgEnter(k) \/ AgPark(k) \/ AgGate(k)
          \/ \E allow, window \in BOOLEAN : AgVerdict(k, allow, window)
          \/ AgAbandon(k) \/ AgVersion(k) \/ AgSwitch(k) \/ AgList(k) \/ AgDone(k)
    \/ \E b \in BOOLEAN : AgSetAccess(b) \/ AgEdit(b) \/ AgSetConfirm(b)
    \/ \E list \in Lists : AgCurate(list)
    \/ AgRevoke

AgSpec == AgInit /\ [][AgNext]_agVars

----------------------------------------------------------------------------
(* Properties                                                              *)

\* Type; and only a call that was asked about waits for the user.
AgTypeOK ==
    /\ agcall \in [AgCalls -> [pc : {"idle", "found", "judged", "parking", "gate", "asking", "version",
                                     "switch", "list", "run"},
                               mode : {"plain", "kept"}, ver : 0 .. AgMaxVer,
                               cur : Lists, asked : BOOLEAN, stale : BOOLEAN]]
    /\ agver \in 0 .. AgMaxVer /\ agcur \in Lists /\ {agon, agconf, agtodo, agoffs} \subseteq BOOLEAN
    /\ \A k \in AgCalls : AgAt(k) \in {"gate", "asking"} => agcall[k].asked

\* A call whose connection was edited or deleted before the user allowed it never runs,
\* whatever else happens in between; nor does one let through by a window.
AgNoStaleRun == \A k \in AgCalls : AgAt(k) = "run" => ~agcall[k].stale

\* An approval window does not cover what replaced the tool it was granted for: when it
\* does, the revocation, or a call that will close it, is still to come.  (A tool that
\* was switched off meanwhile is another matter: AgWindowOff.)
AgWindowCurrent ==
    agwin.open =>
       \/ agtodo
       \/ agwin.ver = agver /\ (agwin.cur = agcur \/ agoffs)
       \/ \E k \in AgCalls : /\ agcall[k].asked /\ AgAt(k) \in {"version", "switch", "list"}
                             /\ agcall[k].ver # agver \/ agcall[k].cur # agcur

\* Claimed: with the tool off, "an open window and a prompt already on screen both have
\* to go" - with the revocation done and no call under way, no window is open.
AgWindowOff ==
    ~agon /\ ~agtodo /\ (\A k \in AgCalls : AgAt(k) = "idle") => ~agwin.open

\* An agent's calls against policy changes: none runs, and no window stands, on
\* an answer given to another version of the connection.
AgentCallsSound ==
    /\ AgTypeOK
    /\ AgNoStaleRun
    /\ AgWindowCurrent
=============================================================================
