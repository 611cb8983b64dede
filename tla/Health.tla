------------------------------- MODULE Health -------------------------------
(***************************************************************************)
(* Last-known health of a connection: health.rs, and those that grade it   *)
(* (capability/http.rs, mcp_refresh.rs, broker.rs).                        *)
(*                                                                         *)
(* A recorder takes two locks in turn, one for the streak of rejections,   *)
(* one for the badges and their file, and reads the badge before it writes *)
(* it.  A new target is committed first; what was known of the old one is  *)
(* forgotten by a later call, under the same two locks in turn.  Calls of  *)
(* several tasks, tests by the user and changes of target interleave       *)
(* between all of these.                                                   *)
(***************************************************************************)
EXTENDS Naturals

CONSTANTS
    HlCalls,     \* recorders: brokered calls, tests, sign-ins and renewals under way
    HlNeed,      \* CREDENTIAL_REJECTION_CORROBORATION
    HlMaxVer,    \* bound: targets the connection has
    HlFaults     \* subset of {"write", "restart", "tamper"}

ASSUME HlAssumption == {HlNeed, HlMaxVer} \subseteq Nat \ {0}

VARIABLES
    hlcall,     \* the recorders: where, for which target, and with what verdict
    hlbadge,    \* map: the badge, and (history) what it was recorded on
    hlfile,     \* the sealed file
    hlstreak,   \* rejections: how many in a row
    hlver,      \* the target; 0: the connection is deleted
    hldue,      \* changes of target that forget was not yet called for
    hlhalf,     \* calls of forget between their two locks
    hllog,      \* history: the last HlNeed things that befell the streak
    hllost      \* history: the file is not what was last written to it, or is behind

hlVars == <<hlcall, hlbadge, hlfile, hlstreak, hlver, hldue, hlhalf, hllog, hllost>>

\* What befell the streak: a response was served, it was cleared, or a rejection of a
\* call to that target came in; torn: while the target had changed since the call
\* began, or the change was not yet forgotten.
Other == [what |-> "other", ver |-> 0, torn |-> FALSE]
NoLog == [i \in 1 .. HlNeed |-> Other]
Logged(e) == hllog' = [i \in 1 .. HlNeed |-> IF i = HlNeed THEN e ELSE hllog[i + 1]]

\* What the last HlNeed of them are worth to a call to a target that met the last:
\* too few rejections, or some torn, or of that target, or of several.
Worth(log, ver) ==
    IF \E i \in 1 .. HlNeed : log[i].what # "rejected" THEN "short"
    ELSE IF \E i \in 1 .. HlNeed : log[i].torn THEN "torn"
    ELSE IF \A i \in 1 .. HlNeed : log[i].ver = ver THEN "own" ELSE "mixed"

Badges == {"none", "ok", "failed", "amber"}
\* why: what it was recorded on: a verdict of its own, or rejections worth so much.
NoBadge == [st |-> "none", why |-> "settled"]
NoHlCall == [pc |-> "idle", ver |-> 0, verdict |-> "none", why |-> "settled"]

HlInit ==
    /\ hlcall = [k \in HlCalls |-> NoHlCall]
    /\ hlbadge = NoBadge /\ hlfile = NoBadge
    /\ hlstreak = 0 /\ hlver = 1 /\ hldue = 0 /\ hlhalf = 0 /\ hllog = NoLog /\ hllost = FALSE

\* record, forget: the map and its file, under one lock.  The write may fail.
HlWrite(badge) ==
    /\ hlbadge' = badge
    /\ \/ hlfile' = badge /\ hllost' = FALSE
       \/ "write" \in HlFaults /\ hllost' = TRUE /\ UNCHANGED hlfile

\* A recorder works on the connection as it found it.
HlBegin(k) ==
    /\ hlcall[k].pc = "idle" /\ hlver # 0
    /\ hlcall' = [hlcall EXCEPT ![k] = [NoHlCall EXCEPT !.pc = "dial", !.ver = hlver]]
    /\ UNCHANGED <<hlbadge, hlfile, hlstreak, hlver, hldue, hlhalf, hllog, hllost>>

\* The streak after a verdict: a rejection counts (up to where counting matters), a
\* served response ends it, a call that never got an answer says nothing.
Streak(verdict) ==
    IF verdict = "ok" THEN 0
    ELSE IF verdict = "rejected" /\ hlstreak < HlNeed THEN hlstreak + 1 ELSE hlstreak

Rejected(k) ==
    [what |-> "rejected", ver |-> hlcall[k].ver, torn |-> hlcall[k].ver # hlver \/ hldue > 0]

\* The badge of a verdict; a credential that cannot even be prepared is amber at once.
HlShown(verdict) == IF verdict \in {"rejected", "unready"} THEN "amber" ELSE verdict

\* record_relayed_health, record_upstream_failure_health, on the way to the badge: a
\* rejection is taken further only when corroborated.
HlAnswered(k, verdict) ==
    /\ hlcall[k].pc = "dial"
    /\ hlstreak' = Streak(verdict)
    /\ CASE verdict = "ok" -> Logged(Other)
         [] verdict = "rejected" -> Logged(Rejected(k))
         [] OTHER -> UNCHANGED hllog
    /\ hlcall' = [hlcall EXCEPT ![k] =
         IF verdict = "rejected" /\ hlstreak' < HlNeed THEN NoHlCall
         ELSE [NoHlCall EXCEPT !.pc = "graded", !.verdict = HlShown(verdict),
                 !.why = IF verdict = "rejected" THEN Worth(hllog', hlcall[k].ver) ELSE @]]
    /\ UNCHANGED <<hlbadge, hlfile, hlver, hldue, hlhalf, hllost>>

\* A test by the user settles it: the streak is forgotten, the verdict will be recorded.
HlTested(k, st) ==
    /\ hlcall[k].pc = "dial"
    /\ hlstreak' = 0 /\ Logged(Other)
    /\ hlcall' = [hlcall EXCEPT ![k] = [NoHlCall EXCEPT !.pc = "write", !.verdict = st]]
    /\ UNCHANGED <<hlbadge, hlfile, hlver, hldue, hlhalf, hllost>>

\* So does a sign-in that came through, or a renewal the provider refused; the streak
\* stays.
HlSettled(k, st) ==
    /\ hlcall[k].pc = "dial"
    /\ hlcall' = [hlcall EXCEPT ![k] = [NoHlCall EXCEPT !.pc = "write", !.verdict = st]]
    /\ UNCHANGED <<hlbadge, hlfile, hlstreak, hlver, hldue, hlhalf, hllog, hllost>>

\* record_ok_if_changed, record_if_changed: nothing to do when the badge says it already
\* (a failure or rejection may say it in other words).
HlCompare(k) ==
    /\ hlcall[k].pc = "graded"
    /\ \/ hlbadge.st = hlcall[k].verdict /\ hlcall' = [hlcall EXCEPT ![k] = NoHlCall]
       \/ /\ hlbadge.st # hlcall[k].verdict \/ hlcall[k].verdict # "ok"
          /\ hlcall' = [hlcall EXCEPT ![k].pc = "write"]
    /\ UNCHANGED <<hlbadge, hlfile, hlstreak, hlver, hldue, hlhalf, hllog, hllost>>

Verdict(k) ==
    [st |-> hlcall[k].verdict, why |-> hlcall[k].why]

HlRecord(k) ==
    /\ hlcall[k].pc = "write"
    /\ HlWrite(Verdict(k))
    /\ hlcall' = [hlcall EXCEPT ![k] = NoHlCall]
    /\ UNCHANGED <<hlstreak, hlver, hldue, hlhalf, hllog>>

\* An edit commits another target, or the connection is deleted; forget is called for
\* it by whoever applies the outbox of that commit.
HlRetarget ==
    /\ hlver # 0 /\ hlver' \in {0, hlver + 1} /\ hlver' <= HlMaxVer
    /\ hldue' = hldue + 1
    /\ UNCHANGED <<hlcall, hlbadge, hlfile, hlstreak, hlhalf, hllog, hllost>>

\* Mutant: forget drops the badge only.
HlForgetBadgeOnly ==
    /\ hldue > 0
    /\ hldue' = hldue - 1 /\ hlhalf' = hlhalf + 1
    /\ UNCHANGED <<hlcall, hlbadge, hlfile, hlstreak, hlver, hllog, hllost>>

\* forget: the streak ...
HlForgetStreak ==
    /\ hldue > 0
    /\ hldue' = hldue - 1 /\ hlhalf' = hlhalf + 1
    /\ hlstreak' = 0 /\ Logged(Other)
    /\ UNCHANGED <<hlcall, hlbadge, hlfile, hlver, hllost>>

\* ... and the badge, with its file if there was one.
HlForgetBadge ==
    /\ hlhalf > 0 /\ hlhalf' = hlhalf - 1
    /\ IF hlbadge = NoBadge THEN UNCHANGED <<hlbadge, hlfile, hllost>> ELSE HlWrite(NoBadge)
    /\ UNCHANGED <<hlcall, hlstreak, hlver, hldue, hllog>>

\* Anyone may change the file; open discards what does not verify.
HlTamper ==
    /\ "tamper" \in HlFaults
    /\ hlfile' = NoBadge /\ hllost' = TRUE
    /\ UNCHANGED <<hlcall, hlbadge, hlstreak, hlver, hldue, hlhalf, hllog>>

\* The broker stops at any point and is started again: what it was about to record or
\* to forget is gone.
HlRestart ==
    /\ "restart" \in HlFaults
    /\ hlbadge' = hlfile /\ hllost' = FALSE
    /\ hlstreak' = 0 /\ Logged(Other) /\ hldue' = 0 /\ hlhalf' = 0
    /\ hlcall' = [k \in HlCalls |-> NoHlCall]
    /\ UNCHANGED <<hlfile, hlver>>

HlNext ==
    \/ \E k \in HlCalls :
          \/ HlBegin(k) \/ HlCompare(k) \/ HlRecord(k)
          \/ \E verdict \in {"ok", "failed", "rejected", "unready"} : HlAnswered(k, verdict)
          \/ \E st \in {"ok", "failed", "amber"} : HlTested(k, st)
          \/ \E st \in {"ok", "amber"} : HlSettled(k, st)
    \/ HlRetarget \/ HlForgetStreak \/ HlForgetBadge
    \/ HlTamper \/ HlRestart

HlSpec == HlInit /\ [][HlNext]_hlVars

----------------------------------------------------------------------------
(* Properties                                                              *)

\* Type, and what is on disk is what the badge says, however recorders interleave,
\* unless the last write failed: a restart shows the same.
HlFileFollows ==
    /\ hlbadge.st \in Badges
    /\ hlstreak \in 0 .. HlNeed
    /\ hllost \/ hlfile = hlbadge

\* Rejections met in passing turn the badge amber only when CREDENTIAL_REJECTION_
\* CORROBORATION of them came in a row, with no served response, no test and no change
\* of target forgotten between them; and they were of calls to one target, the badge's,
\* unless one of them came in torn: a call that outlived its target, or a new target
\* whose predecessor was not forgotten yet.
HlCorroborated == hlbadge.why \in {"settled", "own", "torn"}

\* Health badges: the file follows the memory, and a badge turns on a streak.
HealthSound ==
    /\ HlFileFollows
    /\ HlCorroborated
=============================================================================
