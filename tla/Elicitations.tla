---------------------------- MODULE Elicitations ----------------------------
(***************************************************************************)
(* Upstream questions to the user (elicitations.rs): an MCP tool answers   *)
(* that it needs input; the broker mints a permit for the exact prompt     *)
(* (daemon attach_elicitation_permits), the MCP host redeems it            *)
(* (post_elicit) and waits for the user's answer, a deadline, the switch   *)
(* of the connection, or the end of the request it belongs to.             *)
(*                                                                         *)
(* One connection; a question is named by its correlation token.  What the *)
(* registry does under its lock is one step, what it does after the unlock *)
(* (the history, the answer to the waiter) are later ones.                 *)
(***************************************************************************)
EXTENDS Naturals, Sequences, FiniteSets

CONSTANTS
    ElToks,         \* questions
    ElMaxPermits,   \* MAX_PERMITS
    ElMaxPending,   \* MAX_PENDING
    ElSwitches      \* how often the user may switch the connection

ASSUME ElAssumption ==
    ElMaxPermits \in Nat \ {0} /\ ElMaxPending \in Nat /\ ElSwitches \in Nat

VARIABLES
    elperm,     \* permits, oldest first
    elcall,     \* question -> where the request that asked it is
    elpend,     \* questions parked for the user
    eldue,      \* questions whose deadline has passed
    elout,      \* question -> answer and resolution on their way after the unlock
    elbox,      \* question -> what was sent to the waiter
    elhist,     \* question -> its record in the request history
    elheard,    \* question -> what post_elicit answered
    elon,       \* the connection is enabled
    elrev,      \* questions a revocation has collected
    elswitch,   \* switches so far
    eldec,      \* question -> the answer it was removed with: history
    elraced     \* questions removed before their record was made: history

elVars == <<elperm, elcall, elpend, eldue, elout, elbox, elhist, elheard, elon,
            elrev, elswitch, eldec, elraced>>

ElRange(s) == {s[i] : i \in DOMAIN s}
NoOut == [ans |-> "none", as |-> "none", stage |-> "none"]

ElInit ==
    /\ elperm = <<>> /\ elpend = {} /\ eldue = {} /\ elrev = {} /\ elraced = {}
    /\ elcall = [k \in ElToks |-> "new"]
    /\ elout = [k \in ElToks |-> NoOut]
    /\ elbox = [k \in ElToks |-> "none"]
    /\ elhist = [k \in ElToks |-> "none"]
    /\ elheard = [k \in ElToks |-> "none"]
    /\ eldec = [k \in ElToks |-> "none"]
    /\ elon = TRUE /\ elswitch = 0

----------------------------------------------------------------------------
(* Permits                                                                 *)

\* The permits but k, which was issued once.
ElWithout(s, k) ==
    LET at == CHOOSE i \in DOMAIN s : s[i] = k
    IN IF k \notin ElRange(s) THEN s
       ELSE [i \in 1 .. Len(s) - 1 |-> IF i < at THEN s[i] ELSE s[i + 1]]

\* attach_elicitation_permits and issue: the upstream asked; a full table gives
\* up its oldest permit.
ElIssue(k) ==
    /\ elcall[k] = "new"
    /\ elperm' = Append(IF Len(elperm) >= ElMaxPermits THEN Tail(elperm) ELSE elperm, k)
    /\ elcall' = [elcall EXCEPT ![k] = "issued"]
    /\ UNCHANGED <<elpend, eldue, elout, elbox, elhist, elheard, elon, elrev, elswitch,
                   eldec, elraced>>

\* PERMIT_TTL: the oldest goes first.
ElExpire ==
    /\ elperm # <<>>
    /\ elperm' = Tail(elperm)
    /\ UNCHANGED <<elcall, elpend, eldue, elout, elbox, elhist, elheard, elon, elrev,
                   elswitch, eldec, elraced>>

Told(k, what) ==
    /\ elcall' = [elcall EXCEPT ![k] = "done"]
    /\ elheard' = [elheard EXCEPT ![k] = what]

\* post_elicit up to the access check.
ElAsk(k) ==
    /\ elcall[k] = "issued"
    /\ IF elon THEN elcall' = [elcall EXCEPT ![k] = "allowed"] /\ UNCHANGED elheard
       ELSE Told(k, "cancel")
    /\ UNCHANGED <<elperm, elpend, eldue, elout, elbox, elhist, elon, elrev, elswitch,
                   eldec, elraced>>

\* consume: a permit is redeemed once; without one the question is refused.
ElRedeem(k) ==
    /\ elcall[k] = "allowed"
    /\ elperm' = ElWithout(elperm, k)
    /\ IF k \in ElRange(elperm)
       THEN elcall' = [elcall EXCEPT ![k] = "redeemed"] /\ UNCHANGED elheard
       ELSE Told(k, "cancel")
    /\ UNCHANGED <<elpend, eldue, elout, elbox, elhist, elon, elrev, elswitch, eldec,
                   elraced>>

----------------------------------------------------------------------------
(* The registry                                                            *)

\* Mutant: an answer does not take the prompt out of the queue.
RemoveNot(ks, ans, as) ==
    /\ elout' = [k \in ElToks |->
          IF k \in ks THEN [ans |-> ans, as |-> as[k], stage |-> "history"] ELSE elout[k]]
    /\ eldec' = [k \in ElToks |-> IF k \in ks THEN ans ELSE eldec[k]]
    /\ UNCHANGED <<elpend, elraced>>

\* A prompt leaves the queue with an answer; the history and the waiter learn
\* of it after the unlock.
Remove(ks, ans, as) ==
    /\ elpend' = elpend \ ks
    /\ elout' = [k \in ElToks |->
          IF k \in ks THEN [ans |-> ans, as |-> as[k], stage |-> "history"] ELSE elout[k]]
    /\ eldec' = [k \in ElToks |-> IF k \in ks THEN ans ELSE eldec[k]]
    /\ elraced' = elraced \cup {k \in ks : elhist[k] = "none"}

\* sweep: prompts past their deadline, and those whose caller has gone.
Swept == {k \in elpend : k \in eldue \/ elcall[k] = "gone"}

Lapsed(ks) == [k \in ElToks |-> IF k \in eldue THEN "timed_out" ELSE "disconnected"]

\* pending(), and the beginning of elicit(): the sweep.
ElSweep ==
    /\ Swept # {}
    /\ Remove(Swept, "cancel", Lapsed(Swept))
    /\ UNCHANGED <<elperm, elcall, eldue, elbox, elhist, elheard, elon, elrev, elswitch>>

\* elicit(), under the lock: a full queue cancels the question, after the sweep.
ElPark(k) ==
    /\ elcall[k] = "redeemed" /\ Swept = {}
    /\ IF Cardinality(elpend) >= ElMaxPending
       THEN Told(k, "cancel") /\ UNCHANGED elpend
       ELSE /\ elpend' = elpend \cup {k}
            /\ elcall' = [elcall EXCEPT ![k] = "parked"]
            /\ UNCHANGED elheard
    /\ UNCHANGED <<elperm, eldue, elout, elbox, elhist, elon, elrev, elswitch, eldec,
                   elraced>>

\* elicit(), after the unlock: the history record.
ElRecord(k) ==
    /\ elcall[k] = "parked"
    /\ elhist' = [elhist EXCEPT ![k] = "pending"]
    /\ elcall' = [elcall EXCEPT ![k] = "recorded"]
    /\ UNCHANGED <<elperm, elpend, eldue, elout, elbox, elheard, elon, elrev, elswitch,
                   eldec, elraced>>

\* elicit(), the shell takes the prompt, and the deadline's task starts; or no
\* shell is there, and the prompt is withdrawn.
ElPublish(k) ==
    /\ elcall[k] = "recorded"
    /\ \/ /\ elcall' = [elcall EXCEPT ![k] = "waiting"]
          /\ UNCHANGED <<elpend, elout, eldec, elraced, elheard>>
       \/ /\ IF k \in elpend
             THEN Remove({k}, "cancel", [q \in ElToks |-> "no_surface"])
             ELSE UNCHANGED <<elpend, elout, eldec, elraced>>
          /\ Told(k, "cancel")
    /\ UNCHANGED <<elperm, eldue, elbox, elhist, elon, elrev, elswitch>>

\* respond(): the user accepts with values or declines; only what is parked.
ElRespond(k, ans) ==
    /\ k \in elpend
    /\ Remove({k}, ans, [q \in ElToks |-> IF ans = "accept" THEN "provided" ELSE "refused"])
    /\ UNCHANGED <<elperm, elcall, eldue, elbox, elhist, elheard, elon, elrev, elswitch>>

\* resolve(): a revocation reaches a prompt it collected.
ElRevoked(k) ==
    /\ k \in elrev
    /\ elrev' = elrev \ {k}
    /\ IF k \in elpend THEN Remove({k}, "cancel", [q \in ElToks |-> "policy_changed"])
       ELSE UNCHANGED <<elpend, elout, eldec, elraced>>
    /\ UNCHANGED <<elperm, elcall, eldue, elbox, elhist, elheard, elon, elswitch>>

\* The deadline passes; its task resolves the prompt.
ElDeadline(k) ==
    /\ elcall[k] \in {"waiting", "gone"} /\ k \in elpend /\ k \notin eldue
    /\ eldue' = eldue \cup {k}
    /\ UNCHANGED <<elperm, elcall, elpend, elout, elbox, elhist, elheard, elon, elrev,
                   elswitch, eldec, elraced>>

\* Mutant: the deadline's task is not started.
ElTimerNever(k) == FALSE /\ UNCHANGED elVars

ElTimer(k) ==
    /\ k \in eldue /\ k \in elpend
    /\ Remove({k}, "cancel", [q \in ElToks |-> "timed_out"])
    /\ UNCHANGED <<elperm, elcall, eldue, elbox, elhist, elheard, elon, elrev, elswitch>>

\* RequestHistory::resolve: only a pending record is resolved, once.
ElSettled(k) == IF elhist[k] = "pending" THEN elout[k].as ELSE elhist[k]

\* After the unlock, first the history, then the waiter.
ElSettle(k) ==
    /\ elout[k].stage = "history"
    /\ elhist' = [elhist EXCEPT ![k] = ElSettled(k)]
    /\ elout' = [elout EXCEPT ![k].stage = "send"]
    /\ UNCHANGED <<elperm, elcall, elpend, eldue, elbox, elheard, elon, elrev, elswitch,
                   eldec, elraced>>

\* Mutant: the waiter of a prompt that is not accepted hears nothing.
ElSendAccepted(k) ==
    /\ elout[k].stage = "send"
    /\ elbox' = [elbox EXCEPT ![k] = IF elout[k].ans = "cancel" THEN @ ELSE elout[k].ans]
    /\ elout' = [elout EXCEPT ![k] = NoOut]
    /\ UNCHANGED <<elperm, elcall, elpend, eldue, elhist, elheard, elon, elrev, elswitch,
                   eldec, elraced>>

ElSend(k) ==
    /\ elout[k].stage = "send"
    /\ elbox' = [elbox EXCEPT ![k] = elout[k].ans]
    /\ elout' = [elout EXCEPT ![k] = NoOut]
    /\ UNCHANGED <<elperm, elcall, elpend, eldue, elhist, elheard, elon, elrev, elswitch,
                   eldec, elraced>>

----------------------------------------------------------------------------
(* The caller                                                              *)

\* The answer arrives before the deadline.
ElHear(k) ==
    /\ elcall[k] = "waiting" /\ elbox[k] # "none"
    /\ Told(k, elbox[k])
    /\ UNCHANGED <<elperm, elpend, eldue, elout, elbox, elhist, elon, elrev, elswitch,
                   eldec, elraced>>

\* The caller's own deadline: it resolves the prompt, if it is still there, and
\* cancels.
ElTimeout(k) ==
    /\ elcall[k] = "waiting" /\ elbox[k] = "none"
    /\ eldue' = eldue \cup {k}
    /\ IF k \in elpend THEN Remove({k}, "cancel", [q \in ElToks |-> "timed_out"])
       ELSE UNCHANGED <<elpend, elout, eldec, elraced>>
    /\ Told(k, "cancel")
    /\ UNCHANGED <<elperm, elbox, elhist, elon, elrev, elswitch>>

\* The MCP request is cancelled or its client disconnects: the waiting future is
\* dropped where it stands.
ElDrop(k) ==
    /\ elcall[k] \in {"issued", "waiting"}
    /\ elcall' = [elcall EXCEPT ![k] = "gone"]
    /\ UNCHANGED <<elperm, elpend, eldue, elout, elbox, elhist, elheard, elon, elrev,
                   elswitch, eldec, elraced>>

\* post_cancel_elicit for a cancelled request: the permit, or else the prompt;
\* refused when the connection is off.
ElCancel(k) ==
    /\ elcall[k] = "gone" /\ elon
    /\ \/ /\ k \in ElRange(elperm)
          /\ elperm' = ElWithout(elperm, k)
          /\ UNCHANGED <<elpend, elout, eldec, elraced>>
       \/ /\ k \in elpend
          /\ Remove({k}, "cancel", [q \in ElToks |-> "disconnected"])
          /\ UNCHANGED elperm
    /\ UNCHANGED <<elcall, eldue, elbox, elhist, elheard, elon, elrev, elswitch>>

\* The connection is switched; going off, or the broker going down, collects
\* what is parked (revoke, revoke_all).
ElSwitch ==
    /\ elswitch < ElSwitches
    /\ elswitch' = elswitch + 1
    /\ elon' = ~elon
    /\ elrev' = IF elon THEN elrev \cup elpend ELSE elrev
    /\ UNCHANGED <<elperm, elcall, elpend, eldue, elout, elbox, elhist, elheard, eldec,
                   elraced>>

----------------------------------------------------------------------------
ElWork(k) ==
    \/ ElAsk(k) \/ ElRedeem(k) \/ ElPark(k) \/ ElRecord(k) \/ ElPublish(k)
    \/ ElSettle(k) \/ ElSend(k) \/ ElHear(k) \/ ElTimeout(k) \/ ElRevoked(k) \/ ElTimer(k)

ElNext ==
    \/ ElExpire \/ ElSweep \/ ElSwitch
    \/ \E k \in ElToks :
          \/ ElWork(k) \/ ElIssue(k) \/ ElDeadline(k) \/ ElDrop(k) \/ ElCancel(k)
          \/ \E ans \in {"accept", "decline"} : ElRespond(k, ans)

\* Tasks run, deadlines pass.
ElFairness ==
    \A k \in ElToks : WF_elVars(ElWork(k)) /\ WF_elVars(ElDeadline(k))

ElSpec == ElInit /\ [][ElNext]_elVars

ElFairSpec == ElSpec /\ ElFairness

----------------------------------------------------------------------------
(* Properties                                                              *)

ElAnswers == {"accept", "decline", "cancel"}
ElRecords == {"none", "pending", "timed_out", "disconnected", "no_surface", "provided",
              "refused", "policy_changed"}
ElPlaces == {"new", "issued", "allowed", "redeemed", "parked", "recorded", "waiting",
             "done", "gone"}

\* Shape of the state; the tables stay within their limits.
ElTypeOK ==
    /\ ElRange(elperm) \subseteq ElToks /\ Len(elperm) <= ElMaxPermits
    /\ elpend \subseteq ElToks /\ Cardinality(elpend) <= ElMaxPending
    /\ eldue \subseteq ElToks /\ elrev \subseteq ElToks /\ elraced \subseteq ElToks
    /\ elcall \in [ElToks -> ElPlaces]
    /\ elbox \in [ElToks -> ElAnswers \cup {"none"}]
    /\ eldec \in [ElToks -> ElAnswers \cup {"none"}]
    /\ elheard \in [ElToks -> ElAnswers \cup {"none"}]
    /\ elhist \in [ElToks -> ElRecords]
    /\ elon \in BOOLEAN /\ elswitch \in 0..ElSwitches

\* The upstream is told "accept" or "decline" only when the history the user
\* reads says so too: a timeout, a revocation, a sweep or a cancelled request that
\* races with the answer never turns one into the other.
ElHistoryAgrees ==
    \A k \in ElToks \ elraced :
        /\ elheard[k] = "accept" => elhist[k] = "provided"
        /\ elheard[k] = "decline" => elhist[k] = "refused"

\* A prompt that has left the queue does not stay open in the history, and one
\* that is open is in the queue or on its way out, unless it was removed in the
\* moment before its record was made.
ElHistoryClosed ==
    \A k \in ElToks \ elraced :
        elhist[k] = "pending" => k \in elpend \/ elout[k].stage = "history"

\* The question a caller waits on is parked, on its way out, or answered: no
\* caller waits for an answer nobody can give.
ElNobodyForgotten ==
    \A k \in ElToks :
        elcall[k] = "waiting" =>
            k \in elpend \/ elout[k].stage # "none" \/ elbox[k] # "none"

\* The registry keeps the promise of Prompts.
ElPrompts == INSTANCE Prompts WITH
    Questions <- ElToks,
    asked <- {k \in ElToks : k \in elpend \/ eldec[k] # "none"},
    verdict <- eldec,
    told <- [k \in ElToks |-> elheard[k]]

\* A question is put once, decided once and answered once, and answered with the
\* user's words only if they are the user's words.
ElKeepsPromise == ElPrompts!Spec

\* Every prompt leaves the queue and every caller gets an answer, whether or not
\* the user, the shell or the agent ever comes back.
ElAllEnd ==
    /\ \A k \in ElToks : k \in elpend ~> k \notin elpend
    /\ \A k \in ElToks : elcall[k] = "waiting" ~> elcall[k] \in {"done", "gone"}

\* Prompts of upstreams: what the history records is what the call was told, and
\* no call waits for an answer that can no longer come.
ElicitationsSound ==
    /\ ElTypeOK
    /\ ElHistoryAgrees
    /\ ElHistoryClosed
    /\ ElNobodyForgotten
=============================================================================
