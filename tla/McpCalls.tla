------------------------------ MODULE McpCalls ------------------------------
(***************************************************************************)
(* The calls an MCP session has under way (mcp_host.rs): the table that    *)
(* makes them cancellable, the rounds of an upstream operation, which may  *)
(* ask the user for input, and what a cancellation passes on.              *)
(*                                                                         *)
(* Every round opens a session at the upstream server and closes it.  A    *)
(* cancellation ends the call at whatever it waits for; what it must undo  *)
(* upstream it learns from the table.                                      *)
(***************************************************************************)
EXTENDS Naturals, FiniteSets

CONSTANTS
    CaCalls,        \* calls (tools/call, resources/read, prompts/get, ...)
    CaIds,          \* request ids of the client
    CaRounds,       \* MAX_ROUNDS
    CaPrompts,      \* bound on the input requests of one round
    CaFaults        \* subset of {"drop", "dup", "close", "init"}

ASSUME CaAssumption ==
    /\ "none" \notin CaCalls \cup CaIds
    /\ CaRounds \in Nat \ {0} /\ CaPrompts \in Nat
    /\ CaFaults \subseteq {"drop", "dup", "close", "init"}

VARIABLES
    cacall,     \* the calls
    caact,      \* active_requests: id -> entry
    caopen,     \* sessions open at the server: <<call, round>>
    carun,      \* requests the server works on and was not told to stop
    cajobs,     \* what cancellations still pass on
    calost      \* history: sessions whose end nobody could have brought about

caVars == <<cacall, caact, caopen, carun, cajobs, calost>>

\* A call: where it is, its id, its round, whether it knows its upstream session,
\* the input requests left to answer, whether one of this round was declined,
\* whether that has been forwarded, and the signal it was sent, with where it was
\* then.
NoSignal == [by |-> "none", at |-> "none"]
NoCall == [pc |-> "none", id |-> "none", round |-> 0, sess |-> FALSE, res |-> "none", left |-> 0,
           term |-> FALSE, fwd |-> FALSE, sig |-> NoSignal]
CaNoEntry == [st |-> "none", owner |-> "none", ups |-> {}]

CaInit ==
    /\ cacall = [k \in CaCalls |-> NoCall]
    /\ caact = [i \in CaIds |-> CaNoEntry]
    /\ caopen = {} /\ carun = {} /\ cajobs = {} /\ calost = {}

Sess(k) == <<k, cacall[k].round>>
Left(k) == {Sess(k)} \cap (caopen \cup carun)
Over == {"none", "done", "cancelled", "dropped"}
Running(k) == cacall[k].pc \notin Over

\* At that point of a call the server's session is in nobody's books: its id has
\* not come back, or no request of it is recorded.
Blind(pc) == pc \in {"initing", "ready", "closing"}

----------------------------------------------------------------------------
(* The table                                                               *)

\* The entry of an id is overwritten or removed, and the sender in it dropped: the
\* call it belongs to hears that as its cancellation.
SenderGone(i) == [x \in CaCalls |->
    IF caact[i].owner = x /\ Running(x) /\ cacall[x].sig = NoSignal
    THEN [cacall[x] EXCEPT !.sig = [by |-> "replaced", at |-> cacall[x].pc]] ELSE cacall[x]]

\* run_cancellable registers the call under its id.  A client that reuses the id of
\* a call under way takes the older call's place.
CaBegin(k, i) ==
    /\ cacall[k].pc = "none"
    /\ caact[i].st = "live" => "dup" \in CaFaults
    /\ cacall' = [SenderGone(i) EXCEPT ![k] = [NoCall EXCEPT !.pc = "start", !.id = i, !.round = 1]]
    /\ caact' = [caact EXCEPT ![i] = [st |-> "live", owner |-> k, ups |-> {}]]
    /\ UNCHANGED <<caopen, carun, cajobs, calost>>

\* record_upstream_cancellation, clear_upstream_cancellation: by the id the call
\* runs under, whoever has the entry now.
Record(k, s) ==
    LET i == cacall[k].id IN
    IF caact[i].st = "none" THEN caact ELSE [caact EXCEPT ![i].ups = @ \cup {s}]
Clear(k, s) ==
    LET i == cacall[k].id IN
    IF caact[i].st = "none" THEN caact ELSE [caact EXCEPT ![i].ups = @ \ {s}]

\* The end of run_cancellable removes what the id names, which is a newer call's
\* entry when the id was reused: that call is cancelled with it, and nothing of it
\* can be passed on any more.
Unregister(k, as) ==
    /\ caact' = [caact EXCEPT ![cacall[k].id] = CaNoEntry]
    /\ cacall' = [SenderGone(cacall[k].id) EXCEPT ![k] = [NoCall EXCEPT !.pc = as, !.id = cacall[k].id]]

\* cancel_active_request: the call is signalled, once, and what the table has of
\* it is passed on by a task of its own, as often as the client repeats itself.
CaCancel(i) ==
    /\ caact[i].st # "none"
    /\ cacall' = [k \in CaCalls |->
         IF k = caact[i].owner /\ Running(k) /\ cacall[k].sig = NoSignal
         THEN [cacall[k] EXCEPT !.sig = [by |-> "cancel", at |-> cacall[k].pc]] ELSE cacall[k]]
    /\ caact' = [caact EXCEPT ![i].st = "cancelled"]
    /\ cajobs' = cajobs \cup caact[i].ups
    /\ UNCHANGED <<caopen, carun, calost>>

\* forward_upstream_cancellation: notifications/cancelled, then DELETE of the
\* session when it is known.
CaForward(s) ==
    /\ s \in cajobs
    /\ cajobs' = cajobs \ {s}
    /\ carun' = carun \ {<<s[1], s[2]>>}
    /\ caopen' = IF s[3] THEN caopen \ {<<s[1], s[2]>>} ELSE caopen
    /\ UNCHANGED <<cacall, caact, calost>>

\* The select! of run_cancellable takes the signal: the call ends where it is.
CaCancelled(k) ==
    /\ Running(k) /\ cacall[k].sig # NoSignal /\ cacall[k].pc # "ending"
    /\ Unregister(k, "cancelled")
    /\ calost' = IF cacall[k].sig # [by |-> "cancel", at |-> "calling"] \/ Blind(cacall[k].pc)
                 THEN calost \cup Left(k) ELSE calost
    /\ UNCHANGED <<caopen, carun, cajobs>>

\* The client goes away: its handler is dropped, the entry stays.
CaDrop(k) ==
    /\ "drop" \in CaFaults /\ Running(k)
    /\ cacall' = [cacall EXCEPT ![k] = [NoCall EXCEPT !.pc = "dropped", !.id = cacall[k].id]]
    /\ calost' = calost \cup Left(k)
    /\ UNCHANGED <<caact, caopen, carun, cajobs>>

----------------------------------------------------------------------------
(* upstream_operation                                                      *)

\* A call that was signalled takes at most the step that was due.
At(k, pc) == cacall[k].pc = pc /\ (cacall[k].sig = NoSignal \/ cacall[k].sig.at = pc)
Go(k, pc) == cacall' = [cacall EXCEPT ![k].pc = pc]

\* read_resource, get_prompt: no binding of the session's catalog answers to the
\* name; the call is refused here.
CaUnbound(k) ==
    /\ At(k, "start") /\ cacall[k].round = 1
    /\ Go(k, "ending")
    /\ UNCHANGED <<caact, caopen, carun, cajobs, calost>>

\* UpstreamClient::initialize: the request is recorded without a session, the
\* server may open one.
CaInitialize(k) ==
    /\ At(k, "start")
    /\ Go(k, "initing")
    /\ caact' = Record(k, <<k, cacall[k].round, FALSE>>)
    /\ caopen' \in {caopen, caopen \cup {Sess(k)}}
    /\ UNCHANGED <<carun, cajobs, calost>>

\* Its answer: with it the id of the session; or a failure that may have left one.
CaInitialized(k) ==
    /\ At(k, "initing")
    /\ caact' = Clear(k, <<k, cacall[k].round, FALSE>>)
    /\ \/ /\ cacall' = [cacall EXCEPT ![k].pc = "ready", ![k].sess = Sess(k) \in caopen]
          /\ UNCHANGED calost
       \/ /\ "init" \in CaFaults
          /\ cacall' = [cacall EXCEPT ![k].pc = "closing", ![k].res = "failed"]
          /\ calost' = calost \cup Left(k)
    /\ UNCHANGED <<caopen, carun, cajobs>>

\* notifications/initialized went out; the call itself is recorded and sent.
CaRequest(k) ==
    /\ At(k, "ready")
    /\ Go(k, "calling")
    /\ caact' = Record(k, <<k, cacall[k].round, cacall[k].sess>>)
    /\ carun' = carun \cup {Sess(k)}
    /\ UNCHANGED <<caopen, cajobs, calost>>

\* The answer: a result, an error, or a request for input.
CaReply(k) ==
    /\ At(k, "calling")
    /\ \E res \in {"result", "failed"} \cup {"input"} : \E n \in 0..CaPrompts :
         /\ res # "input" => n = 0
         /\ cacall' = [cacall EXCEPT ![k].pc = "closing", ![k].res = res, ![k].left = n]
    /\ caact' = Clear(k, <<k, cacall[k].round, cacall[k].sess>>)
    /\ carun' = carun \ {Sess(k)}
    /\ UNCHANGED <<caopen, cajobs, calost>>

\* The call is answered with what of the result may be passed on, and taken off
\* the table; nothing is awaited here.
CaFinish(k) ==
    /\ cacall[k].pc = "ending"
    /\ Unregister(k, "done")
    /\ UNCHANGED <<caopen, carun, cajobs, calost>>

\* All input requests are answered: the next round, if one is left.
NextRound(c) ==
    IF c.round = CaRounds THEN [c EXCEPT !.pc = "ending"]
    ELSE [c EXCEPT !.pc = "start", !.round = @ + 1, !.res = "none", !.sess = FALSE,
                   !.fwd = c.term, !.term = FALSE, !.left = 0]

\* The round asks for input that will be sought: not once an answer that ended the
\* flow has been forwarded.
WantsInput(c) == c.res = "input" /\ ~c.fwd

\* After the round: the end, or its input requests.  A request for input that is
\* empty carries a state to the next round, or is handed back as a result.
AfterRound(c) ==
    IF ~WantsInput(c) THEN {[c EXCEPT !.pc = "ending"]}
    ELSE IF c.left = 0 THEN {[c EXCEPT !.pc = "ending"], NextRound(c)}
    ELSE {[c EXCEPT !.pc = "asking"]}

\* Mutant: what failed is not closed.
CloseOnSuccess(k) ==
    /\ At(k, "closing")
    /\ \E c \in AfterRound(cacall[k]) : cacall' = [cacall EXCEPT ![k] = c]
    /\ caopen' = IF cacall[k].sess /\ cacall[k].res # "failed" THEN caopen \ {Sess(k)} ELSE caopen
    /\ UNCHANGED <<caact, carun, cajobs, calost>>

\* client.close, after every round, whatever came of it.
CaClose(k) ==
    /\ At(k, "closing")
    /\ \E c \in AfterRound(cacall[k]) : cacall' = [cacall EXCEPT ![k] = c]
    /\ \/ /\ caopen' = IF cacall[k].sess THEN caopen \ {Sess(k)} ELSE caopen
          /\ UNCHANGED calost
       \/ /\ "close" \in CaFaults /\ cacall[k].sess
          /\ calost' = calost \cup Left(k)
          /\ UNCHANGED caopen
    /\ UNCHANGED <<caact, carun, cajobs>>

\* One input request: what is not an elicitation is declined at once; the user's
\* answer may accept, decline or cancel.  (The prompt itself is the module
\* Elicitations; it goes when its caller does.)
CaInput(k) ==
    /\ At(k, "asking")
    /\ \E t \in BOOLEAN :
         LET c == [cacall[k] EXCEPT !.left = @ - 1, !.term = @ \/ t] IN
         cacall' = [cacall EXCEPT ![k] = IF c.left = 0 THEN NextRound(c) ELSE c]
    /\ UNCHANGED <<caact, caopen, carun, cajobs, calost>>

\* The broker refuses to ask.
CaInputRefused(k) ==
    /\ At(k, "asking")
    /\ Go(k, "ending")
    /\ UNCHANGED <<caact, caopen, carun, cajobs, calost>>

\* Mutant: the budget ends no wait for the user.
BudgetOfRounds(k) ==
    /\ \E pc \in {"initing", "calling"} : At(k, pc)
    /\ cacall' = [cacall EXCEPT ![k].pc = "closing", ![k].res = "failed"]
    /\ calost' = IF At(k, "initing") THEN calost \cup Left(k) ELSE calost
    /\ carun' = carun \ {Sess(k)}
    /\ UNCHANGED <<caact, caopen, cajobs>>

\* TOTAL_BUDGET is spent: the request under way is given up, its session closed.
CaBudget(k) ==
    /\ \E pc \in {"initing", "calling", "asking"} : At(k, pc)
    /\ IF cacall[k].pc = "asking" THEN Go(k, "ending")
       ELSE cacall' = [cacall EXCEPT ![k].pc = "closing", ![k].res = "failed"]
    /\ calost' = IF At(k, "initing") THEN calost \cup Left(k) ELSE calost
    /\ carun' = carun \ {Sess(k)}
    /\ UNCHANGED <<caact, caopen, cajobs>>

\* What the broker does of itself, and what it waits for others to do.
CaOwn(k) ==
    \/ CaUnbound(k) \/ CaInitialize(k) \/ CaRequest(k) \/ CaClose(k) \/ CaFinish(k) \/ CaBudget(k)
    \/ CaCancelled(k)
CaOthers(k) ==
    \/ CaInitialized(k) \/ CaReply(k) \/ CaInput(k) \/ CaInputRefused(k) \/ CaDrop(k)

CaNext ==
    \/ \E k \in CaCalls, i \in CaIds : CaBegin(k, i)
    \/ \E k \in CaCalls : CaOwn(k) \/ CaOthers(k)
    \/ \E i \in CaIds : CaCancel(i)
    \/ \E s \in cajobs : CaForward(s)

CaSpec == CaInit /\ [][CaNext]_caVars

\* The runtime polls every task and the budget's timer fires; the server and the
\* user may stay silent.
CaFairness == \A k \in CaCalls : WF_caVars(CaOwn(k))

CaFairSpec == CaSpec /\ CaFairness

----------------------------------------------------------------------------
(* Properties                                                              *)

\* Rounds and input requests stay within their bounds, and an entry of the table
\* names a call that runs under its id, or one whose client went away.
CaTypeOK ==
    /\ \A k \in CaCalls : cacall[k].round <= CaRounds /\ cacall[k].left <= CaPrompts
    /\ \A i \in CaIds : caact[i].owner \in CaCalls =>
         /\ cacall[caact[i].owner].id = i
         /\ cacall[caact[i].owner].pc \notin {"none", "done", "cancelled"}

\* No upstream session is left open: one that is open belongs to a round under way
\* or will be closed by a cancellation, unless its end could not be brought about
\* (the server's answer was lost, the client went away, or the call was cancelled
\* where the table has nothing of it, which is also how a call ends whose entry
\* another call of the same id took or removed).
CaNoOrphan ==
    \A s \in caopen :
        \/ s \in calost
        \/ Running(s[1]) /\ cacall[s[1]].round = s[2] /\ cacall[s[1]].pc # "ending"
        \/ <<s[1], s[2], TRUE>> \in cajobs

\* Once the user declined or cancelled, and the server was told, the user is not
\* asked again in this call.
CaNoNagging ==
    \A k \in CaCalls : cacall[k].pc = "asking" => ~cacall[k].fwd

\* The server does not go on with a request of a call that was cancelled while the
\* request was recorded: it is told, or about to be.
CaStopped ==
    \A s \in carun :
        \/ Running(s[1]) \/ s \in calost
        \/ \E b \in BOOLEAN : <<s[1], s[2], b>> \in cajobs

\* Every call ends, whatever the server and the user do.
CaEnds == \A k \in CaCalls : (cacall[k].pc = "start") ~> ~Running(k)

\* Calls in several rounds: none leaves an upstream session behind, asks again
\* past its budget, or goes on after it was cancelled.
McpCallsSound ==
    /\ CaTypeOK
    /\ CaNoOrphan
    /\ CaNoNagging
    /\ CaStopped
=============================================================================
