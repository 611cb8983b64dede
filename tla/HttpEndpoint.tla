--------------------------- MODULE HttpEndpoint ---------------------------
(***************************************************************************)
(* A request through the direct HTTP endpoint of a connection:             *)
(* proxy_handler and its helpers in capability/http.rs, against the owner  *)
(* who revokes, edits, curates or switches off what the request relies on. *)
(*                                                                         *)
(* The handler reads the authority five times, with a prompt and an upload *)
(* of any length in between.  A withdrawal commits first and then closes   *)
(* the sessions it finds; the handler registers its session first and then *)
(* reads the authority again.  The listener belongs to one endpoint of one *)
(* connection, whose kind never changes.                                   *)
(***************************************************************************)
EXTENDS Naturals, FiniteSets

CONSTANTS
    HeReqs,         \* requests
    HeKinds,        \* the kinds of requests there are (AllKinds)
    HeUploads,      \* Config::endpoint_uploads_per_listener
    HeAllUploads,   \* the broker-wide upload semaphore
    HeMaxSess,      \* the broker-wide bound on live sessions
    HeMaxVer,       \* bound: versions of the connection
    HeMaxChanges    \* bound: changes the owner makes

\* What a request is: one on any path, one on the MCP path, and the empty transport
\* legs there, which are never confirmed.
AllKinds == {"plain", "mcp", "leg"}

ASSUME HeAssumption ==
    /\ HeKinds \subseteq AllKinds
    /\ {HeUploads, HeAllUploads, HeMaxSess, HeMaxVer, HeMaxChanges} \subseteq Nat \ {0}

VARIABLES
    herq,       \* the requests
    heep,       \* the endpoint's record: "live", "expired", "gone"
    heon,       \* the access switch
    hever,      \* updated_at of the connection; 0 once deleted
    hecur,      \* whether a tool allow-list is set
    heconf,     \* whether traffic is confirmed
    hewin,      \* whether an approval window is open
    heheld,     \* upload permits taken: at this listener, in the broker
    hesess,     \* requests with a registered session
    heclosed,   \* sessions whose close signal is set
    hechanges,  \* changes the owner has made
    hetodo      \* what committed changes still owe: "conn", "ep", "win"

heAuth  == <<heep, heon, hever, hecur, heconf, hewin, hechanges, hetodo>>
heUse   == <<heheld, hesess, heclosed>>
heVars  == <<herq, heAuth, heUse>>

Uploading == {"held", "registered", "upload"}
Dispatched == {"dial", "run", "wait", "stream", "sent"}
InSession == {"registered", "upload", "spooled", "reauthed", "fresh"} \cup Dispatched

OnMcpPath(q) == q.kind \in {"mcp", "leg"}

\* A request: where the handler is, what it is, and what the handler noted: the version
\* of the connection, the allow-list, and whether the user was asked.
NoReq == [pc |-> "idle", kind |-> "plain", ver |-> 0, cur |-> FALSE, asked |-> FALSE]

HeInit ==
    /\ herq = [r \in HeReqs |-> NoReq]
    /\ heep = "live" /\ heon = TRUE /\ hever = 1
    /\ hecur \in BOOLEAN /\ heconf \in BOOLEAN /\ hewin = FALSE
    /\ heheld = [own |-> 0, all |-> 0] /\ hesess = {} /\ heclosed = {} /\ hetodo = {} /\ hechanges = 0

Pc(r) == herq[r].pc
HeGoto(r, pc) == herq' = [herq EXCEPT ![r].pc = pc]

\* What a request has no more use for is forgotten.
HeForgets(q) == IF q.pc # "dial" THEN q
                ELSE [q EXCEPT !.asked = FALSE, !.kind = "plain"]

----------------------------------------------------------------------------
(* Authentication                                                          *)

\* The secret is this endpoint's.  The failure window and the endpoint's request budget
\* may refuse first (Limits): that changes nothing here.
HeAuthenticate(r, kind) ==
    /\ Pc(r) = "idle" /\ heep = "live"
    /\ herq' = [herq EXCEPT ![r] = [NoReq EXCEPT !.pc = "known", !.kind = kind]]
    /\ UNCHANGED <<heAuth, heUse>>

----------------------------------------------------------------------------
(* Admission                                                               *)

\* The switch and the connection; then what the request itself says (method, headers,
\* path), any of which may refuse it.
HeScreen(r) ==
    /\ Pc(r) = "known"
    /\ \/ heon /\ hever # 0 /\ herq' = [herq EXCEPT ![r].pc = "screened", ![r].ver = hever]
       \/ herq' = [herq EXCEPT ![r] = NoReq]
    /\ UNCHANGED <<heAuth, heUse>>

\* The allow-list, which closes the MCP path, and the confirmation mode, both read once.
HeDecide(r) ==
    /\ Pc(r) = "screened"
    /\ LET q == herq[r]
           ask == heconf /\ q.kind # "leg"
       IN herq' = [herq EXCEPT ![r] =
            IF OnMcpPath(q) /\ hecur THEN NoReq
            ELSE [q EXCEPT !.cur = hecur, !.asked = ask, !.pc = IF ask THEN "asking" ELSE "admitted"]]
    /\ UNCHANGED <<heAuth, heUse>>

\* The gate: an open window answers at once; else the user does, and may open one.
HeVerdict(r, allow, window) ==
    /\ Pc(r) = "asking"
    /\ IF hewin THEN allow /\ ~window ELSE window => allow
    /\ hewin' = (hewin \/ window)
    /\ herq' = [herq EXCEPT ![r] = IF allow THEN [@ EXCEPT !.pc = "admitted"] ELSE NoReq]
    /\ UNCHANGED <<heep, heon, hever, hecur, heconf, hechanges, hetodo, heUse>>

\* A refused request withdraws what a stale prompt may just have opened.
HeRevokeIfAsked(r) == hewin' = (hewin /\ ~herq[r].asked)

Valid == heep = "live" /\ heon
Unchanged(r) == hever = herq[r].ver /\ hecur = herq[r].cur

\* The first reading again, right after the gate.
HeRevalidate(r) ==
    /\ Pc(r) = "admitted"
    /\ IF Valid /\ Unchanged(r)
       THEN herq' = [herq EXCEPT ![r].pc = "current", ![r].cur = FALSE] /\ UNCHANGED hewin
       ELSE HeRevokeIfAsked(r) /\ herq' = [herq EXCEPT ![r] = NoReq]
    /\ UNCHANGED <<heep, heon, hever, hecur, heconf, hechanges, hetodo, heUse>>

\* Permits of an upload; the first is given back when there is no second.
HeHold(r) ==
    /\ Pc(r) = "current"
    /\ IF heheld.all < HeAllUploads /\ heheld.own < HeUploads
       THEN heheld' = [own |-> heheld.own + 1, all |-> heheld.all + 1] /\ HeGoto(r, "held")
       ELSE UNCHANGED heheld /\ herq' = [herq EXCEPT ![r] = NoReq]
    /\ UNCHANGED <<heAuth, hesess, heclosed>>

\* Another endpoint of the broker takes or gives back a permit of the shared semaphore.
HeOthers(d) ==
    /\ heheld' = [heheld EXCEPT !.all = IF d = "take" THEN @ + 1 ELSE @ - 1]
    /\ heheld'.all \in heheld.own .. HeAllUploads
    /\ UNCHANGED <<herq, heAuth, hesess, heclosed>>

Released == [own |-> heheld.own - 1, all |-> heheld.all - 1]

\* The handler ends, and all it holds is given back.  An execution it started under an
\* idempotency key is a task of its own and runs on: it renders the credential, sends,
\* and recovers from a 401 for a session that is no more.
Abandoned(q) == IF q.pc = "run" THEN [NoReq EXCEPT !.pc = "orphan"] ELSE NoReq
HeEnds(r, rest) ==
    /\ herq' = [herq EXCEPT ![r] = rest]
    /\ heheld' = IF Pc(r) \in Uploading THEN Released ELSE heheld
    /\ hesess' = hesess \ {r} /\ heclosed' = heclosed \ {r}
HeLeave(r) == HeEnds(r, Abandoned(herq[r]))

HeRegister(r) ==
    /\ Pc(r) = "held"
    /\ IF Cardinality(hesess) < HeMaxSess
       THEN hesess' = hesess \cup {r} /\ HeGoto(r, "registered") /\ UNCHANGED <<heheld, heclosed>>
       ELSE HeLeave(r)
    /\ UNCHANGED <<heAuth>>

\* The second reading, now that a withdrawal can find the session.
HeRecheck(r) ==
    /\ Pc(r) = "registered"
    /\ IF Valid
       THEN HeGoto(r, "upload") /\ UNCHANGED <<hewin, heUse>>
       ELSE HeRevokeIfAsked(r) /\ HeLeave(r)
    /\ UNCHANGED <<heep, heon, hever, hecur, heconf, hechanges, hetodo>>

----------------------------------------------------------------------------
(* Upload and dispatch                                                     *)

\* spool_endpoint_body: the whole body, or too large, too slow, broken, unspoolable.
HeUpload(r, ok) ==
    /\ Pc(r) = "upload"
    /\ IF ok THEN HeGoto(r, "spooled") /\ heheld' = Released /\ UNCHANGED <<hesess, heclosed>>
       ELSE HeLeave(r)
    /\ UNCHANGED <<heAuth>>

\* The close signal ends an upload, a dial, and the wait for a keyed execution.
HeInterrupted(r) ==
    /\ Pc(r) \in {"upload", "dial", "run", "wait"} /\ r \in heclosed
    /\ HeLeave(r)
    /\ UNCHANGED <<heAuth>>

\* The client goes: the handler's future is dropped at its await, and what it owns with it.
HeDropped(r) ==
    /\ Pc(r) \in {"asking", "upload", "dial", "run", "wait"}
    /\ HeLeave(r)
    /\ UNCHANGED <<heAuth>>

\* One of the three readings after the upload: go on to pc, or leave.
HeCheckpoint(r, ok, pc) ==
    /\ IF ok THEN herq' = [herq EXCEPT ![r] = HeForgets([@ EXCEPT !.pc = pc])] /\ UNCHANGED <<hewin, heUse>>
       ELSE HeRevokeIfAsked(r) /\ HeLeave(r)
    /\ UNCHANGED <<heep, heon, hever, hecur, heconf, hechanges, hetodo>>

HeReauth(r) == Pc(r) = "spooled" /\ HeCheckpoint(r, Valid, "reauthed")

\* Mutant: the connection is read again, but not compared with what was admitted.
HeRefreshOnly(r) ==
    /\ Pc(r) = "reauthed"
    /\ HeCheckpoint(r, hever # 0 /\ ~(OnMcpPath(herq[r]) /\ hecur), "fresh")

\* The connection must be there, its MCP path open, and its version the admitted one.
HeRefresh(r) ==
    /\ Pc(r) = "reauthed"
    /\ HeCheckpoint(r, hever = herq[r].ver /\ ~(OnMcpPath(herq[r]) /\ hecur), "fresh")

HeFinal(r) ==
    /\ Pc(r) = "fresh"
    /\ HeCheckpoint(r, Valid, "dial")

\* A request with an idempotency key enters the table (Executions): its own execution is
\* spawned, which the close signal, if it is set already, may not forestall; or it joins
\* another's.  Or the table refuses it, or has its answer (HeDialed).
HeEnter(r, pc) ==
    /\ Pc(r) = "dial" /\ HeGoto(r, pc)
    /\ UNCHANGED <<heAuth, heUse>>

\* The others send the head and then the body as it arrives, or fail.
HeDialed(r, ok) ==
    /\ Pc(r) = "dial"
    /\ IF ok THEN HeGoto(r, "stream") /\ UNCHANGED heUse ELSE HeLeave(r)
    /\ UNCHANGED <<heAuth>>

\* An execution ends with its outcome, which a handler that still waits passes on.
HeOutcome(r) ==
    /\ Pc(r) \in {"run", "wait", "orphan"}
    /\ HeEnds(r, NoReq)
    /\ UNCHANGED <<heAuth>>

\* A part of the body goes out.  Nothing here looks at the close signal.
HeChunk(r) ==
    /\ Pc(r) = "stream" /\ HeGoto(r, "sent")
    /\ UNCHANGED <<heAuth, heUse>>

\* Complete, broken upstream, refused for a credential in it, or dropped by the client:
\* the stream's guard retires the session in each case.
HeStreamEnd(r) ==
    /\ Pc(r) \in {"stream", "sent"} /\ HeLeave(r)
    /\ UNCHANGED <<heAuth>>

----------------------------------------------------------------------------
(* The owner.  The record changes first; what it owes is done afterwards.  *)

\* A change commits and leaves behind what it owes.
HeOwes(what) ==
    /\ hechanges < HeMaxChanges /\ hechanges' = hechanges + 1
    /\ hetodo' = hetodo \cup what

HeSetAccess(on) ==
    /\ on # heon /\ hever # 0
    /\ heon' = on
    /\ HeOwes(IF on THEN {} ELSE {"win", "conn"})
    /\ UNCHANGED <<herq, heep, hever, hecur, heconf, hewin, heUse>>

\* An edit of the capability; one of the target takes the endpoint away as well.
HeEdit(target) ==
    /\ hever \in 1 .. HeMaxVer - 1
    /\ hever' = hever + 1
    /\ heep' = IF target THEN "gone" ELSE heep
    /\ HeOwes(IF target THEN {"conn", "ep", "win"} ELSE {"conn"})
    /\ UNCHANGED <<herq, heon, hecur, heconf, hewin, heUse>>

HeDelete ==
    /\ hever # 0
    /\ hever' = 0 /\ heep' = "gone" /\ heon' = FALSE
    /\ HeOwes({"conn", "ep", "win"})
    /\ UNCHANGED <<herq, hecur, heconf, hewin, heUse>>

HeRevoke(how) ==
    /\ heep = "live" /\ heep' = how
    /\ HeOwes(IF how = "gone" THEN {"ep"} ELSE {})
    /\ UNCHANGED <<herq, heon, hever, hecur, heconf, hewin, heUse>>

HeCurate(on) ==
    /\ hever # 0 /\ on # hecur /\ hecur' = on
    /\ HeOwes({"win"})
    /\ UNCHANGED <<herq, heep, heon, hever, heconf, hewin, heUse>>

HeSetConfirm(on) ==
    /\ hever # 0 /\ on # heconf /\ heconf' = on
    /\ HeOwes({})
    /\ UNCHANGED <<herq, heep, heon, hever, hecur, hewin, heUse>>

\* approvals.revoke ends the window and refuses the prompts that are waiting.
HeSweepWindow ==
    /\ "win" \in hetodo
    /\ hetodo' = hetodo \ {"win"} /\ hewin' = FALSE
    /\ herq' = [r \in HeReqs |-> IF Pc(r) = "asking" THEN NoReq ELSE herq[r]]
    /\ UNCHANGED <<heep, heon, hever, hecur, heconf, hechanges, heUse>>

\* close_connection_sessions, close_endpoint_sessions: here they find the same ones.
HeSweepSessions(what) ==
    /\ what \in hetodo \ {"win"}
    /\ hetodo' = hetodo \ {what} /\ heclosed' = heclosed \cup hesess
    /\ UNCHANGED <<herq, heep, heon, hever, hecur, heconf, hewin, hechanges, heheld, hesess>>

HeOwner ==
    \/ \E b \in BOOLEAN : HeSetAccess(b) \/ HeEdit(b) \/ HeCurate(b) \/ HeSetConfirm(b)
    \/ HeDelete
    \/ \E how \in {"expired", "gone"} : HeRevoke(how)
    \/ HeSweepWindow
    \/ \E what \in {"conn", "ep"} : HeSweepSessions(what)

HeRequest(r) ==
    \/ \E b \in BOOLEAN : HeUpload(r, b) \/ HeDialed(r, b)
    \/ \E kind \in HeKinds : HeAuthenticate(r, kind)
    \/ HeScreen(r) \/ HeDecide(r)
    \/ \E allow, window \in BOOLEAN : HeVerdict(r, allow, window)
    \/ HeRevalidate(r) \/ HeHold(r) \/ HeRegister(r) \/ HeRecheck(r)
    \/ HeInterrupted(r) \/ HeDropped(r)
    \/ HeReauth(r) \/ HeRefresh(r) \/ HeFinal(r) \/ HeChunk(r) \/ HeStreamEnd(r)
    \/ \E pc \in {"run", "wait"} : HeEnter(r, pc)
    \/ HeOutcome(r)

HeNext ==
    \/ \E r \in HeReqs : HeRequest(r)
    \/ \E d \in {"take", "give"} : HeOthers(d)
    \/ HeOwner

HeSpec == HeInit /\ [][HeNext]_heVars

----------------------------------------------------------------------------
(* Properties                                                              *)

\* Type, and the accounts: the listener's permits are exactly the uploads under way,
\* the sessions exactly the requests between registration and their end.
HeTypeOK ==
    /\ herq \in [HeReqs -> [pc : {"idle", "known", "screened", "asking",
                                  "admitted", "current", "held", "orphan"} \cup InSession,
                            kind : AllKinds, ver : 0 .. HeMaxVer, cur : BOOLEAN, asked : BOOLEAN]]
    /\ heep \in {"live", "expired", "gone"} /\ hever \in 0 .. HeMaxVer
    /\ {heon, hecur, heconf, hewin} \subseteq BOOLEAN
    /\ hetodo \subseteq {"conn", "ep", "win"} /\ heclosed \subseteq hesess
    /\ heheld.own \in 0 .. HeUploads /\ heheld.all \in heheld.own .. HeAllUploads
    /\ heheld.own = Cardinality({r \in HeReqs : Pc(r) \in Uploading})
    /\ hesess = {r \in HeReqs : Pc(r) \in InSession} /\ Cardinality(hesess) <= HeMaxSess

\* A withdrawal reaches every request it should stop: one that is past its second
\* reading, when the endpoint is gone or the tool switched off or deleted, has its
\* close signal set, or the sweep that sets it is still to come; and so has one that is
\* dispatched on a connection that was edited after the user or the policy saw it.  An
\* execution that outlived its handler is beyond reach (HeStopsAtOnce).
HeReached ==
    \A r \in HeReqs :
       \/ r \in heclosed \/ hetodo \cap {"conn", "ep"} # {}
       \/ /\ Pc(r) \in InSession \ {"registered"} => heep # "gone" /\ heon /\ hever # 0
          /\ Pc(r) \in Dispatched => hever = herq[r].ver

\* An approval window never outlives the switch: when it is open with the tool off, a
\* request that will see this, or the sweep, is still to come.
HeNoStaleWindow ==
    hewin => \/ heon \/ "win" \in hetodo
             \/ \E r \in HeReqs : herq[r].asked /\ Pc(r) \notin {"idle", "asking"}

\* Claimed: "closes any live sessions it was serving, so a revoked endpoint stops
\* working at once" - no part of a body leaves after the session was closed, and no
\* execution runs on for it.
HeStopsAtOnce ==
    [][\A r \in heclosed :
         /\ ~(herq[r].pc = "stream" /\ herq'[r].pc = "sent")
         /\ herq'[r].pc # "orphan"]_heVars

\* Requests at a direct endpoint against every change of authority.
HttpEndpointSound ==
    /\ HeTypeOK
    /\ HeReached
    /\ HeNoStaleWindow
=============================================================================
