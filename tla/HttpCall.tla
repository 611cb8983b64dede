------------------------------ MODULE HttpCall ------------------------------
(* One approved call of the http capability (capability/http.rs):          *)
(* HttpExecution::run and run_streamed around dial, the loop of hops, the  *)
(* recovery from a rejected token, and the two relays.                     *)
(*                                                                         *)
(* A token is the number of its renewal.  Of a request the model keeps     *)
(* what decides its way: the method, whether it still carries the body,    *)
(* and the token it presents; of a response, its class.  The connection's  *)
(* stored token also moves under the call, by renewals of other calls.     *)
EXTENDS Naturals, Sequences

CONSTANTS
    HcRedirects,    \* max_redirects
    HcQueue,        \* STREAM_QUEUE
    HcMaxTok,       \* bound: renewals of the token
    HcChunks        \* bound: chunks of a response body

ASSUME HcAssumption ==
    /\ HcRedirects \in Nat /\ HcQueue \in Nat \ {0}
    /\ HcMaxTok \in Nat /\ HcChunks \in Nat

VARIABLES
    hccall,     \* how the call was made: [stream, mcp, oauth, method]
    hcpc,       \* where it is
    hcstored,   \* the token the store holds
    hctok,      \* the rendered injection: the token it presents
    hcscrub,    \* the tokens Redactions takes out of the response
    hcreq,      \* [method, body]: the request of this hop
    hchops, hctried,    \* redirects followed; oauth_recovery_attempted
    hcacted,    \* deliveries of the body the upstream may have acted on
    hcsent,     \* deliveries of the body
    hcchunks,   \* chunks relayed so far
    hcout,      \* frames sent to the caller of a streamed call
    hcread,     \* how many of them it took, and whether it hung up
    hcbegan,    \* StreamSink::began
    hcrows,     \* rows in the activity log
    hcres       \* how the execution ended

hcVars == <<hccall, hcpc, hcstored, hctok, hcscrub, hcreq, hchops, hctried, hcacted,
            hcsent, hcchunks, hcout, hcread, hcbegan, hcrows, hcres>>
hcHop   == <<hcreq, hchops, hctried, hcacted, hcsent>>
hcWire  == <<hcchunks, hcout, hcread, hcbegan>>
hcToken == <<hcstored, hctok, hcscrub>>

HcInit ==
    /\ hccall \in [stream : BOOLEAN, mcp : BOOLEAN, oauth : BOOLEAN, method : {"POST", "GET", "PUT"}]
    /\ hccall.mcp => hccall.method = "POST"
    /\ hcpc = "new" /\ hcstored = 0 /\ hctok = 0 /\ hcscrub = {}
    /\ hcreq = [method |-> hccall.method, body |-> hccall.method # "GET"]
    /\ hchops = 0 /\ hctried = FALSE /\ hcacted = 0 /\ hcsent = 0
    /\ hcchunks = 0 /\ hcout = <<>> /\ hcread = [n |-> 0, gone |-> FALSE]
    /\ hcbegan = FALSE /\ hcrows = 0 /\ hcres = "none"

-----------------------------------------------------------------------------
(* Dial.                                                                   *)

\* ensure_fresh, best effort: the token is renewed, or goes out as it is.
HcFresh ==
    /\ hcpc = "new" /\ hcpc' = "render"
    /\ \/ hccall.oauth /\ hcstored < HcMaxTok /\ hcstored' = hcstored + 1
       \/ UNCHANGED hcstored
    /\ UNCHANGED <<hccall, hctok, hcscrub, hcHop, hcWire, hcrows, hcres>>

\* Another call or the sweeper renews the token.
HcRenewed ==
    /\ hccall.oauth /\ hcpc # "done" /\ hcstored < HcMaxTok /\ hcstored' = hcstored + 1
    /\ UNCHANGED <<hccall, hcpc, hctok, hcscrub, hcHop, hcWire, hcrows, hcres>>

\* Redactions::from_injection
HcScrubOf == {hcstored}

\* render_connection_injection reads the store as late as it can; the first time
\* and again after a recovery.  It may fail.
HcRender ==
    /\ hcpc = "render"
    /\ \/ /\ hctok' = hcstored /\ hcscrub' = HcScrubOf
          /\ hcpc' = "send" /\ UNCHANGED hcres
       \/ hcpc' = "failed" /\ hcres' = "error" /\ UNCHANGED <<hctok, hcscrub>>
    /\ UNCHANGED <<hccall, hcstored, hcHop, hcWire, hcrows>>

\* request.send: the body goes out with the hop if the hop still has it.
HcSend ==
    /\ hcpc = "send" /\ hcpc' = "wait"
    /\ hcsent' = IF hcreq.body THEN hcsent + 1 ELSE hcsent
    /\ UNCHANGED <<hccall, hcToken, hcreq, hchops, hctried, hcacted, hcWire, hcrows, hcres>>

\* The upstream may have acted on what this hop delivered.
HcActed == hcacted' = IF hcreq.body THEN hcacted + 1 ELSE hcacted

\* The hop's timer, or the connection broke: nothing is tried again.
HcSendFails ==
    /\ hcpc = "wait" /\ hcpc' = "failed" /\ hcres' = "error" /\ HcActed
    /\ UNCHANGED <<hccall, hcToken, hcreq, hchops, hctried, hcsent, hcWire, hcrows>>

\* Only a message of an MCP client to a tool with a sign-in, and once.
HcRecovers == ~hctried /\ hccall.oauth /\ hccall.mcp

\* 401, or 403 with a challenge.  The upstream has not accepted the message: a
\* forced renewal, and the same request again.  When the renewal fails the answer
\* is relayed.
HcRejected ==
    /\ hcpc = "wait"
    /\ IF HcRecovers
       THEN /\ hctried' = TRUE
            /\ \/ hcstored < HcMaxTok /\ hcstored' = hcstored + 1 /\ hcpc' = "render"
               \/ hcpc' = "relay" /\ UNCHANGED hcstored
       ELSE hcpc' = "relay" /\ UNCHANGED <<hcstored, hctried>>
    /\ UNCHANGED <<hccall, hctok, hcscrub, hcreq, hchops, hcacted, hcsent, hcWire, hcrows, hcres>>

\* Mutant: only a 301 or 302 to a POST drops the body.
HcNextHopKeeps(code) ==
    IF code \in {301, 302} /\ hcreq.method = "POST"
    THEN [method |-> "GET", body |-> FALSE] ELSE hcreq
\* What a redirect makes of the request.
HcNextHop(code) ==
    IF code = 303 \/ (code \in {301, 302} /\ hcreq.method = "POST")
    THEN [method |-> "GET", body |-> FALSE] ELSE hcreq

HcFollows(pinned) == pinned /\ hchops < HcRedirects

\* A redirect: followed inside the pinned authority and within the budget, or
\* relayed as it is.  307 and 308, and 301 and 302 to anything but a POST, say
\* that the request belongs elsewhere; the others answer it.
HcRedirect(code, pinned) ==
    /\ hcpc = "wait"
    /\ IF HcFollows(pinned)
       THEN hchops' = hchops + 1 /\ hcreq' = HcNextHop(code) /\ hcpc' = "send"
       ELSE hcpc' = "relay" /\ UNCHANGED <<hchops, hcreq>>
    /\ IF code = 303 \/ (code \in {301, 302} /\ hcreq.method = "POST") THEN HcActed
       ELSE UNCHANGED hcacted
    /\ UNCHANGED <<hccall, hcToken, hctried, hcsent, hcWire, hcrows, hcres>>

\* Any other answer.
HcAnswered ==
    /\ hcpc = "wait" /\ hcpc' = "relay" /\ HcActed
    /\ UNCHANGED <<hccall, hcToken, hcreq, hchops, hctried, hcsent, hcWire, hcrows, hcres>>

-----------------------------------------------------------------------------
(* The buffered relay, and the end of run.                                 *)

\* relay_response: the body whole, or up to the frame that answers a message of an
\* event stream; a preview of a tool's oversized result; or an error (oversized,
\* broken off, or not safe to redact).
HcRelay ==
    /\ hcpc = "relay" /\ ~hccall.stream
    /\ \E res \in {"whole", "preview", "error"} :
          /\ res = "preview" => hccall.mcp
          /\ hcres' = res
    /\ hcpc' = "ran"
    /\ UNCHANGED <<hccall, hcToken, hcHop, hcWire, hcrows>>

\* The deadline of the whole buffered operation.
HcDeadline ==
    /\ ~hccall.stream /\ hcpc \in {"new", "render", "send", "wait", "relay"}
    /\ hcpc' = "ran" /\ hcres' = "error"
    /\ hcacted' = IF hcpc = "wait" /\ hcreq.body THEN hcacted + 1 ELSE hcacted
    /\ UNCHANGED <<hccall, hcToken, hcreq, hchops, hctried, hcsent, hcWire, hcrows>>

\* The row of the activity log: run writes it for every outcome, run_streamed on
\* each of its three ways out.
HcRow(kind) == hcrows' = hcrows + 1

HcDialFails ==
    /\ hcpc = "failed"
    /\ IF hccall.stream THEN hcpc' = "finish" /\ HcRow("dial")
       ELSE hcpc' = "ran" /\ UNCHANGED hcrows
    /\ UNCHANGED <<hccall, hcToken, hcHop, hcWire, hcres>>

HcRan ==
    /\ hcpc = "ran" /\ hcpc' = "done" /\ HcRow("run")
    /\ UNCHANGED <<hccall, hcToken, hcHop, hcWire, hcres>>

-----------------------------------------------------------------------------
(* The streamed relay.                                                     *)

HcFull == Len(hcout) - hcread.n >= HcQueue

\* StreamSink::send: parks while the queue is full; FALSE when the reader is gone.
HcPut(frame) ==
    IF hcread.gone THEN UNCHANGED hcout
    ELSE ~HcFull /\ hcout' = Append(hcout, frame)

HcBegins == hcbegan' = TRUE

\* run_streamed commits to the head, then sends it.
HcHead ==
    /\ hcpc = "relay" /\ hccall.stream
    /\ HcBegins /\ HcPut("head") /\ hcpc' = "stream"
    /\ UNCHANGED <<hccall, hcToken, hcHop, hcchunks, hcread, hcrows, hcres>>

\* A chunk is sent on; nobody to take it ends the transfer.
HcChunk ==
    /\ hcpc = "stream" /\ hcchunks < HcChunks
    /\ HcPut("chunk") /\ hcchunks' = hcchunks + 1
    /\ IF hcread.gone THEN hcpc' = "finish" /\ hcres' = "interrupted" /\ HcRow("cut")
       ELSE UNCHANGED <<hcpc, hcres, hcrows>>
    /\ UNCHANGED <<hccall, hcToken, hcHop, hcread, hcbegan>>

\* The body ends, or breaks off (the upstream, its timer, or the redaction).
HcBodyEnds ==
    /\ hcpc = "stream" /\ hcpc' = "finish"
    /\ \E res \in {"whole", "interrupted"} : hcres' = res
    /\ HcRow("body")
    /\ UNCHANGED <<hccall, hcToken, hcHop, hcWire>>

\* StreamSink::finish: the terminal frame.
HcFinish ==
    /\ hcpc = "finish" /\ hcpc' = "done"
    /\ HcPut(IF hcbegan THEN "end" ELSE "error")
    /\ UNCHANGED <<hccall, hcToken, hcHop, hcchunks, hcread, hcbegan, hcrows, hcres>>

\* stream_events_body: the caller takes a frame, or goes away.
HcTake ==
    /\ hccall.stream /\ ~hcread.gone /\ hcread.n < Len(hcout)
    /\ hcread' = [hcread EXCEPT !.n = @ + 1]
    /\ UNCHANGED <<hccall, hcpc, hcToken, hcHop, hcchunks, hcout, hcbegan, hcrows, hcres>>
HcHangUp ==
    /\ hccall.stream /\ ~hcread.gone /\ hcpc # "done"
    /\ hcread' = [hcread EXCEPT !.gone = TRUE]
    /\ UNCHANGED <<hccall, hcpc, hcToken, hcHop, hcchunks, hcout, hcbegan, hcrows, hcres>>

-----------------------------------------------------------------------------
HcWork ==
    \/ HcFresh \/ HcRender \/ HcSend \/ HcSendFails \/ HcRelay \/ HcDialFails \/ HcRan
    \/ HcHead \/ HcChunk \/ HcBodyEnds \/ HcFinish

HcNext ==
    \/ HcWork \/ HcRenewed \/ HcRejected \/ HcAnswered \/ HcDeadline \/ HcTake \/ HcHangUp
    \/ \E code \in {301, 302, 303, 307, 308}, pinned \in BOOLEAN : HcRedirect(code, pinned)

HcSpec == HcInit /\ [][HcNext]_hcVars

\* The task is polled, each hop and each body has a timer (HcSendFails, HcBodyEnds), and
\* so has a buffered call as a whole.  Nothing is assumed of the upstream and of the caller.
HcFairness == WF_hcVars(HcWork) /\ WF_hcVars(HcDeadline)

HcFairSpec == HcSpec /\ HcFairness

-----------------------------------------------------------------------------
(* Properties                                                              *)

Terminals == {"end", "error"}

\* Shape of the state.
HcTypeOK ==
    /\ hchops \in 0 .. HcRedirects /\ hcstored \in 0 .. HcMaxTok /\ hctok \in 0 .. hcstored
    /\ hcreq \in [method : {"POST", "GET", "PUT"}, body : BOOLEAN]
    /\ hcout \in Seq({"head", "chunk"} \cup Terminals) /\ hcread.n <= Len(hcout)
    /\ hcrows \in 0 .. 1

\* However the upstream redirects and rejects, it may have acted on the body once at
\* most; and a call that is not an MCP message is never delivered again after a
\* rejection.
HcActsOnce ==
    /\ hcacted <= 1
    /\ hcsent <= 1 + hchops + (IF hccall.mcp /\ hccall.oauth THEN 1 ELSE 0)

\* What is relayed is scrubbed of the token the answering hop presented, also after
\* a recovery and whatever the store holds meanwhile.
HcScrubbed == hcpc \in {"relay", "stream", "ran"} /\ hcres # "error" => hctok \in hcscrub

\* The caller of a streamed call sees a head and chunks and an end, or an error and
\* nothing else; after the call is over, exactly one of the two unless it hung up.
HcFramesWellFormed ==
    LET n == Len(hcout)
    IN  /\ \A i \in 1 .. n :
             /\ hcout[i] = "head" <=> i = 1 /\ hcout[1] # "error"
             /\ hcout[i] \in Terminals => i = n
             /\ hcout[i] = "error" => n = 1
        /\ hcpc = "done" /\ hccall.stream /\ ~hcread.gone => n > 0 /\ hcout[n] \in Terminals

\* One row of the activity log for each call that is over.
HcAudited == hcpc = "done" => hcrows = 1


\* One HTTP call from its first hop to its audit row: it acts once, nothing
\* unscrubbed leaves, the frames are well formed and the row tells what happened.
HttpCallSound ==
    /\ HcTypeOK
    /\ HcActsOnce
    /\ HcScrubbed
    /\ HcFramesWellFormed
    /\ HcAudited
=============================================================================
