------------------------------- MODULE Tokens -------------------------------
(***************************************************************************)
(* The access token of one connection that was added by a sign-in: the     *)
(* renewals that keep it fresh (mcp_refresh.rs for an MCP server, oauth.rs *)
(* fresh_bearer for an API tool), the sweeper that starts them, and the    *)
(* sign-ins that replace it (mcp_auth.rs; the relayed and the local OAuth  *)
(* flows of broker.rs).                                                    *)
(*                                                                         *)
(* An MCP connection keeps its access token in a secret and the refresh    *)
(* grant beside the connection, two writes; an API tool keeps both in one  *)
(* secret, one write.  A refresh token is spent when the provider answers  *)
(* a renewal: it then expects the next one of the same family, and a       *)
(* family is what one sign-in minted.                                      *)
(***************************************************************************)
EXTENDS Naturals, Sequences, FiniteSets

CONSTANTS
    TokKinds,       \* subset of {"mcp", "byo"}: what the connection may be
    TokTasks,       \* callers that may want a renewal; one is the sweeper
    TokSweeper,     \* the sweeper
    TokSess,        \* sign-in sessions
    TokMaxUse,      \* bound on renewals within a family
    TokMaxFaults,   \* bound on faults
    TokFaults       \* subset of {"net", "lost", "garbage", "revoke", "write",
                    \* "cancel"}

ASSUME TokAssumption ==
    /\ TokKinds \subseteq {"mcp", "byo"} /\ TokSweeper \in TokTasks
    /\ TokTasks \cap TokSess = {} /\ "free" \notin TokTasks \cup TokSess
    /\ TokMaxUse \in Nat /\ TokMaxFaults \in Nat
    /\ TokFaults \subseteq {"net", "lost", "garbage", "revoke", "write", "cancel"}

VARIABLES
    tkind,      \* "mcp" or "byo"
    tok,        \* the catalog: exists, access token, its version, refresh
                \* token, expiry (an identity and whether it is near)
    tlock,      \* holder of the connection's lock, or "free"
    ttask,      \* the callers
    tsess,      \* the sign-in sessions
    tprov,      \* the provider: the refresh token it expects, by family
    tpark,      \* the sweeper: keys it gave up on
    tback,      \* the sweeper: waiting for RETRY_BACKOFF
    tfault,     \* faults so far
    thist       \* history: the family signed in last, tokens whose successor
                \* was lost, tokens refused, tokens
                \* whose retirement failed, torn sign-ins

tokVars == <<tkind, tok, tlock, ttask, tsess, tprov, tpark, tback, tfault, thist>>

NoTok == [fam |-> 0, n |-> 0]
TokIdle == [pc |-> "idle", force |-> FALSE, ver |-> 0, rt |-> NoTok, key |-> 0]
NoSess == [phase |-> "none", new |-> FALSE, fam |-> 0]
Terminal == {"succeeded", "failed", "cancelled"}

TokInit ==
    /\ tkind \in TokKinds
    /\ tok \in {[exists |-> FALSE, acc |-> NoTok, ver |-> 0, rt |-> NoTok,
                 exp |-> 0, near |-> FALSE],
                [exists |-> TRUE, acc |-> [fam |-> 1, n |-> 1], ver |-> 0,
                 rt |-> [fam |-> 1, n |-> 1], exp |-> 0, near |-> FALSE]}
    /\ tprov = IF tok.exists THEN <<1>> ELSE <<>>
    /\ tlock = "free" /\ tpark = {} /\ tback = FALSE /\ tfault = 0
    /\ ttask = [t \in TokTasks |-> TokIdle]
    /\ tsess = [s \in TokSess |-> NoSess]
    /\ thist = [signed |-> IF tok.exists THEN 1 ELSE 0, lost |-> {}, refused |-> {},
                kept |-> {}, torn |-> FALSE]

CanFail(kind) == kind \in TokFaults /\ tfault < TokMaxFaults

\* Time passes: the access token comes within REFRESH_SKEW of its expiry.
TokAge ==
    /\ tok.exists /\ ~tok.near /\ tok.rt.n < TokMaxUse
    /\ tok' = [tok EXCEPT !.near = TRUE]
    /\ UNCHANGED <<tkind, tlock, ttask, tsess, tprov, tpark, tback, tfault, thist>>

\* RETRY_BACKOFF has passed.
TokTick ==
    /\ tback
    /\ tback' = FALSE
    /\ UNCHANGED <<tkind, tok, tlock, ttask, tsess, tprov, tpark, tfault, thist>>

----------------------------------------------------------------------------
(* Renewals                                                                *)

\* byo_park_key: the version of the token secret; for an MCP connection the
\* expiry it has.
ParkKey(rec) == IF tkind = "byo" THEN rec.ver ELSE rec.exp

\* refresh_connection_token: the caller looks at the version of the token, then
\* queues for the lock.  The sweeper and a pre-use check call for a token near
\* its expiry, a 401 for any token.
Observe(t, force) ==
    ttask' = [ttask EXCEPT ![t] = [pc |-> "wait", force |-> force, ver |-> tok.ver,
                                   rt |-> NoTok, key |-> ParkKey(tok)]]

\* The sweep (every SWEEP_INTERVAL) skips what it parked or backs off from; what
\* it does with a connection it holds up the rest of the sweep for.
TokSweep ==
    /\ ttask[TokSweeper] = TokIdle /\ tok.exists
    /\ tkind = "mcp" => tok.near
    /\ ParkKey(tok) \notin tpark /\ ~tback
    /\ Observe(TokSweeper, FALSE)
    /\ UNCHANGED <<tkind, tok, tlock, tsess, tprov, tpark, tback, tfault, thist>>

\* ensure_fresh before a credential is used (force FALSE), or the one renewal
\* after the upstream answered 401; fresh_bearer has no forced form.
TokWant(t, force) ==
    /\ t # TokSweeper /\ ttask[t] = TokIdle /\ tok.exists
    /\ tkind = "byo" => ~force
    /\ ~force => tok.near
    /\ tok.rt.n < TokMaxUse
    /\ Observe(t, force)
    /\ UNCHANGED <<tkind, tok, tlock, tsess, tprov, tpark, tback, tfault, thist>>

\* Mutant: the lock outlives the renewal.
DoneLocked(t, outcome, rec) ==
    /\ ttask' = [ttask EXCEPT ![t] = TokIdle]
    /\ UNCHANGED <<tlock, tback, tpark>>

\* The caller is done; the lock is free again and the sweeper draws its
\* conclusion, for an MCP connection under the expiry it saw at the start, for an
\* API tool under the version the secret has now.
Done(t, outcome, rec) ==
    /\ ttask' = [ttask EXCEPT ![t] = TokIdle]
    /\ tlock' = "free"
    /\ tback' = IF t = TokSweeper THEN outcome = "transient" ELSE tback
    /\ tpark' = IF t = TokSweeper /\ outcome = "reconnect"
                THEN tpark \cup {IF tkind = "byo" THEN rec.ver ELSE ttask[t].key}
                ELSE tpark


LockFree == tlock = "free"

\* What the caller wanted has happened while it waited for the lock.
Already(t) ==
    IF ttask[t].force THEN tok.ver # ttask[t].ver ELSE ~tok.near

\* Under the lock: read the connection again, then the grant.
TokAcquire(t) ==
    /\ ttask[t].pc = "wait" /\ LockFree
    /\ IF Already(t) THEN Done(t, "ok", tok)
       ELSE IF tok.rt = NoTok THEN Done(t, "reconnect", tok)
       ELSE /\ tlock' = t
            /\ ttask' = [ttask EXCEPT ![t].pc = "post", ![t].rt = tok.rt]
            /\ UNCHANGED <<tpark, tback>>
    /\ UNCHANGED <<tkind, tok, tsess, tprov, tfault, thist>>

Current(rt) == tprov[rt.fam] = rt.n

\* The answer's refresh token, which replaces the one that was presented.
Next1(rt) == [rt EXCEPT !.n = @ + 1]

\* The provider takes the token; `fate` is what comes of it.  A timeout or a
\* broken connection is Transient whether or not the provider had answered.
TokPost(t, fate) ==
    LET rt == ttask[t].rt IN
    /\ ttask[t].pc = "post"
    /\ fate \in {"ok", "lost", "garbage"} => Current(rt)
    /\ fate = "revoke" => Current(rt)
    /\ fate = "refuse" => ~Current(rt)
    /\ fate \in {"ok", "refuse"} \/ CanFail(fate)
    /\ tfault' = IF fate \in {"ok", "refuse"} THEN tfault ELSE tfault + 1
    /\ tprov' = IF fate \in {"ok", "lost", "garbage"} THEN [tprov EXCEPT ![rt.fam] = @ + 1]
                ELSE IF fate = "revoke" THEN [tprov EXCEPT ![rt.fam] = 0]
                ELSE tprov
    /\ thist' = [thist EXCEPT
                    !.lost = IF fate \in {"lost", "garbage"} THEN @ \cup {rt} ELSE @,
                    !.refused = IF fate \in {"refuse", "revoke"} THEN @ \cup {rt} ELSE @]
    /\ IF fate \in {"net", "lost"} THEN Done(t, "transient", tok)
       ELSE IF fate = "garbage" /\ tkind = "byo" THEN Done(t, "reconnect", tok)
       ELSE /\ ttask' = [ttask EXCEPT ![t].pc = IF fate = "ok" THEN "store" ELSE "retire"]
            /\ UNCHANGED <<tlock, tpark, tback>>
    /\ UNCHANGED <<tkind, tok, tsess>>

\* The new access token replaces the old one in its secret; for an API tool
\* that is the whole token set, and a failed write loses all of it.
TokStore(t) ==
    LET next == Next1(ttask[t].rt) IN
    /\ ttask[t].pc = "store"
    /\ \/ /\ tok' = IF tkind = "byo"
                    THEN [tok EXCEPT !.acc = next, !.rt = next, !.ver = @ + 1,
                                     !.exp = @ + 1, !.near = FALSE]
                    ELSE [tok EXCEPT !.acc = next, !.ver = @ + 1]
          /\ IF tkind = "byo" THEN Done(t, "ok", tok')
             ELSE /\ ttask' = [ttask EXCEPT ![t].pc = "grant"]
                  /\ UNCHANGED <<tlock, tpark, tback>>
          /\ UNCHANGED <<tfault, thist>>
       \/ /\ CanFail("write")
          /\ tfault' = tfault + 1
          /\ thist' = [thist EXCEPT !.lost = @ \cup {ttask[t].rt}]
          /\ Done(t, "transient", tok)
          /\ UNCHANGED tok
    /\ UNCHANGED <<tkind, tsess, tprov>>

\* MCP: then the grant and the new expiry (set_connection_oauth).
TokGrant(t) ==
    /\ ttask[t].pc = "grant"
    /\ \/ /\ tok' = [tok EXCEPT !.rt = Next1(ttask[t].rt), !.exp = @ + 1, !.near = FALSE]
          /\ Done(t, "ok", tok')
          /\ UNCHANGED <<tfault, thist>>
       \/ /\ CanFail("write")
          /\ tfault' = tfault + 1
          /\ thist' = [thist EXCEPT !.lost = @ \cup {ttask[t].rt}]
          /\ Done(t, "transient", tok)
          /\ UNCHANGED tok
    /\ UNCHANGED <<tkind, tsess, tprov>>

\* What the catalog holds once the refresh token is gone: the grant as it is
\* read again without one (MCP), the token set as it was read without one (API).
Retired(t) ==
    IF tkind = "byo"
    THEN [tok EXCEPT !.acc = ttask[t].rt, !.rt = NoTok, !.ver = @ + 1, !.near = TRUE]
    ELSE [tok EXCEPT !.rt = NoTok]

\* retire_refresh_token, best effort; the row then says "reconnect".
TokRetire(t) ==
    /\ ttask[t].pc = "retire"
    /\ \/ /\ tok' = Retired(t)
          /\ UNCHANGED <<tfault, thist>>
       \/ /\ CanFail("write")
          /\ tfault' = tfault + 1
          /\ thist' = [thist EXCEPT !.kept = @ \cup {ttask[t].rt}]
          /\ UNCHANGED tok
    /\ Done(t, "reconnect", tok')
    /\ UNCHANGED <<tkind, tsess, tprov>>

----------------------------------------------------------------------------
(* Sign-ins                                                                *)

\* plan_auth and McpAuthSessions::insert: a new connection is preflighted, a
\* reconnect needs the connection and is the only one for it.
MayStart(new) ==
    /\ new <=> ~tok.exists
    /\ new \/ \A s \in TokSess : tsess[s].phase \in Terminal \cup {"none"} \/ tsess[s].new

\* ui_start_mcp_auth, ui_start_mcp_auth_external.
TokSignIn(s, new) ==
    /\ tkind = "mcp" /\ tsess[s] = NoSess /\ MayStart(new)
    /\ tsess' = [tsess EXCEPT ![s] = [phase |-> "probing", new |-> new, fam |-> 0]]
    /\ UNCHANGED <<tkind, tok, tlock, ttask, tprov, tpark, tback, tfault, thist>>

\* manage_oauth_start, manage_oauth_reconnect_start and their local forms: the
\* flow waits for the browser, beside any other.
TokBegin(s, new) ==
    /\ tkind = "byo" /\ tsess[s] = NoSess /\ (new <=> ~tok.exists)
    /\ tsess' = [tsess EXCEPT ![s] = [phase |-> "awaiting", new |-> new, fam |-> 0]]
    /\ UNCHANGED <<tkind, tok, tlock, ttask, tprov, tpark, tback, tfault, thist>>

Move(s, from, to) ==
    /\ tsess[s].phase = from
    /\ tsess' = [tsess EXCEPT ![s].phase = to]
    /\ UNCHANGED <<tkind, tok, tlock, ttask, tprov, tpark, tback, tfault, thist>>

\* The steps before the browser, each within STEP_TIMEOUT.
TokProbe(s) == Move(s, "probing", "discovering")
TokDiscover(s) == Move(s, "discovering", "registering")
TokRegister(s) == Move(s, "registering", "registered")

\* The authorization URL, with this session's nonce and challenge, is published.
TokPublish(s) == Move(s, "registered", "awaiting")

\* The browser comes back with this session's nonce and issuer, through the
\* listener or delivered by the remote shell; what does not match is ignored by
\* the listener and ends a delivered flow.
TokCode(s) == tkind = "mcp" /\ Move(s, "awaiting", "exchanging")

\* The same for an API tool: the local listener (begin, wait_for_redirect_verified)
\* or manage_oauth_complete, which consumes the parked flow before it compares.
TokRedirect(s) == tkind = "byo" /\ Move(s, "awaiting", "exchanging")

\* A step failed or timed out, the user declined, or nobody came.
TokGiveUp(s) ==
    \E phase \in {"probing", "discovering", "registering", "awaiting",
                "exchanging"} :
        Move(s, phase, "failed")

\* exchange: the provider mints a new family.
TokExchange(s) ==
    /\ tsess[s].phase = "exchanging"
    /\ tprov' = Append(tprov, 1)
    /\ tsess' = [tsess EXCEPT ![s].phase = "verifying", ![s].fam = Len(tprov) + 1]
    /\ UNCHANGED <<tkind, tok, tlock, ttask, tpark, tback, tfault, thist>>

\* broadcast of the last phase; the guard of the lock is dropped with the task.
Ends(s, phase) ==
    /\ tsess' = [tsess EXCEPT ![s].phase = phase]
    /\ tlock' = IF tlock = s THEN "free" ELSE tlock

\* Mutant: a reconnect stores its token whether or not a renewal is under way.
HasTurnAnyway(s) == TRUE

\* A reconnect and a renewal replace the same pair: they take turns.
HasTurn(s) == tsess[s].new \/ tlock = "free"

Minted(s) == [fam |-> tsess[s].fam, n |-> 1]

\* MCP, the access token: a new secret and connection, which needs the name to
\* be free still, or edit_credential on the secret of the old one.
TokCommit(s) ==
    /\ tkind = "mcp" /\ tsess[s].phase = "verifying" /\ HasTurn(s)
    /\ \/ /\ tsess[s].new <=> ~tok.exists
          /\ tok' = IF tsess[s].new
                    THEN [tok EXCEPT !.exists = TRUE, !.acc = Minted(s)]
                    ELSE [tok EXCEPT !.acc = Minted(s), !.ver = @ + 1]
          /\ thist' = [thist EXCEPT !.signed = tsess[s].fam]
          /\ tsess' = [tsess EXCEPT ![s].phase = "granting"]
          /\ tlock' = IF tsess[s].new THEN tlock ELSE s
          /\ UNCHANGED tfault
       \/ /\ tsess[s].new /\ tok.exists
          /\ Ends(s, "failed")
          /\ UNCHANGED <<tok, thist, tfault>>
       \/ /\ CanFail("write")
          /\ tfault' = tfault + 1
          /\ Ends(s, "failed")
          /\ UNCHANGED <<tok, thist>>
    /\ UNCHANGED <<tkind, ttask, tprov, tpark, tback>>

\* MCP, the grant and the expiry, best effort.  The first sign-in of a connection
\* holds no lock here: a reconnect may have come and gone in between.
TokSettle(s) ==
    /\ tsess[s].phase = "granting"
    /\ tsess' = [tsess EXCEPT ![s].phase = "checking"]
    /\ \/ /\ tok' = [tok EXCEPT !.rt = Minted(s), !.exp = @ + 1, !.near = FALSE]
          /\ thist' = [thist EXCEPT !.torn = @ \/ thist.signed # tsess[s].fam]
          /\ UNCHANGED tfault
       \/ /\ CanFail("write")
          /\ tfault' = tfault + 1
          /\ thist' = [thist EXCEPT !.torn = TRUE]
          /\ UNCHANGED tok
    /\ UNCHANGED <<tkind, tlock, ttask, tprov, tpark, tback>>

\* MCP, the status check, whose verdict is only a warning.
TokVerify(s) ==
    /\ tsess[s].phase = "checking"
    /\ Ends(s, "succeeded")
    /\ UNCHANGED <<tkind, tok, ttask, tprov, tpark, tback, tfault, thist>>

\* ui_cancel_mcp_auth: the task is aborted at the await it is in; what it had
\* stored stays.
TokCancel(s) ==
    /\ tkind = "mcp" /\ tsess[s].phase \notin Terminal \cup {"none"} /\ CanFail("cancel")
    /\ tfault' = tfault + 1
    /\ thist' = [thist EXCEPT !.torn = @ \/ tsess[s].phase = "granting"]
    /\ Ends(s, "cancelled")
    /\ UNCHANGED <<tkind, tok, ttask, tprov, tpark, tback>>

\* ui_oauth_connect: the token set becomes a secret, the connection refers to it.
Connected(s) == [tok EXCEPT !.exists = TRUE, !.acc = Minted(s), !.rt = Minted(s)]

\* ui_oauth_reconnect: the token set is replaced in place.
Reconnected(s) ==
    [tok EXCEPT !.acc = Minted(s), !.rt = Minted(s), !.ver = @ + 1, !.exp = @ + 1,
                !.near = FALSE]

\* manage_oauth_complete and the local flows: one write, and the lock of the
\* renewals is not taken.
TokComplete(s) ==
    /\ tkind = "byo" /\ tsess[s].phase = "verifying"
    /\ \/ /\ tsess[s].new <=> ~tok.exists
          /\ tok' = IF tsess[s].new THEN Connected(s) ELSE Reconnected(s)
          /\ thist' = [thist EXCEPT !.signed = tsess[s].fam]
          /\ Ends(s, "succeeded")
          /\ UNCHANGED tfault
       \/ /\ tsess[s].new /\ tok.exists
          /\ Ends(s, "failed")
          /\ UNCHANGED <<tok, thist, tfault>>
       \/ /\ CanFail("write")
          /\ tfault' = tfault + 1
          /\ Ends(s, "failed")
          /\ UNCHANGED <<tok, thist>>
    /\ UNCHANGED <<tkind, ttask, tprov, tpark, tback>>

----------------------------------------------------------------------------
TokRenewal(t) ==
    \/ TokAcquire(t) \/ TokStore(t) \/ TokGrant(t) \/ TokRetire(t)
    \/ \E fate \in {"ok", "refuse", "net", "lost", "garbage", "revoke"} : TokPost(t, fate)

TokSession(s) ==
    \/ TokProbe(s) \/ TokDiscover(s) \/ TokRegister(s) \/ TokPublish(s) \/ TokCode(s)
    \/ TokRedirect(s) \/ TokGiveUp(s) \/ TokExchange(s) \/ TokCommit(s) \/ TokSettle(s) \/ TokVerify(s)
    \/ TokComplete(s)

TokNext ==
    \/ TokAge \/ TokTick \/ TokSweep
    \/ \E t \in TokTasks : TokRenewal(t) \/ TokWant(t, TRUE) \/ TokWant(t, FALSE)
    \/ \E s \in TokSess, new \in BOOLEAN : TokSignIn(s, new) \/ TokBegin(s, new)
    \/ \E s \in TokSess : TokSession(s) \/ TokCancel(s)

\* Tasks of the runtime run, requests time out, a mutex of tokio is fair, the
\* sweeper wakes up again.
TokFairness ==
    /\ WF_tokVars(TokTick) /\ WF_tokVars(TokSweep)
    /\ \A t \in TokTasks : SF_tokVars(TokRenewal(t))
    /\ \A s \in TokSess : SF_tokVars(TokSession(s))

TokSpec == TokInit /\ [][TokNext]_tokVars

TokFairSpec == TokSpec /\ TokFairness

----------------------------------------------------------------------------
(* Properties                                                              *)

\* A token of a family that the provider minted, or none.
TokTokens == [fam : 0 .. Len(tprov), n : Nat]

\* Shape of the state: what the catalog holds was minted by the provider, and the lock
\* is held by a caller or a session that is inside.
TokTypeOK ==
    /\ tkind \in TokKinds /\ tback \in BOOLEAN /\ tfault \in 0..TokMaxFaults
    /\ {tok.acc, tok.rt} \subseteq TokTokens /\ tok.exists \in BOOLEAN
    /\ \A t \in TokTasks : tlock = t => ttask[t].pc \notin {"idle", "wait"}
    /\ \A s \in TokSess : tlock = s => tsess[s].phase \in {"granting", "checking"}
    /\ DOMAIN tprov = 1..Len(tprov)

\* What a sign-in stored is replaced by a later sign-in or by its own renewals,
\* never by a renewal or a retirement that began with what was there before: a
\* reconnect and a renewal write the pair in turn (run_flow, step 6).  The
\* exceptions are a grant that the sign-in could not store, was cancelled before,
\* or stored only after the next sign-in.
TokSignInKept ==
    tkind = "mcp" /\ tok.exists /\ ~thist.torn =>
        /\ tok.acc.fam = thist.signed
        /\ tlock \notin TokSess => tok.rt = NoTok \/ tok.rt.fam = thist.signed

\* The same for a tool whose tokens are one secret.
TokSignInAlways ==
    tkind = "byo" /\ tok.exists => tok.acc.fam = thist.signed

\* Renewals never show the provider a refresh token it has already exchanged,
\* unless its answer or the write of its answer was lost: that would read as a
\* replay and end the grant.
TokSpentOnce ==
    \A t \in TokTasks :
        ttask[t].pc = "post" =>
            Current(ttask[t].rt) \/ ttask[t].rt \in thist.lost \cup thist.refused
            \/ tprov[ttask[t].rt.fam] = 0 \/ ttask[t].rt.fam # thist.signed

\* A refused token is not presented again: it is retired before the lock is
\* given up, unless that write failed.
TokNoReplay ==
    \A t \in TokTasks :
        ttask[t].pc = "post" => ttask[t].rt \notin thist.refused \ thist.kept

\* A token that comes near its expiry is renewed, or the grant is given up: the
\* sweeper does not forget it, whatever fails and whoever it waits for.
TokRenewed ==
    tok.near ~> ~tok.near \/ tok.rt = NoTok \/ ParkKey(tok) \in tpark

\* Every sign-in comes to an end, the wait for the lock included.
TokSessionsEnd ==
    \A s \in TokSess : tsess[s].phase # "none" ~> tsess[s].phase \in Terminal

\* Renewals against sign-ins over one token pair: a refresh token is spent once,
\* never replayed, and a fresh sign-in is never overwritten by an old renewal.
TokensSound ==
    /\ TokTypeOK
    /\ TokSignInKept
    /\ TokSpentOnce
    /\ TokNoReplay

\* Nothing of it stays for ever: tokens are renewed or given up, sign-ins end.
TokensEnd ==
    /\ TokRenewed
    /\ TokSessionsEnd
=============================================================================
