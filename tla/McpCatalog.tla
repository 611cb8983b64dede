----------------------------- MODULE McpCatalog -----------------------------
(***************************************************************************)
(* The sessions of the MCP host and the surface each one shows its agent   *)
(* (mcp_host.rs): native tools, and a catalog of upstream tools, resources *)
(* and prompts that is discovered once and kept until the surface of the   *)
(* broker changes.                                                         *)
(*                                                                         *)
(* A change of the broker's connections raises a generation; a task of the *)
(* host copies it and then empties every session's surface.  Requests that *)
(* are under way meanwhile work on a copy of their session.                *)
(***************************************************************************)
EXTENDS Naturals, Sequences, FiniteSets

CONSTANTS
    McConns,        \* connections of the broker
    McSess,         \* session ids; an id is used once
    McReqs,         \* requests under way at a time
    McLimit,        \* SESSION_LIMIT
    McMaxGen,       \* bound on changes of the surface
    McKinds,        \* requests: subset of {"tools", "status", "call", "res"}
    McModes,        \* modes a connection may be given
    McFaults        \* subset of {"list", "discover"}: what may fail

ASSUME McAssumption ==
    /\ McLimit \in Nat \ {0} /\ McMaxGen \in Nat
    /\ McKinds \subseteq {"tools", "status", "call", "res"}
    \* What a connection is to agents: not wired, native (no mcp_path), an MCP
    \* server with all it offers, or one whose tools are curated (allowed_tools).
    /\ McModes \subseteq {"off", "native", "open", "curated"}
    /\ McFaults \subseteq {"list", "discover"}

VARIABLES
    mcworld,    \* connection -> mode
    mcdirty,    \* a change is made and not yet announced
    mcpub,      \* the broker's surface generation
    mcgen,      \* the host's catalog_generation
    mctask,     \* the catalog task: about to empty the sessions?
    mcsess,     \* the sessions
    mcseen,     \* open sessions, least recently seen first
    mcreq       \* the requests

mcVars == <<mcworld, mcdirty, mcpub, mcgen, mctask, mcsess, mcseen, mcreq>>

\* A ProtocolCatalog: pub are the upstream servers it binds, with the mode they
\* had; errs those whose discovery failed; brok: the connections could not be
\* listed.  raced is history: the listing is older than the generation.
EmptyCat(g) == [disc |-> FALSE, gen |-> g, pub |-> {}, errs |-> {}, brok |-> FALSE,
                raced |-> FALSE]

\* What the client was answered last: bindings, the servers not known of, and
\* history: whether nothing changed since before the request, whether the client
\* listened when it asked, whether an upstream tool named was not in the request's
\* own listing.  An answer for which the connections could not be listed says
\* nothing.
NoView == [kind |-> "none", names |-> {}, errs |-> {}, raced |-> FALSE,
           calm |-> FALSE, hears |-> FALSE, ghost |-> FALSE]
NoNames == [some |-> FALSE, names |-> {}]

NoSession == [st |-> "none", init |-> FALSE, stream |-> FALSE, nat |-> {}, cat |-> EmptyCat(0),
              tools |-> NoNames, told |-> FALSE, view |-> NoView]
McNoReq == [pc |-> "idle", s |-> "none", kind |-> "none", cat |-> EmptyCat(0), nat |-> {},
          lst |-> {}, ok |-> FALSE, lgen |-> 0, calm |-> FALSE, hears |-> FALSE, news |-> FALSE]

Bindings(world) == {<<c, world[c]>> : c \in {d \in McConns : world[d] # "off"}}
Native(bs) == {b \in bs : b[2] = "native"}
Upstream(bs) == {b \in bs : b[2] \in {"open", "curated"}}
Resources(bs) == {b \in bs : b[2] = "open"}

McInit ==
    /\ mcworld \in [McConns -> {"off", "open"}]
    /\ mcdirty = FALSE /\ mcpub = 0 /\ mcgen = 0 /\ mctask = "wait"
    /\ mcsess = [s \in McSess |-> NoSession]
    /\ mcseen = <<>>
    /\ mcreq = [r \in McReqs |-> McNoReq]

\* The host has caught up with every change.
Settled == ~mcdirty /\ mcpub = mcgen /\ mctask = "wait"

Live(s) == mcsess[s].st = "open"

----------------------------------------------------------------------------
(* Changes of the surface                                                  *)

\* A connection is added, removed, switched or edited.
McChange(c, mode) ==
    /\ ~mcdirty /\ mcpub < McMaxGen /\ mcworld[c] # mode
    /\ mcworld' = [mcworld EXCEPT ![c] = mode]
    /\ mcdirty' = TRUE
    /\ mcsess' = [s \in McSess |-> [mcsess[s] EXCEPT !.view.calm = FALSE]]
    /\ mcreq' = [r \in McReqs |-> [mcreq[r] EXCEPT !.calm = FALSE]]
    /\ UNCHANGED <<mcpub, mcgen, mctask, mcseen>>

\* notify_agent_surface_changed
McAnnounce ==
    /\ mcdirty
    /\ mcdirty' = FALSE /\ mcpub' = mcpub + 1
    /\ UNCHANGED <<mcworld, mcgen, mctask, mcsess, mcseen, mcreq>>

\* The catalog task of serve: first the generation ...
McTaskStore ==
    /\ mctask = "wait" /\ mcgen # mcpub
    /\ mcgen' = mcpub /\ mctask' = "stored"
    /\ UNCHANGED <<mcworld, mcdirty, mcpub, mcsess, mcseen, mcreq>>

\* invalidate_agent_surfaces, one session: the surface is emptied and an
\* initialised client that listens is told.
Invalidated(x) ==
    [x EXCEPT !.nat = {}, !.cat = EmptyCat(mcgen), !.tools = NoNames,
              !.told = @ \/ (x.init /\ x.stream /\ x.view.kind = "tools")]

\* ... then the sessions.
McTaskInvalidate ==
    /\ mctask = "stored"
    /\ mctask' = "wait"
    /\ mcsess' = [s \in McSess |-> IF Live(s) THEN Invalidated(mcsess[s]) ELSE mcsess[s]]
    /\ mcreq' = [r \in McReqs |-> [mcreq[r] EXCEPT !.news =
                    @ \/ (mcreq[r].hears /\ mcreq[r].kind = "tools" /\ Live(mcreq[r].s))]]
    /\ UNCHANGED <<mcworld, mcdirty, mcpub, mcgen, mcseen>>

----------------------------------------------------------------------------
(* Sessions                                                                *)

\* initialize: the generation is read ...
McInitialize(s) ==
    /\ mcsess[s].st = "none"
    /\ mcsess' = [mcsess EXCEPT ![s].st = "new", ![s].cat = EmptyCat(mcgen)]
    /\ UNCHANGED <<mcworld, mcdirty, mcpub, mcgen, mctask, mcseen, mcreq>>

Gone(x) == [NoSession EXCEPT !.st = "gone"]

\* ... before SessionStore::insert, which makes room at the limit.
McInsert(s) ==
    /\ mcsess[s].st = "new"
    /\ IF Len(mcseen) >= McLimit
       THEN /\ mcsess' = [mcsess EXCEPT ![s].st = "open", ![Head(mcseen)] = Gone(@)]
            /\ mcseen' = Append(Tail(mcseen), s)
       ELSE /\ mcsess' = [mcsess EXCEPT ![s].st = "open"]
            /\ mcseen' = Append(mcseen, s)
    /\ UNCHANGED <<mcworld, mcdirty, mcpub, mcgen, mctask, mcreq>>

Without(s) ==
    LET at == CHOOSE i \in DOMAIN mcseen : mcseen[i] = s
    IN SubSeq(mcseen, 1, at - 1) \o SubSeq(mcseen, at + 1, Len(mcseen))
Seen(s) == Append(Without(s), s)

\* DELETE by its client; or SESSION_IDLE has passed and a sweep finds the session
\* seen least recently.
McRemove(s) ==
    /\ Live(s)
    /\ mcsess' = [mcsess EXCEPT ![s] = Gone(@)]
    /\ mcseen' = Without(s)
    /\ UNCHANGED <<mcworld, mcdirty, mcpub, mcgen, mctask, mcreq>>

\* notifications/initialized
McInitialized(s) ==
    /\ Live(s) /\ ~mcsess[s].init
    /\ mcsess' = [mcsess EXCEPT ![s].init = TRUE]
    /\ mcseen' = Seen(s)
    /\ UNCHANGED <<mcworld, mcdirty, mcpub, mcgen, mctask, mcreq>>

\* GET: event_stream subscribes; what was sent before is not heard.
McStream(s) ==
    /\ Live(s) /\ ~mcsess[s].stream
    /\ mcsess' = [mcsess EXCEPT ![s].stream = TRUE]
    /\ mcseen' = Seen(s)
    /\ UNCHANGED <<mcworld, mcdirty, mcpub, mcgen, mctask, mcreq>>

----------------------------------------------------------------------------
(* Requests.  "tools": tools/list; "status": multitool_status; "call": a   *)
(* tools/call of a name the session does not know (refreshed_surfaces);    *)
(* "res": the requests on resources, templates and prompts.                *)

\* handle, handle_session: the request takes a copy of its session.
McBegin(r, s, kind) ==
    /\ mcreq[r].pc = "idle" /\ Live(s)
    /\ mcseen' = Seen(s)
    /\ LET x == mcsess[s] IN
       mcreq' = [mcreq EXCEPT ![r] =
         [pc |-> IF kind = "res" /\ x.cat.disc THEN "answer" ELSE "fetch",
          s |-> s, kind |-> kind, cat |-> x.cat, nat |-> x.nat, lst |-> {}, ok |-> TRUE,
          lgen |-> 0, calm |-> kind \in {"tools", "res"} /\ Settled,
          hears |-> kind = "tools" /\ x.init /\ x.stream, news |-> FALSE]]
    /\ UNCHANGED <<mcworld, mcdirty, mcpub, mcgen, mctask, mcsess>>

\* last_seen, of a session that is still there.
Touch(s) == mcseen' = IF Live(s) THEN Seen(s) ELSE mcseen

\* replace_native_tools
PutNative(s, nat) ==
    /\ mcsess' = IF Live(s) THEN [mcsess EXCEPT ![s].nat = nat] ELSE mcsess
    /\ Touch(s)

\* connections: the broker's list, and the native tools of it (a request on
\* resources keeps them to itself).  A status that cannot be had is the answer.
McFetch(r) ==
    LET q == mcreq[r] lst == Bindings(mcworld) IN
    /\ q.pc = "fetch"
    /\ \/ /\ mcreq' = [mcreq EXCEPT ![r].pc = "ensure", ![r].lst = lst, ![r].lgen = mcpub,
                                    ![r].nat = IF q.kind = "res" THEN @ ELSE Native(lst)]
          /\ IF q.kind = "res" THEN UNCHANGED <<mcsess, mcseen>> ELSE PutNative(q.s, Native(lst))
       \/ /\ "list" \in McFaults
          /\ mcreq' = [mcreq EXCEPT ![r] = IF q.kind = "status" THEN McNoReq
                                           ELSE [q EXCEPT !.pc = "ensure", !.ok = FALSE]]
          /\ UNCHANGED <<mcsess, mcseen>>
    /\ UNCHANGED <<mcworld, mcdirty, mcpub, mcgen, mctask>>

\* Mutant: any catalog is kept.
StoredAny(s, cat) ==
    /\ mcsess' = IF Live(s) THEN [mcsess EXCEPT ![s].cat = cat] ELSE mcsess
    /\ Touch(s)

\* replace_protocol_catalog: only a catalog of the session's generation is kept.
Stored(s, cat) ==
    IF Live(s) /\ mcsess[s].cat.gen = cat.gen
    THEN mcsess' = [mcsess EXCEPT ![s].cat = cat] /\ mcseen' = Seen(s)
    ELSE UNCHANGED <<mcsess, mcseen>>

\* What ensure_protocol_catalog keeps of a discovered catalog: the bindings whose
\* connection is listed now as it was captured.
Kept(cat, lst) ==
    [cat EXCEPT !.pub = @ \cap Upstream(lst),
                !.errs = {c \in @ : \E b \in Upstream(lst) : b[1] = c}]

\* A listing that cannot be had is kept like a discovery.
Unlisted == [EmptyCat(mcgen) EXCEPT !.disc = TRUE, !.brok = TRUE]

\* ensure_protocol_catalog loads the generation: a catalog discovered under it is
\* trimmed to the listing, without a listing it is shown as it is; no listing and
\* no catalog is an error; otherwise the servers listed are asked.
McEnsure(r) ==
    LET q == mcreq[r]
        known == q.cat.disc /\ q.cat.gen = mcgen
        done(cat) == [mcreq EXCEPT ![r].pc = "answer", ![r].cat = cat, ![r].lgen = 0]
    IN
    /\ q.pc = "ensure"
    /\ \/ /\ known /\ q.ok
          /\ mcreq' = done(Kept(q.cat, q.lst))
          /\ Stored(q.s, Kept(q.cat, q.lst))
       \/ /\ known /\ ~q.ok
          /\ mcreq' = done(q.cat)
          /\ UNCHANGED <<mcsess, mcseen>>
       \/ /\ ~known /\ ~q.ok
          /\ mcreq' = done(Unlisted)
          /\ Stored(q.s, Unlisted)
       \/ /\ ~known /\ q.ok
          /\ mcreq' = [mcreq EXCEPT ![r].pc = "discover", ![r].lgen = 0,
                         ![r].cat = [EmptyCat(mcgen) EXCEPT !.raced = q.lgen < mcgen]]
          /\ UNCHANGED <<mcsess, mcseen>>
    /\ UNCHANGED <<mcworld, mcdirty, mcpub, mcgen, mctask>>

\* discover_connection_bounded for each server listed, at once and twice if need
\* be: the servers that may fail, each for itself.
Failing(lst) ==
    IF "discover" \in McFaults THEN SUBSET {b[1] : b \in Upstream(lst)} ELSE {{}}

\* The servers that answered are bound.
Discovered(cat, lst, errs) ==
    [cat EXCEPT !.disc = TRUE, !.errs = errs,
                !.pub = {b \in Upstream(lst) : b[1] \notin errs}]

McDiscover(r) ==
    LET q == mcreq[r] IN
    /\ q.pc = "discover"
    /\ \E errs \in Failing(q.lst) :
         LET cat == Discovered(q.cat, q.lst, errs) IN
         /\ Stored(q.s, cat)
         /\ mcreq' = [mcreq EXCEPT ![r].pc = "answer", ![r].cat = cat]
    /\ UNCHANGED <<mcworld, mcdirty, mcpub, mcgen, mctask>>

\* note_catalog: the client that listens is told when what it was shown before
\* differs.
Noted(names) == [some |-> TRUE, names |-> names]
Differs(was, names) == was.some /\ was.names # names

\* What the client is shown, and what is remembered of it.
View(q, names) ==
    IF q.cat.brok \/ ~q.ok THEN NoView ELSE
    [kind |-> q.kind, names |-> names, errs |-> q.cat.errs, raced |-> q.cat.raced,
     calm |-> q.calm, hears |-> q.hears,
     ghost |-> q.kind = "tools" /\ ~(q.cat.pub \subseteq q.lst)]
Shown(q) == q.nat \cup q.cat.pub

\* list_tools answers its list and notes the names.
ListTools(x, q) ==
    [x EXCEPT !.tools = Noted(Shown(q)), !.view = View(q, Shown(q)),
              !.told = q.news \/ (q.hears /\ Differs(x.tools, Shown(q)))]

\* status_result notes the names too; they are not what the client keeps.
StatusResult(x, q) ==
    [x EXCEPT !.tools = Noted(Shown(q)),
              !.told = @ \/ (x.stream /\ x.view.kind = "tools" /\ Differs(x.tools, Shown(q)))]

\* call_tool goes on with the binding it found and notes nothing.
CallTool(x, q) == x

\* list_resources and its like.  (What they note, and the notifications about
\* resources and prompts, are left out.)
ListResources(x, q) == [x EXCEPT !.view = View(q, Resources(q.cat.pub)), !.told = FALSE]

McAnswer(r) ==
    LET q == mcreq[r] x == mcsess[q.s] IN
    /\ q.pc = "answer"
    /\ mcreq' = [mcreq EXCEPT ![r] = McNoReq]
    /\ mcsess' = IF ~Live(q.s) THEN mcsess ELSE [mcsess EXCEPT ![q.s] =
         CASE q.kind = "tools" -> ListTools(x, q)
           [] q.kind = "status" -> StatusResult(x, q)
           [] q.kind = "call" -> CallTool(x, q)
           [] q.kind = "res" -> ListResources(x, q)]
    /\ IF q.kind = "call" THEN UNCHANGED mcseen ELSE Touch(q.s)
    /\ UNCHANGED <<mcworld, mcdirty, mcpub, mcgen, mctask>>

McNext ==
    \/ \E c \in McConns, m \in McModes : McChange(c, m)
    \/ McAnnounce \/ McTaskStore \/ McTaskInvalidate
    \/ \E s \in McSess : McInitialize(s) \/ McInsert(s) \/ McRemove(s)
                         \/ McInitialized(s) \/ McStream(s)
    \/ \E r \in McReqs, s \in McSess, k \in McKinds : McBegin(r, s, k)
    \/ \E r \in McReqs : McFetch(r) \/ McEnsure(r) \/ McDiscover(r) \/ McAnswer(r)

McSpec == McInit /\ [][McNext]_mcVars

----------------------------------------------------------------------------
(* Properties                                                              *)

\* The store holds no more sessions than SESSION_LIMIT, each once, and the
\* recency order names exactly the open ones.
McTypeOK ==
    /\ Len(mcseen) <= McLimit
    /\ {mcseen[i] : i \in DOMAIN mcseen} = {s \in McSess : Live(s)}
    /\ \A i, j \in DOMAIN mcseen : mcseen[i] = mcseen[j] => i = j
    /\ \A s \in McSess : Live(s) => mcsess[s].cat.gen <= mcgen
    /\ mcgen <= mcpub /\ mcpub <= McMaxGen
    /\ mctask \in {"wait", "stored"}

\* What a view says of the connections it knows of is what holds now.
Truth(k) == IF k = "tools" THEN Bindings(mcworld) ELSE Resources(Bindings(mcworld))
Accurate(v, k) ==
    {b \in v.names : b[1] \notin v.errs} = {b \in Truth(k) : b[1] \notin v.errs}

\* A client that lists when every change has been taken in is shown the surface
\* as it is, unless its catalog was built from a listing that is older than the
\* generation it was filed under (see McListCurrent).
McCalmCurrent ==
    \A s \in McSess :
        LET v == mcsess[s].view IN
        v.kind # "none" /\ v.calm /\ ~v.raced => Accurate(v, v.kind)

\* A client that listens and whose list of tools is out of date has been told so
\* once the host has taken the change in, or heard of it while its request was
\* under way.
McClientKnows ==
    \A s \in McSess :
        LET x == mcsess[s] v == x.view IN
        Settled /\ Live(s) /\ v.kind = "tools" /\ v.hears /\ ~v.raced =>
            Accurate(v, "tools") \/ x.told

\* An answer to tools/list names no upstream tool whose connection is missing from
\* the listing that the same request fetched, or was edited since it was captured.
McNoGhost == \A s \in McSess : ~mcsess[s].view.ghost

\* "Bring a session's native tools and protocol catalog up to date": a client that
\* lists its tools after every change was taken in sees the tools as they are.
McListCurrent ==
    \A s \in McSess :
        LET v == mcsess[s].view IN
        v.kind = "tools" /\ v.calm => Accurate(v, "tools")

\* The cached tool lists against changes of access and of the upstream: a client
\* that was told nothing new still holds what is true.
McpCatalogSound ==
    /\ McTypeOK
    /\ McCalmCurrent
    /\ McClientKnows
    /\ McNoGhost
=============================================================================
