---------------------------- MODULE TokensProofs ----------------------------
(***************************************************************************)
(* One token pair, its renewals and its sign-ins, for any callers, any     *)
(* sessions, any bounds and any faults.  The tokens are told apart by the  *)
(* family that a sign-in minted; the proof follows who holds what of each. *)
(***************************************************************************)
EXTENDS Tokens, TLAPS

-----------------------------------------------------------------------------

TkToken == [fam : Nat, n : Nat]
TkInside == {"post", "store", "grant", "retire"}
TkPhases == {"none", "probing", "discovering", "registering", "registered", "awaiting",
             "exchanging", "verifying", "granting", "checking"} \cup Terminal

\* The type of each variable.
TkShape ==
    /\ tkind \in TokKinds /\ tback \in BOOLEAN /\ tfault \in 0 .. TokMaxFaults
    /\ tok \in [exists : BOOLEAN, acc : TkToken, ver : Nat, rt : TkToken, exp : Nat, near : BOOLEAN]
    /\ ttask \in [TokTasks -> [pc : {"idle", "wait"} \cup TkInside, force : BOOLEAN, ver : Nat,
                               rt : TkToken, key : Nat]]
    /\ tsess \in [TokSess -> [phase : TkPhases, new : BOOLEAN, fam : Nat]]
    /\ tprov \in Seq(Nat)
    /\ thist \in [signed : Nat, lost : SUBSET TkToken, refused : SUBSET TkToken,
                  kept : SUBSET TkToken, torn : BOOLEAN]

\* The lock is held by the caller that is inside, or by a session that stores.
TkLock ==
    /\ \A t \in TokTasks : ttask[t].pc \in TkInside <=> tlock = t
    /\ \A s \in TokSess : tlock = s => tsess[s].phase \in {"granting", "checking"}
    /\ \A s \in TokSess : tsess[s].phase = "granting" => tok.exists
    /\ ~tok.exists => tok.rt = NoTok /\ \A t \in TokTasks : ttask[t].pc = "idle"

\* Minted by the provider, and not from its future.
TkMinted(rt, prov) ==
    /\ rt.fam \in 1 .. Len(prov) /\ rt.n > 0
    /\ prov[rt.fam] = 0 \/ rt.n <= prov[rt.fam]

\* The family a session is about to store: nobody has used it.
TkFresh(s) ==
    /\ tsess[s].fam \in 1 .. Len(tprov) /\ tprov[tsess[s].fam] = 1
    /\ tok.rt.fam # tsess[s].fam
    /\ \A t \in TokTasks : ttask[t].pc \in TkInside => ttask[t].rt.fam # tsess[s].fam
    /\ \A r \in thist.refused : r.fam # tsess[s].fam
Storing(s) == tsess[s].phase \in {"verifying", "granting"}

\* Who holds what of each family.
TkFamilies ==
    /\ tok.acc.fam \in 0 .. Len(tprov)
    /\ tok.rt # NoTok => TkMinted(tok.rt, tprov)
    /\ \A t \in TokTasks : ttask[t].pc \in TkInside => TkMinted(ttask[t].rt, tprov)
    /\ \A t \in TokTasks : ttask[t].pc \in {"store", "grant"} =>
           tprov[ttask[t].rt.fam] = ttask[t].rt.n + 1
    /\ \A r \in thist.refused : TkMinted(r, tprov) /\ ~Current(r)
    /\ \A s \in TokSess : Storing(s) => TkFresh(s)
    /\ \A s, r \in TokSess : Storing(s) /\ Storing(r) /\ tsess[s].fam = tsess[r].fam => s = r

\* The provider still expects it, or it is known why not.
TkGood(rt) == Current(rt) \/ rt \in thist.lost \cup thist.refused \/ tprov[rt.fam] = 0

\* The refresh token that is stored is good unless its successor is on the way, and
\* was not refused unless it is about to be retired; what is presented is both.
TkSpent ==
    /\ tok.rt # NoTok =>
        \/ TkGood(tok.rt)
        \/ \E t \in TokTasks : ttask[t].pc \in {"store", "grant"} /\ ttask[t].rt = tok.rt
    /\ tok.rt \in thist.refused \ thist.kept =>
        \E t \in TokTasks : ttask[t].pc = "retire" /\ ttask[t].rt = tok.rt
    /\ \A t \in TokTasks : ttask[t].pc = "post" =>
        TkGood(ttask[t].rt) /\ ttask[t].rt \notin thist.refused \ thist.kept

\* Of an MCP connection: everything is of the sign-in that was last, unless one was torn.
TkKept ==
    tkind = "mcp" /\ tok.exists /\ ~thist.torn =>
        /\ tok.acc.fam = thist.signed
        /\ \A t \in TokTasks : ttask[t].pc \in TkInside => ttask[t].rt.fam = thist.signed
        /\ tlock \notin TokSess \/ (\E s \in TokSess : tlock = s /\ tsess[s].phase = "checking") =>
               tok.rt = NoTok \/ tok.rt.fam = thist.signed

\* The inductive invariant of the token pair.
TkInv == TkShape /\ TkLock /\ TkFamilies /\ TkSpent /\ TkKept

LEMMA TkInitInv == TokInit => TkInv
<1> SUFFICES ASSUME TokInit PROVE TkInv
  OBVIOUS
<1> USE TokAssumption
<1>1. TkShape
  <2>1. NoTok \in TkToken /\ [fam |-> 1, n |-> 1] \in TkToken
    BY DEF TkToken, NoTok
  <2>2. tok \in [exists : BOOLEAN, acc : TkToken, ver : Nat, rt : TkToken, exp : Nat, near : BOOLEAN]
    <3>1. CASE tok = [exists |-> FALSE, acc |-> NoTok, ver |-> 0, rt |-> NoTok, exp |-> 0, near |-> FALSE]
      BY <3>1, <2>1
    <3>2. CASE tok = [exists |-> TRUE, acc |-> [fam |-> 1, n |-> 1], ver |-> 0,
                      rt |-> [fam |-> 1, n |-> 1], exp |-> 0, near |-> FALSE]
      BY <3>2, <2>1
    <3> QED BY <3>1, <3>2 DEF TokInit
  <2>3. tprov \in Seq(Nat)
    BY DEF TokInit
  <2>4. ttask \in [TokTasks -> [pc : {"idle", "wait"} \cup TkInside, force : BOOLEAN, ver : Nat,
                               rt : TkToken, key : Nat]]
    BY <2>1 DEF TokInit, TokIdle
  <2>5. tsess \in [TokSess -> [phase : TkPhases, new : BOOLEAN, fam : Nat]]
    BY DEF TokInit, NoSess, TkPhases
  <2>6. thist \in [signed : Nat, lost : SUBSET TkToken, refused : SUBSET TkToken,
                  kept : SUBSET TkToken, torn : BOOLEAN]
    BY DEF TokInit
  <2>7. tkind \in TokKinds /\ tfault \in 0 .. TokMaxFaults
    BY DEF TokInit
  <2>8. tback \in BOOLEAN
    BY DEF TokInit
  <2> QED BY <2>2, <2>3, <2>4, <2>5, <2>6, <2>7, <2>8, Zenon DEF TkShape
<1>2. TkLock
  BY DEF TokInit, TkLock, TokIdle, TkInside, NoTok, NoSess
<1>3. TkFamilies
  BY DEF TokInit, TkFamilies, TkMinted, TokIdle, TkInside, NoTok, NoSess, Storing
<1>4. TkSpent
  BY DEF TokInit, TkSpent, TkGood, Current, TokIdle, NoTok
<1>5. TkKept
  BY DEF TokInit, TkKept, TokIdle, TkInside, NoTok
<1> QED BY <1>1, <1>2, <1>3, <1>4, <1>5 DEF TkInv

\* A step of a session before it stores anything, or a new one.
TkBrowses(s) ==
    /\ \A r \in TokSess : r # s => tsess'[r] = tsess[r]
    /\ ~(tsess[s].phase \in {"granting", "checking"}) /\ tsess'[s].phase \notin {"verifying", "granting"}
    /\ tsess' \in [TokSess -> [phase : TkPhases, new : BOOLEAN, fam : Nat]]
    /\ UNCHANGED <<tkind, tok, tlock, ttask, tprov, tpark, tback, tfault, thist>>

LEMMA TkBrowsing ==
  ASSUME TkInv, NEW s \in TokSess, TkBrowses(s)
  PROVE  TkInv'
<1>0. UNCHANGED <<tkind, tok, tlock, ttask, tprov, tback, tfault, thist>>
  BY DEF TkBrowses
<1>1. TkShape'
  BY <1>0 DEF TkInv, TkShape, TkBrowses
<1>2. TkLock'
  BY <1>0 DEF TkInv, TkLock, TkBrowses
<1>3. TkFamilies'
  BY <1>0 DEF TkInv, TkFamilies, TkBrowses, TkMinted, Storing, TkFresh, Current
<1>4. TkSpent'
  BY <1>0 DEF TkInv, TkSpent, TkGood, Current
<1>5. TkKept'
  BY <1>0 DEF TkInv, TkKept, TkBrowses, TkLock
<1> QED BY <1>1, <1>2, <1>3, <1>4, <1>5 DEF TkInv

LEMMA TkSignIns ==
  ASSUME TkInv, NEW s \in TokSess, NEW new \in BOOLEAN, TokSignIn(s, new) \/ TokBegin(s, new)
  PROVE  TkInv'
<1> DEFINE phase == IF tkind = "mcp" THEN "probing" ELSE "awaiting"
           sess == [phase |-> phase, new |-> new, fam |-> 0]
<1>1. /\ tsess' = [tsess EXCEPT ![s] = sess] /\ tsess[s] = NoSess
      /\ UNCHANGED <<tkind, tok, tlock, ttask, tprov, tpark, tback, tfault, thist>>
  BY DEF TokSignIn, TokBegin
<1>2. sess \in [phase : TkPhases, new : BOOLEAN, fam : Nat] /\ sess.phase \in {"probing", "awaiting"}
  BY DEF TkPhases
<1>3. tsess \in [TokSess -> [phase : TkPhases, new : BOOLEAN, fam : Nat]]
  BY DEF TkInv, TkShape
<1> HIDE DEF sess
<1>4. TkBrowses(s)
  BY <1>1, <1>2, <1>3 DEF TkBrowses, NoSess
<1> QED BY <1>4, TkBrowsing

LEMMA TkMoves ==
  ASSUME TkInv, NEW s \in TokSess,
         NEW from \in {"probing", "discovering", "registering", "registered", "awaiting", "exchanging"},
         NEW to \in {"discovering", "registering", "registered", "awaiting", "exchanging", "failed"},
         Move(s, from, to)
  PROVE  TkInv'
<1>1. TkBrowses(s)
  BY DEF TkInv, TkShape, TkBrowses, Move, TkPhases, Terminal
<1> QED BY <1>1, TkBrowsing

LEMMA TkExchange ==
  ASSUME TkInv, NEW s \in TokSess, TokExchange(s)
  PROVE  TkInv'
<1> DEFINE n == Len(tprov) + 1
<1>0. UNCHANGED <<tkind, tok, tlock, ttask, tback, tfault, thist>>
  BY DEF TokExchange
<1>a. /\ tprov' \in Seq(Nat) /\ Len(tprov') = n /\ tprov'[n] = 1
      /\ \A i \in 1 .. Len(tprov) : tprov'[i] = tprov[i]
      /\ n \in Nat /\ Len(tprov) \in Nat
  BY DEF TkInv, TkShape, TokExchange
<1>b. /\ tsess' \in [TokSess -> [phase : TkPhases, new : BOOLEAN, fam : Nat]]
      /\ \A r \in TokSess : r # s => tsess'[r] = tsess[r]
      /\ tsess'[s].phase = "verifying" /\ tsess'[s].fam = n /\ tsess[s].phase = "exchanging"
  <2> DEFINE sess == [tsess[s] EXCEPT !.phase = "verifying", !.fam = n]
  <2>1. tsess' = [tsess EXCEPT ![s] = sess] /\ tsess[s].phase = "exchanging"
    BY DEF TokExchange
  <2>2. tsess \in [TokSess -> [phase : TkPhases, new : BOOLEAN, fam : Nat]]
    BY DEF TkInv, TkShape
  <2>3. sess \in [phase : TkPhases, new : BOOLEAN, fam : Nat] /\ sess.phase = "verifying" /\ sess.fam = n
    BY <1>a, <2>2 DEF TkPhases
  <2> HIDE DEF sess
  <2> QED BY <2>1, <2>2, <2>3
<1> HIDE DEF n
<1>c. \A rt \in TkToken : TkMinted(rt, tprov) => TkMinted(rt, tprov') /\ tprov'[rt.fam] = tprov[rt.fam]
                                                 /\ rt.fam # n
  BY <1>a DEF TkMinted, TkToken, n
<1>1. TkShape'
  BY <1>0, <1>a, <1>b DEF TkInv, TkShape
<1>2. TkLock'
  BY <1>0, <1>b DEF TkInv, TkLock
<1>3. TkFamilies'
  <2>1. tok.rt \in TkToken /\ tok.acc.fam \in 0 .. Len(tprov') /\ \A t \in TokTasks : ttask[t].rt \in TkToken
    BY <1>a DEF TkInv, TkShape, TkFamilies, n
  <2>2. tok.rt # NoTok => TkMinted(tok.rt, tprov')
    BY <1>c, <2>1 DEF TkInv, TkFamilies
  <2>3. tok.rt.fam # n
    BY <1>a, <1>c, <2>1 DEF TkInv, TkFamilies, NoTok, n
  <2>4. \A t \in TokTasks : ttask[t].pc \in TkInside => TkMinted(ttask[t].rt, tprov') /\ ttask[t].rt.fam # n
    BY <1>c, <2>1 DEF TkInv, TkFamilies
  <2>5. \A t \in TokTasks : ttask[t].pc \in {"store", "grant"} => tprov'[ttask[t].rt.fam] = ttask[t].rt.n + 1
    BY <1>c, <2>1 DEF TkInv, TkFamilies, TkInside
  <2>6. \A r \in thist.refused : TkMinted(r, tprov') /\ tprov'[r.fam] # r.n /\ r.fam # n
    BY <1>c DEF TkInv, TkFamilies, TkShape, Current
  <2>7. \A r \in TokSess : Storing(r)' => TkFresh(r)'
    BY <1>0, <1>a, <1>b, <2>3, <2>4, <2>6 DEF TkInv, TkFamilies, Storing, TkFresh, n
  <2>8. \A r, q \in TokSess : Storing(r)' /\ Storing(q)' /\ tsess'[r].fam = tsess'[q].fam => q = r
    BY <1>a, <1>b DEF TkInv, TkFamilies, Storing, TkFresh, n
  <2> QED BY <1>0, <2>1, <2>2, <2>4, <2>5, <2>6, <2>7, <2>8 DEF TkFamilies, Current, TkToken
<1>4. TkSpent'
  <2>1. \A rt \in TkToken : TkMinted(rt, tprov) /\ TkGood(rt) => TkGood(rt)'
    BY <1>0, <1>c DEF TkGood, Current
  <2>2. tok.rt \in TkToken /\ \A t \in TokTasks : ttask[t].rt \in TkToken
    BY DEF TkInv, TkShape
  <2>3. tok.rt # NoTok => TkMinted(tok.rt, tprov)
    BY DEF TkInv, TkFamilies
  <2>4. \A t \in TokTasks : ttask[t].pc = "post" => TkMinted(ttask[t].rt, tprov)
    BY DEF TkInv, TkFamilies, TkInside
  <2> QED BY <1>0, <2>1, <2>2, <2>3, <2>4 DEF TkInv, TkSpent
<1>5. TkKept'
  BY <1>0, <1>b DEF TkInv, TkKept, TkLock
<1> QED BY <1>1, <1>2, <1>3, <1>4, <1>5 DEF TkInv

\* A session that ends lets go of the lock, if it had it; it leaves the tokens alone.
TkCloses(s, phase) ==
    /\ phase \in Terminal /\ Ends(s, phase)
    /\ tsess[s].phase = "granting" => thist'.torn
    /\ thist' = thist \/ thist' = [thist EXCEPT !.torn = TRUE]
    /\ tfault' \in 0 .. TokMaxFaults
    /\ UNCHANGED <<tkind, tok, ttask, tprov, tback>>

LEMMA TkClosing ==
  ASSUME TkInv, NEW s \in TokSess, NEW phase, TkCloses(s, phase)
  PROVE  TkInv'
<1>0. UNCHANGED <<tkind, tok, ttask, tprov, tback>>
  BY DEF TkCloses
<1>a. /\ tsess' \in [TokSess -> [phase : TkPhases, new : BOOLEAN, fam : Nat]]
      /\ \A r \in TokSess : r # s => tsess'[r] = tsess[r]
      /\ tsess'[s].phase \in Terminal
  BY DEF TkInv, TkShape, TkCloses, Ends, TkPhases
<1>b. /\ thist' \in [signed : Nat, lost : SUBSET TkToken, refused : SUBSET TkToken,
                  kept : SUBSET TkToken, torn : BOOLEAN]
      /\ thist'.signed = thist.signed /\ thist'.lost = thist.lost /\ thist'.refused = thist.refused
      /\ thist'.kept = thist.kept
  BY DEF TkInv, TkShape, TkCloses
<1>c. thist.torn => thist'.torn
  BY DEF TkInv, TkShape, TkCloses
<1>d. tlock' = (IF tlock = s THEN "free" ELSE tlock)
  BY DEF TkCloses, Ends
<1>1. TkShape'
  BY <1>0, <1>a, <1>b DEF TkInv, TkShape, TkCloses
<1>2. TkLock'
  BY TokAssumption, <1>0, <1>a, <1>d DEF TkInv, TkLock, Terminal
<1>3. TkFamilies'
  BY <1>0, <1>a, <1>b DEF TkInv, TkFamilies, TkMinted, Storing, TkFresh, Current, Terminal
<1>4. TkSpent'
  BY <1>0, <1>b DEF TkInv, TkSpent, TkGood, Current
<1>5. TkKept'
  <2> SUFFICES ASSUME tkind = "mcp", tok.exists, ~thist'.torn
               PROVE  TkKept'
    BY <1>0 DEF TkKept
  <2>1. /\ ~thist.torn
        /\ tok.acc.fam = thist.signed
        /\ \A t \in TokTasks : ttask[t].pc \in TkInside => ttask[t].rt.fam = thist.signed
    BY <1>c DEF TkInv, TkKept
  <2>2. CASE tlock = s
    <3>1. tsess[s].phase = "checking"
      BY <2>2 DEF TkInv, TkLock, TkCloses
    <3>2. tok.rt = NoTok \/ tok.rt.fam = thist.signed
      BY <2>1, <2>2, <3>1 DEF TkInv, TkKept
    <3> QED BY <1>0, <1>b, <2>1, <3>2 DEF TkKept
  <2>3. CASE tlock # s
    <3>1. tlock' = tlock
      BY <1>d, <2>3
    <3>2. \A r \in TokSess : tlock = r => tsess'[r] = tsess[r]
      BY <1>a, <2>3
    <3> QED BY <1>0, <1>b, <2>1, <3>1, <3>2 DEF TkInv, TkKept
  <2> QED BY <2>2, <2>3
<1> QED BY <1>1, <1>2, <1>3, <1>4, <1>5 DEF TkInv

\* A session's tokens are the first of a family that nobody has used: whoever stores
\* them leaves the families and what was spent in order.
TkPairs(s) ==
    /\ Storing(s) /\ tok'.rt = Minted(s) /\ tok'.acc.fam \in {tok.acc.fam, tsess[s].fam}
    /\ tok' \in [exists : BOOLEAN, acc : TkToken, ver : Nat, rt : TkToken, exp : Nat, near : BOOLEAN]
    /\ \A r \in TokSess : r # s => tsess'[r] = tsess[r]
    /\ tsess'[s].phase \in {"checking", "succeeded"}
    /\ thist'.lost = thist.lost /\ thist'.refused = thist.refused /\ thist'.kept = thist.kept
    /\ UNCHANGED <<ttask, tprov>>

LEMMA TkPairing ==
  ASSUME TkInv, NEW s \in TokSess, TkPairs(s)
  PROVE  TkFamilies' /\ TkSpent'
<1> DEFINE f == tsess[s].fam
<1>1. /\ f \in 1 .. Len(tprov) /\ tprov[f] = 1
      /\ \A t \in TokTasks : ttask[t].pc \in TkInside => ttask[t].rt.fam # f
      /\ \A r \in thist.refused : r.fam # f
      /\ \A r \in TokSess : Storing(r) /\ r # s => tsess[r].fam # f
  BY DEF TkInv, TkFamilies, TkFresh, TkPairs
<1>2. UNCHANGED <<ttask, tprov>> /\ thist'.lost = thist.lost /\ thist'.refused = thist.refused
      /\ thist'.kept = thist.kept
  BY DEF TkPairs
<1>3. tok'.rt.fam = f /\ tok'.rt.n = 1 /\ tok'.acc.fam \in {tok.acc.fam, f}
  BY DEF TkPairs, Minted
<1>4. Len(tprov) \in Nat
  BY DEF TkInv, TkShape
<1>5. \A r \in TokSess : Storing(r)' => r # s /\ Storing(r) /\ tsess'[r] = tsess[r]
  BY DEF TkPairs, Storing
<1> HIDE DEF f
<1>6. TkFamilies'
  <2>1. tok'.acc.fam \in 0 .. Len(tprov')
    BY <1>1, <1>2, <1>3, <1>4 DEF TkInv, TkFamilies
  <2>2. TkMinted(tok.rt, tprov)'
    BY <1>1, <1>2, <1>3 DEF TkMinted
  <2>3. \A r \in TokSess : Storing(r)' => TkFresh(r)'
    BY <1>1, <1>2, <1>3, <1>5 DEF TkInv, TkFamilies, TkFresh
  <2>4. \A r, q \in TokSess : Storing(r)' /\ Storing(q)' /\ tsess'[r].fam = tsess'[q].fam => r = q
    BY <1>5 DEF TkInv, TkFamilies
  <2> QED BY <1>2, <2>1, <2>2, <2>3, <2>4 DEF TkInv, TkFamilies, TkMinted, Current
<1>7. TkSpent'
  <2>1. TkGood(tok.rt)'
    BY <1>1, <1>2, <1>3 DEF TkGood, Current
  <2>2. tok'.rt \notin thist'.refused
    BY <1>1, <1>2, <1>3
  <2> QED BY <1>2, <2>1, <2>2 DEF TkInv, TkSpent, TkGood, Current
<1> QED BY <1>6, <1>7

LEMMA TkSettle ==
  ASSUME TkInv, NEW s \in TokSess, TokSettle(s)
  PROVE  TkInv'
<1> DEFINE pair == [tok EXCEPT !.rt = Minted(s), !.exp = @ + 1, !.near = FALSE]
<1>0. UNCHANGED <<tkind, tlock, ttask, tprov, tback>> /\ tsess[s].phase = "granting"
  BY DEF TokSettle
<1>a. /\ tsess' \in [TokSess -> [phase : TkPhases, new : BOOLEAN, fam : Nat]]
      /\ \A r \in TokSess : r # s => tsess'[r] = tsess[r]
      /\ tsess'[s].phase = "checking"
  BY DEF TkInv, TkShape, TokSettle, TkPhases
<1>b. thist \in [signed : Nat, lost : SUBSET TkToken, refused : SUBSET TkToken,
                  kept : SUBSET TkToken, torn : BOOLEAN]
      /\ tok \in [exists : BOOLEAN, acc : TkToken, ver : Nat, rt : TkToken, exp : Nat, near : BOOLEAN]
      /\ tsess[s].fam \in Nat /\ tok.exists
  BY <1>0 DEF TkInv, TkShape, TkLock
<1>c. /\ pair \in [exists : BOOLEAN, acc : TkToken, ver : Nat, rt : TkToken, exp : Nat, near : BOOLEAN]
      /\ pair.acc = tok.acc /\ pair.rt = Minted(s) /\ pair.exists = tok.exists
  <2>1. Minted(s) \in TkToken
    BY <1>b DEF Minted, TkToken
  <2>2. tok.exp + 1 \in Nat
    BY <1>b
  <2> QED BY <1>b, <2>1, <2>2
<1>d. Minted(s).fam = tsess[s].fam /\ Minted(s) # NoTok
  BY DEF Minted, NoTok
<1>1. CASE /\ tok' = pair /\ thist' = [thist EXCEPT !.torn = @ \/ thist.signed # tsess[s].fam]
           /\ UNCHANGED tfault
  <2> HIDE DEF pair
  <2>1. thist' \in [signed : Nat, lost : SUBSET TkToken, refused : SUBSET TkToken,
                  kept : SUBSET TkToken, torn : BOOLEAN]
        /\ thist'.signed = thist.signed /\ thist'.lost = thist.lost /\ thist'.refused = thist.refused
        /\ thist'.kept = thist.kept
    BY <1>1, <1>b
  <2>2. ~thist'.torn => ~thist.torn /\ thist.signed = tsess[s].fam
    BY <1>1, <1>b
  <2>3. TkPairs(s)
    BY <1>0, <1>1, <1>a, <1>c, <2>1 DEF TkPairs, Storing
  <2>4. TkShape'
    BY <1>0, <1>1, <1>a, <1>c, <2>1 DEF TkInv, TkShape
  <2>5. TkLock'
    BY <1>0, <1>1, <1>a, <1>b, <1>c DEF TkInv, TkLock
  <2>6. TkKept'
    BY <1>0, <1>1, <1>b, <1>c, <1>d, <2>1, <2>2 DEF TkInv, TkKept
  <2> QED BY <2>3, <2>4, <2>5, <2>6, TkPairing DEF TkInv
<1>2. CASE /\ CanFail("write") /\ tfault' = tfault + 1 /\ thist' = [thist EXCEPT !.torn = TRUE]
           /\ UNCHANGED tok
  <2>1. thist' \in [signed : Nat, lost : SUBSET TkToken, refused : SUBSET TkToken,
                  kept : SUBSET TkToken, torn : BOOLEAN]
        /\ thist'.signed = thist.signed /\ thist'.lost = thist.lost /\ thist'.refused = thist.refused
        /\ thist'.kept = thist.kept /\ thist'.torn
    BY <1>2, <1>b
  <2>2. tfault' \in 0 .. TokMaxFaults
    BY TokAssumption, <1>2 DEF CanFail, TkInv, TkShape
  <2>3. TkShape'
    BY <1>0, <1>2, <1>a, <2>1, <2>2 DEF TkInv, TkShape
  <2>4. TkLock'
    BY <1>0, <1>2, <1>a DEF TkInv, TkLock
  <2>5. TkFamilies'
    <3>1. \A r \in TokSess : Storing(r)' => Storing(r) /\ tsess'[r] = tsess[r]
      BY <1>a DEF Storing
    <3>2. \A r \in TokSess : Storing(r)' => TkFresh(r)'
      BY <1>0, <1>2, <2>1, <3>1 DEF TkInv, TkFamilies, TkFresh
    <3>3. \A r, q \in TokSess : Storing(r)' /\ Storing(q)' /\ tsess'[r].fam = tsess'[q].fam => r = q
      BY <3>1 DEF TkInv, TkFamilies
    <3> QED BY <1>0, <1>2, <2>1, <3>2, <3>3 DEF TkInv, TkFamilies, Current
  <2>6. TkSpent'
    BY <1>0, <1>2, <2>1 DEF TkInv, TkSpent, TkGood, Current
  <2>7. TkKept'
    BY <2>1 DEF TkKept
  <2> QED BY <2>3, <2>4, <2>5, <2>6, <2>7 DEF TkInv
<1> QED BY <1>1, <1>2 DEF TokSettle

LEMMA TkEndings ==
  ASSUME TkInv, NEW s \in TokSess, NEW phase \in Terminal, Ends(s, phase),
         tsess[s].phase # "granting" \/ thist'.torn,
         thist' = thist \/ thist' = [thist EXCEPT !.torn = TRUE],
         UNCHANGED tfault \/ (CanFail("write") /\ tfault' = tfault + 1)
                          \/ (CanFail("cancel") /\ tfault' = tfault + 1),
         UNCHANGED <<tkind, tok, ttask, tprov, tback>>
  PROVE  TkInv'
<1>1. tfault' \in 0 .. TokMaxFaults
  BY TokAssumption DEF CanFail, TkInv, TkShape
<1>2. TkCloses(s, phase)
  BY <1>1 DEF TkCloses
<1> QED BY <1>2, TkClosing

LEMMA TkVerify ==
  ASSUME TkInv, NEW s \in TokSess, TokVerify(s)
  PROVE  TkInv'
<1>1. /\ Ends(s, "succeeded") /\ tsess[s].phase = "checking" /\ thist' = thist /\ UNCHANGED tfault
      /\ UNCHANGED <<tkind, tok, ttask, tprov, tback>> /\ "succeeded" \in Terminal
  BY DEF TokVerify, Terminal
<1> QED BY <1>1, TkEndings

LEMMA TkCancel ==
  ASSUME TkInv, NEW s \in TokSess, TokCancel(s)
  PROVE  TkInv'
<1>1. /\ Ends(s, "cancelled") /\ UNCHANGED <<tkind, tok, ttask, tprov, tback>> /\ "cancelled" \in Terminal
      /\ CanFail("cancel") /\ tfault' = tfault + 1
      /\ thist' = [thist EXCEPT !.torn = @ \/ tsess[s].phase = "granting"]
  BY DEF TokCancel, Terminal
<1>2. thist \in [signed : Nat, lost : SUBSET TkToken, refused : SUBSET TkToken,
                  kept : SUBSET TkToken, torn : BOOLEAN]
  BY DEF TkInv, TkShape
<1>3. CASE tsess[s].phase = "granting"
  <2>1. thist' = [thist EXCEPT !.torn = TRUE] /\ thist'.torn
    BY <1>1, <1>2, <1>3
  <2> QED BY <1>1, <2>1, TkEndings
<1>4. CASE tsess[s].phase # "granting"
  <2>1. thist' = thist
    BY <1>1, <1>2, <1>4
  <2> QED BY <1>1, <1>4, <2>1, TkEndings
<1> QED BY <1>3, <1>4

LEMMA TkCommit ==
  ASSUME TkInv, NEW s \in TokSess, TokCommit(s)
  PROVE  TkInv'
<1> DEFINE made == IF tsess[s].new THEN [tok EXCEPT !.exists = TRUE, !.acc = Minted(s)]
                   ELSE [tok EXCEPT !.acc = Minted(s), !.ver = @ + 1]
<1>0. UNCHANGED <<tkind, ttask, tprov, tback>> /\ tsess[s].phase = "verifying" /\ HasTurn(s)
  BY DEF TokCommit
<1>1. CASE /\ tsess[s].new <=> ~tok.exists
           /\ tok' = made
           /\ thist' = [thist EXCEPT !.signed = tsess[s].fam]
           /\ tsess' = [tsess EXCEPT ![s].phase = "granting"]
           /\ tlock' = (IF tsess[s].new THEN tlock ELSE s)
           /\ UNCHANGED tfault
  <2>1. /\ thist \in [signed : Nat, lost : SUBSET TkToken, refused : SUBSET TkToken,
                  kept : SUBSET TkToken, torn : BOOLEAN]
        /\ tok \in [exists : BOOLEAN, acc : TkToken, ver : Nat, rt : TkToken, exp : Nat, near : BOOLEAN]
        /\ tsess[s].fam \in Nat /\ tsess[s].new \in BOOLEAN
    BY DEF TkInv, TkShape
  <2>2. /\ thist' \in [signed : Nat, lost : SUBSET TkToken, refused : SUBSET TkToken,
                  kept : SUBSET TkToken, torn : BOOLEAN]
        /\ thist'.signed = tsess[s].fam /\ thist'.lost = thist.lost /\ thist'.refused = thist.refused
        /\ thist'.kept = thist.kept /\ thist'.torn = thist.torn
    BY <1>1, <2>1
  <2>3. Minted(s) \in TkToken /\ tok.ver + 1 \in Nat /\ Minted(s).fam = tsess[s].fam
    BY <2>1 DEF Minted, TkToken
  <2>4. /\ made \in [exists : BOOLEAN, acc : TkToken, ver : Nat, rt : TkToken, exp : Nat, near : BOOLEAN]
        /\ made.acc = Minted(s) /\ made.rt = tok.rt
    <3>1. CASE tsess[s].new
      BY <3>1, <2>1, <2>3
    <3>2. CASE ~tsess[s].new
      BY <3>2, <2>1, <2>3
    <3> QED BY <3>1, <3>2
  <2>5. made.exists
    BY <1>1, <2>1
  <2>6. /\ tsess' \in [TokSess -> [phase : TkPhases, new : BOOLEAN, fam : Nat]]
        /\ \A r \in TokSess : r # s => tsess'[r] = tsess[r]
        /\ tsess'[s].phase = "granting" /\ tsess'[s].fam = tsess[s].fam
    BY <1>1 DEF TkInv, TkShape, TkPhases
  <2> HIDE DEF made
  <2>7. TkShape'
    BY <1>0, <1>1, <2>2, <2>4, <2>6 DEF TkInv, TkShape
  <2>8. \A t \in TokTasks : ttask[t].pc \notin TkInside
    <3>1. CASE tsess[s].new
      BY <1>1, <3>1 DEF TkInv, TkLock, TkInside
    <3>2. CASE ~tsess[s].new
      BY <1>0, <3>2, TokAssumption DEF TkInv, TkLock, HasTurn
    <3> QED BY <3>1, <3>2
  <2>9. /\ \A t \in TokTasks : tlock' # t
        /\ \A r \in TokSess : tlock' = r => (r = s \/ tlock = r)
    BY <1>1, <2>8, TokAssumption DEF TkInv, TkLock
  <2>10. TkLock'
    BY <1>0, <1>1, <2>4, <2>5, <2>6, <2>8, <2>9 DEF TkInv, TkLock
  <2>11. \A r \in TokSess : Storing(r)' <=> Storing(r)
    <3> TAKE r \in TokSess
    <3>1. CASE r = s
      BY <1>0, <2>6, <3>1 DEF Storing
    <3>2. CASE r # s
      BY <2>6, <3>2 DEF Storing
    <3> QED BY <3>1, <3>2
  <2>12. TkFresh(s)
    BY <1>0 DEF TkInv, TkFamilies, Storing
  <2>13. \A r \in TokSess : tsess'[r].fam = tsess[r].fam
    <3> TAKE r \in TokSess
    <3>1. CASE r = s
      BY <2>6, <3>1
    <3>2. CASE r # s
      BY <2>6, <3>2
    <3> QED BY <3>1, <3>2
  <2>14. TkFamilies'
    <3>1. tok'.acc.fam \in 0 .. Len(tprov')
      BY <1>0, <1>1, <2>3, <2>4, <2>12 DEF TkFresh
    <3>2. \A r \in TokSess : Storing(r)' => TkFresh(r)'
      BY <1>0, <1>1, <2>2, <2>4, <2>11, <2>13 DEF TkInv, TkFamilies, TkFresh
    <3>3. \A r, q \in TokSess : Storing(r)' /\ Storing(q)' /\ tsess'[r].fam = tsess'[q].fam => r = q
      BY <2>11, <2>13 DEF TkInv, TkFamilies
    <3> QED BY <1>0, <1>1, <2>2, <2>4, <3>1, <3>2, <3>3 DEF TkInv, TkFamilies, Current
  <2>15. TkSpent'
    BY <1>0, <1>1, <2>2, <2>4 DEF TkInv, TkSpent, TkGood, Current
  <2>16. tsess[s].new => tok.rt = NoTok
    BY <1>1 DEF TkInv, TkLock
  <2>17. ~tsess[s].new => tlock' = s
    BY <1>1
  <2>18. TkKept'
    <3> SUFFICES ASSUME tkind' = "mcp"
                 PROVE  /\ tok'.acc.fam = thist'.signed
                        /\ \A t \in TokTasks : ttask'[t].pc \in TkInside => ttask'[t].rt.fam = thist'.signed
                        /\ tlock' \notin TokSess \/ (\E r \in TokSess : tlock' = r /\ tsess'[r].phase = "checking") =>
                                 tok'.rt = NoTok \/ tok'.rt.fam = thist'.signed
      BY DEF TkKept
    <3>1. tok'.acc.fam = thist'.signed
      BY <1>1, <2>2, <2>3, <2>4
    <3>2. CASE tsess[s].new
      BY <1>0, <1>1, <2>4, <2>8, <2>16, <3>1, <3>2
    <3>3. CASE ~tsess[s].new
      <4>1. ~(tlock' \notin TokSess \/ (\E r \in TokSess : tlock' = r /\ tsess'[r].phase = "checking"))
        BY <2>6, <2>17, <3>3
      <4> QED BY <1>0, <2>8, <3>1, <4>1
    <3> QED BY <3>2, <3>3
  <2> QED BY <2>7, <2>10, <2>14, <2>15, <2>18 DEF TkInv
<1>2. CASE Ends(s, "failed") /\ UNCHANGED <<tok, thist, tfault>>
  BY <1>0, <1>2, TkEndings DEF Terminal
<1>3. CASE CanFail("write") /\ tfault' = tfault + 1 /\ Ends(s, "failed") /\ UNCHANGED <<tok, thist>>
  BY <1>0, <1>3, TkEndings DEF Terminal
<1> QED BY <1>1, <1>2, <1>3 DEF TokCommit

LEMMA TkComplete ==
  ASSUME TkInv, NEW s \in TokSess, TokComplete(s)
  PROVE  TkInv'
<1> DEFINE made == IF tsess[s].new THEN Connected(s) ELSE Reconnected(s)
<1>0. UNCHANGED <<tkind, ttask, tprov, tback>> /\ tsess[s].phase = "verifying" /\ tkind = "byo"
  BY DEF TokComplete
<1>1. CASE /\ tsess[s].new <=> ~tok.exists
           /\ tok' = made
           /\ thist' = [thist EXCEPT !.signed = tsess[s].fam]
           /\ Ends(s, "succeeded")
           /\ UNCHANGED tfault
  <2>1. /\ thist \in [signed : Nat, lost : SUBSET TkToken, refused : SUBSET TkToken,
                  kept : SUBSET TkToken, torn : BOOLEAN]
        /\ tok \in [exists : BOOLEAN, acc : TkToken, ver : Nat, rt : TkToken, exp : Nat, near : BOOLEAN]
        /\ tsess[s].fam \in Nat /\ tsess[s].new \in BOOLEAN
    BY DEF TkInv, TkShape
  <2>2. /\ thist' \in [signed : Nat, lost : SUBSET TkToken, refused : SUBSET TkToken,
                  kept : SUBSET TkToken, torn : BOOLEAN]
        /\ thist'.lost = thist.lost /\ thist'.refused = thist.refused /\ thist'.kept = thist.kept
    BY <1>1, <2>1
  <2>3. Minted(s) \in TkToken /\ tok.ver + 1 \in Nat /\ tok.exp + 1 \in Nat /\ Minted(s).fam = tsess[s].fam
    BY <2>1 DEF Minted, TkToken
  <2>5. /\ made \in [exists : BOOLEAN, acc : TkToken, ver : Nat, rt : TkToken, exp : Nat, near : BOOLEAN]
        /\ made.acc = Minted(s) /\ made.rt = Minted(s)
    <3>1. CASE tsess[s].new
      BY <3>1, <2>1, <2>3 DEF Connected
    <3>2. CASE ~tsess[s].new
      BY <3>2, <2>1, <2>3 DEF Reconnected
    <3> QED BY <3>1, <3>2
  <2>6. made.exists
    <3>1. CASE tsess[s].new
      BY <3>1, <2>1 DEF Connected
    <3>2. CASE ~tsess[s].new
      BY <1>1, <3>2, <2>1 DEF Reconnected
    <3> QED BY <3>1, <3>2
  <2>7. /\ tsess' \in [TokSess -> [phase : TkPhases, new : BOOLEAN, fam : Nat]]
        /\ \A r \in TokSess : r # s => tsess'[r] = tsess[r]
        /\ tsess'[s].phase = "succeeded"
    BY <1>1 DEF TkInv, TkShape, TkPhases, Ends, Terminal
  <2>8. tlock' = tlock /\ tlock # s
    BY <1>0, <1>1 DEF Ends, TkInv, TkLock
  <2> HIDE DEF made
  <2>9. TkPairs(s)
    <3>1. Storing(s)
      BY <1>0 DEF Storing
    <3>2. tok'.rt = Minted(s) /\ tok'.acc.fam \in {tok.acc.fam, tsess[s].fam}
          /\ tok' \in [exists : BOOLEAN, acc : TkToken, ver : Nat, rt : TkToken, exp : Nat, near : BOOLEAN]
      BY <1>1, <2>3, <2>5
    <3>3. tsess'[s].phase \in {"checking", "succeeded"} /\ \A r \in TokSess : r # s => tsess'[r] = tsess[r]
      BY <2>7
    <3>4. UNCHANGED <<ttask, tprov>>
      BY <1>0
    <3> QED BY <2>2, <3>1, <3>2, <3>3, <3>4 DEF TkPairs
  <2>10. TkShape'
    BY <1>0, <1>1, <2>2, <2>5, <2>7 DEF TkInv, TkShape
  <2>11. TkLock'
    BY <1>0, <1>1, <2>5, <2>6, <2>7, <2>8 DEF TkInv, TkLock
  <2>12. TkKept'
    BY <1>0 DEF TkKept
  <2> QED BY <2>9, <2>10, <2>11, <2>12, TkPairing DEF TkInv
<1>2. CASE Ends(s, "failed") /\ UNCHANGED <<tok, thist, tfault>>
  BY <1>0, <1>2, TkEndings DEF Terminal
<1>3. CASE CanFail("write") /\ tfault' = tfault + 1 /\ Ends(s, "failed") /\ UNCHANGED <<tok, thist>>
  BY <1>0, <1>3, TkEndings DEF Terminal
<1> QED BY <1>1, <1>2, <1>3 DEF TokComplete

TkTask == [pc : {"idle", "wait"} \cup TkInside, force : BOOLEAN, ver : Nat, rt : TkToken, key : Nat]

\* A caller that is not inside begins to wait or ends its wait; the clock of the sweeper,
\* what it parked and how near the expiry is are all that may change with it.
TkOutside(t) ==
    /\ ttask[t].pc \notin TkInside /\ ttask' \in [TokTasks -> TkTask]
    /\ \A u \in TokTasks : u # t => ttask'[u] = ttask[u]
    /\ ttask'[t].pc \notin TkInside /\ (tok.exists \/ ttask'[t].pc = "idle")
    /\ tback' \in BOOLEAN
    /\ UNCHANGED <<tkind, tok, tlock, tsess, tprov, tfault, thist>>

LEMMA TkWaiting ==
  ASSUME TkInv, NEW t \in TokTasks, TkOutside(t)
  PROVE  TkInv'
<1>0. UNCHANGED <<tkind, tok, tlock, tsess, tprov, tfault, thist>>
  BY DEF TkOutside
<1>a. \A u \in TokTasks : /\ ttask'[u].pc \in TkInside <=> ttask[u].pc \in TkInside
                          /\ ttask[u].pc \in TkInside => ttask'[u] = ttask[u]
  <2> TAKE u \in TokTasks
  <2>1. CASE u = t
    BY <2>1 DEF TkOutside
  <2>2. CASE u # t
    BY <2>2 DEF TkOutside
  <2> QED BY <2>1, <2>2
<1>1. TkShape'
  BY <1>0 DEF TkInv, TkShape, TkOutside, TkTask
<1>2. TkLock'
  <2>1. ~tok.exists => \A u \in TokTasks : ttask'[u].pc = "idle"
    BY DEF TkOutside, TkInv, TkLock
  <2> QED BY <1>0, <1>a, <2>1 DEF TkInv, TkLock
<1>3. TkFamilies'
  <2>1. \A s \in TokSess : Storing(s)' => Storing(s) /\ TkFresh(s)'
    BY <1>0, <1>a DEF TkInv, TkFamilies, Storing, TkFresh
  <2>2. \A u \in TokTasks : ttask'[u].pc \in {"store", "grant"} => ttask'[u].pc \in TkInside
    BY DEF TkInside
  <2> QED BY <1>0, <1>a, <2>1, <2>2 DEF TkInv, TkFamilies, Current, Storing
<1>4. TkSpent'
  <2>1. \A u \in TokTasks : ttask'[u].pc = "post" => ttask'[u].pc \in TkInside
    BY DEF TkInside
  <2>2. \A u \in TokTasks : ttask[u].pc \in {"store", "grant", "retire"} => ttask'[u] = ttask[u]
    BY <1>a DEF TkInside
  <2>3. tok.rt # NoTok => (\/ TkGood(tok.rt)
        \/ \E u \in TokTasks : ttask'[u].pc \in {"store", "grant"} /\ ttask'[u].rt = tok.rt)
    BY <2>2 DEF TkInv, TkSpent
  <2>4. tok.rt \in thist.refused \ thist.kept =>
           \E u \in TokTasks : ttask'[u].pc = "retire" /\ ttask'[u].rt = tok.rt
    BY <2>2 DEF TkInv, TkSpent
  <2>5. \A u \in TokTasks : ttask'[u].pc = "post" =>
           TkGood(ttask'[u].rt) /\ ttask'[u].rt \notin thist.refused \ thist.kept
    BY <1>a, <2>1 DEF TkInv, TkSpent
  <2> QED BY <1>0, <2>3, <2>4, <2>5 DEF TkSpent, TkGood, Current
<1>5. TkKept'
  BY <1>0, <1>a DEF TkInv, TkKept
<1> QED BY <1>1, <1>2, <1>3, <1>4, <1>5 DEF TkInv

LEMMA TkObserves ==
  ASSUME TkInv, NEW t \in TokTasks, NEW force \in BOOLEAN, Observe(t, force),
         ttask[t] = TokIdle, tok.exists,
         UNCHANGED <<tkind, tok, tlock, tsess, tprov, tpark, tback, tfault, thist>>
  PROVE  TkInv'
<1> DEFINE task == [pc |-> "wait", force |-> force, ver |-> tok.ver, rt |-> NoTok, key |-> ParkKey(tok)]
<1>1. ttask \in [TokTasks -> TkTask] /\ tback \in BOOLEAN /\ tok.ver \in Nat /\ ParkKey(tok) \in Nat
  BY DEF TkInv, TkShape, TkTask, ParkKey
<1>2. task \in TkTask /\ task.pc = "wait"
  BY <1>1 DEF TkTask, NoTok, TkToken
<1>3. ttask' = [ttask EXCEPT ![t] = task]
  BY DEF Observe
<1> HIDE DEF task
<1>4. TkOutside(t)
  BY <1>1, <1>2, <1>3 DEF TkOutside, TokIdle, TkInside
<1> QED BY <1>4, TkWaiting

LEMMA TkClock == TkInv /\ (TokAge \/ TokTick) => TkInv'
<1> SUFFICES ASSUME TkInv, TokAge \/ TokTick PROVE TkInv'
  OBVIOUS
<1>1. UNCHANGED <<tkind, tlock, ttask, tsess, tprov, tfault, thist>>
  BY DEF TokAge, TokTick
<1>2. tback' \in BOOLEAN
  BY DEF TokAge, TokTick, TkInv, TkShape
<1>3. /\ tok' \in [exists : BOOLEAN, acc : TkToken, ver : Nat, rt : TkToken, exp : Nat, near : BOOLEAN]
      /\ tok'.exists = tok.exists /\ tok'.acc = tok.acc /\ tok'.rt = tok.rt
  BY DEF TokAge, TokTick, TkInv, TkShape
<1>4. TkShape'
  BY <1>1, <1>2, <1>3 DEF TkInv, TkShape
<1>5. TkLock'
  BY <1>1, <1>3 DEF TkInv, TkLock
<1>6. TkFamilies'
  BY <1>1, <1>3 DEF TkInv, TkFamilies, Storing, TkFresh, Current
<1>7. TkSpent'
  BY <1>1, <1>3 DEF TkInv, TkSpent, TkGood, Current
<1>8. TkKept'
  BY <1>1, <1>3 DEF TkInv, TkKept
<1> QED BY <1>4, <1>5, <1>6, <1>7, <1>8 DEF TkInv

\* Whoever is done is idle, and the lock is free.
LEMMA TkDoneFacts ==
  ASSUME TkInv, NEW t \in TokTasks, NEW outcome, NEW rec, Done(t, outcome, rec)
  PROVE  /\ ttask' \in [TokTasks -> TkTask]
         /\ ttask'[t].pc = "idle"
         /\ tlock' = "free" /\ tback' \in BOOLEAN
         /\ \A u \in TokTasks : u # t => ttask'[u] = ttask[u]
<1>1. ttask \in [TokTasks -> TkTask]
  BY DEF TkInv, TkShape, TkTask
<1>2. TokIdle \in TkTask /\ TokIdle.pc = "idle"
  BY DEF TokIdle, TkTask, NoTok, TkToken
<1>3. ttask' = [ttask EXCEPT ![t] = TokIdle] /\ tlock' = "free"
  BY DEF Done
<1>4. tback' \in BOOLEAN
  BY DEF Done, TkInv, TkShape
<1> QED BY <1>1, <1>2, <1>3, <1>4

LEMMA TkAcquire ==
  ASSUME TkInv, NEW t \in TokTasks, TokAcquire(t)
  PROVE  TkInv'
<1>0. UNCHANGED <<tkind, tok, tsess, tprov, tfault, thist>> /\ ttask[t].pc = "wait" /\ tlock = "free"
  BY DEF TokAcquire, LockFree
<1>1. ASSUME NEW outcome, Done(t, outcome, tok) PROVE TkInv'
  <2>1. TkOutside(t)
    BY <1>0, <1>1, TkDoneFacts DEF TkOutside, TkInside
  <2> QED BY <2>1, TkWaiting
<1>2. CASE /\ tok.rt # NoTok /\ tlock' = t
           /\ ttask' = [ttask EXCEPT ![t].pc = "post", ![t].rt = tok.rt]
           /\ UNCHANGED <<tpark, tback>>
  <2> DEFINE task == [ttask[t] EXCEPT !.pc = "post", !.rt = tok.rt]
  <2>1. ttask \in [TokTasks -> TkTask] /\ tok.rt \in TkToken
    BY DEF TkInv, TkShape, TkTask
  <2>2. ttask' = [ttask EXCEPT ![t] = task]
    BY <1>2, <2>1
  <2>3. task \in TkTask /\ task.pc = "post" /\ task.rt = tok.rt
    BY <2>1 DEF TkTask, TkInside
  <2> HIDE DEF task
  <2>4. /\ ttask' \in [TokTasks -> TkTask] /\ ttask'[t].pc = "post" /\ ttask'[t].rt = tok.rt
        /\ \A u \in TokTasks : u # t => ttask'[u] = ttask[u]
    BY <2>1, <2>2, <2>3
  <2>5. \A u \in TokTasks : ttask[u].pc \notin TkInside
    BY <1>0, TokAssumption DEF TkInv, TkLock
  <2>6. \A u \in TokTasks : ttask'[u].pc \in TkInside <=> u = t
    BY <2>4, <2>5 DEF TkInside
  <2>7. TkGood(tok.rt) /\ TkMinted(tok.rt, tprov) /\ tok.rt \notin thist.refused \ thist.kept
    BY <1>2, <2>5 DEF TkInv, TkSpent, TkFamilies, TkInside
  <2>8. TkShape'
    BY <1>0, <1>2, <2>4 DEF TkInv, TkShape, TkTask
  <2>9. TkLock'
    <3>1. tok.exists
      BY <1>0 DEF TkInv, TkLock
    <3>2. \A s \in TokSess : tlock' # s
      BY <1>2, TokAssumption
    <3> QED BY <1>0, <1>2, <2>6, <3>1, <3>2 DEF TkInv, TkLock
  <2>10. TkFamilies'
    <3>1. \A s \in TokSess : Storing(s)' => Storing(s) /\ TkFresh(s)'
      BY <1>0, <2>4, <2>6 DEF TkInv, TkFamilies, Storing, TkFresh
    <3>2. \A u \in TokTasks : ttask'[u].pc \notin {"store", "grant"}
      BY <2>4, <2>5 DEF TkInside
    <3>3. \A u \in TokTasks : ttask'[u].pc \in TkInside => TkMinted(ttask'[u].rt, tprov)
      BY <2>4, <2>6, <2>7
    <3> QED BY <1>0, <3>1, <3>2, <3>3 DEF TkInv, TkFamilies, Current, Storing
  <2>11. TkSpent'
    <3>1. \A u \in TokTasks : ttask'[u].pc = "post" => ttask'[u].rt = tok.rt
      BY <2>4, <2>6 DEF TkInside
    <3> QED BY <1>0, <2>7, <3>1 DEF TkSpent, TkGood, Current
  <2>12. TkKept'
    <3>1. tlock \notin TokSess
      BY <1>0, TokAssumption
    <3> QED BY <1>0, <1>2, <2>4, <2>6, <3>1 DEF TkInv, TkKept
  <2> QED BY <2>8, <2>9, <2>10, <2>11, <2>12 DEF TkInv
<1> QED BY <1>1, <1>2 DEF TokAcquire

TkCatalog == [exists : BOOLEAN, acc : TkToken, ver : Nat, rt : TkToken, exp : Nat, near : BOOLEAN]
TkHistory == [signed : Nat, lost : SUBSET TkToken, refused : SUBSET TkToken,
              kept : SUBSET TkToken, torn : BOOLEAN]

\* What a caller that is done may leave in the catalog: nothing, what is there if it is
\* known to be good or to have been spent, or the successor of what it presented.
TkLeaves(t) ==
    /\ ttask[t].pc \in TkInside
    /\ tok' \in TkCatalog /\ tok'.exists = tok.exists
    /\ tok'.acc.fam = tok.acc.fam \/ tok'.acc.fam = ttask[t].rt.fam
    /\ \/ tok'.rt = NoTok
       \/ tok'.rt = tok.rt /\ (tok.rt # NoTok => TkGood(tok.rt)') /\ tok.rt \notin thist'.refused \ thist'.kept
       \/ tok'.rt = Next1(ttask[t].rt) /\ ttask[t].pc \in {"store", "grant"}
    /\ thist' \in TkHistory /\ thist'.refused = thist.refused
    /\ thist'.signed = thist.signed /\ thist'.torn = thist.torn
    /\ tfault' \in 0 .. TokMaxFaults
    /\ UNCHANGED <<tkind, tsess, tprov>>

\* The caller inside is the only one.
LEMMA TkAlone ==
  ASSUME TkInv, NEW t \in TokTasks, ttask[t].pc \in TkInside
  PROVE  /\ tlock = t /\ tok.exists
         /\ \A u \in TokTasks : u # t => ttask[u].pc \notin TkInside
         /\ \A s \in TokSess : tlock # s
         /\ TkMinted(ttask[t].rt, tprov) /\ ttask[t].rt \in TkToken
         /\ tok \in TkCatalog /\ thist \in TkHistory /\ ttask \in [TokTasks -> TkTask]
<1>1. tlock = t /\ \A u \in TokTasks : u # t => ttask[u].pc \notin TkInside
  BY DEF TkInv, TkLock
<1>2. tok.exists
  BY DEF TkInv, TkLock, TkInside
<1>3. \A s \in TokSess : tlock # s
  BY <1>1, TokAssumption
<1>4. TkMinted(ttask[t].rt, tprov) /\ ttask[t].rt \in TkToken
  BY DEF TkInv, TkFamilies, TkShape
<1>5. tok \in TkCatalog /\ thist \in TkHistory /\ ttask \in [TokTasks -> TkTask]
  BY DEF TkInv, TkShape, TkCatalog, TkHistory, TkTask
<1> QED BY <1>1, <1>2, <1>3, <1>4, <1>5

LEMMA TkLeaving ==
  ASSUME TkInv, NEW t \in TokTasks, NEW outcome, NEW rec, Done(t, outcome, rec), TkLeaves(t)
  PROVE  TkInv'
<1> DEFINE rt == ttask[t].rt
<1>0. /\ UNCHANGED <<tkind, tsess, tprov>> /\ ttask[t].pc \in TkInside /\ tok'.exists = tok.exists
      /\ thist'.refused = thist.refused /\ thist'.signed = thist.signed /\ thist'.torn = thist.torn
  BY DEF TkLeaves
<1>1. /\ ttask' \in [TokTasks -> TkTask] /\ ttask'[t].pc = "idle" /\ tlock' = "free" /\ tback' \in BOOLEAN
      /\ \A u \in TokTasks : u # t => ttask'[u] = ttask[u]
  BY TkDoneFacts
<1>2. /\ tlock = t /\ tok.exists
      /\ \A u \in TokTasks : u # t => ttask[u].pc \notin TkInside
      /\ \A s \in TokSess : tlock # s
      /\ TkMinted(rt, tprov) /\ rt \in TkToken /\ tok \in TkCatalog
  BY <1>0, TkAlone
<1>3. \A u \in TokTasks : ttask'[u].pc \notin TkInside
  BY <1>1, <1>2 DEF TkInside
<1>4. Next1(rt).fam = rt.fam /\ Next1(rt).n = rt.n + 1 /\ Next1(rt) \in TkToken /\ Next1(rt) # NoTok
  BY <1>2 DEF Next1, TkToken, NoTok
<1>5. TkShape'
  BY <1>0, <1>1 DEF TkInv, TkShape, TkLeaves, TkCatalog, TkHistory, TkTask
<1>6. TkLock'
  BY <1>0, <1>1, <1>2, <1>3, TokAssumption DEF TkInv, TkLock
<1>7. TkFamilies'
  <2>1. tok'.acc.fam \in 0 .. Len(tprov')
    BY <1>0, <1>2 DEF TkLeaves, TkInv, TkFamilies, TkMinted, TkShape
  <2>2. ttask[t].pc \in {"store", "grant"} => tprov[rt.fam] = rt.n + 1
    BY DEF TkInv, TkFamilies
  <2>3. tok'.rt # NoTok => TkMinted(tok'.rt, tprov)
    BY <1>2, <1>4, <2>2 DEF TkLeaves, TkInv, TkFamilies, TkMinted, TkToken
  <2>4. \A s \in TokSess : Storing(s)' => Storing(s) /\ TkFresh(s)'
    <3> TAKE s \in TokSess
    <3>1. HAVE Storing(s)'
    <3>2. Storing(s) /\ TkFresh(s)
      BY <1>0, <3>1 DEF Storing, TkInv, TkFamilies
    <3>3. tok'.rt.fam # tsess[s].fam
      BY <1>0, <1>4, <3>2 DEF TkLeaves, TkFresh, NoTok
    <3> QED BY <1>0, <1>3, <3>2, <3>3 DEF TkFresh
  <2>5. \A u \in TokTasks : ttask'[u].pc \notin {"store", "grant"}
    BY <1>3 DEF TkInside
  <2> QED BY <1>0, <1>3, <2>1, <2>3, <2>4, <2>5 DEF TkInv, TkFamilies, Current, Storing
<1>8. TkSpent'
  <2>1. CASE tok'.rt = NoTok
    <3>1. NoTok \notin thist.refused
      BY DEF TkInv, TkFamilies, TkMinted, NoTok
    <3> QED BY <1>0, <1>3, <2>1, <3>1 DEF TkSpent, TkInside
  <2>2. CASE /\ tok'.rt = tok.rt /\ (tok.rt # NoTok => TkGood(tok.rt)')
             /\ tok.rt \notin thist'.refused \ thist'.kept
    BY <1>3, <2>2 DEF TkSpent, TkInside, TkGood, Current
  <2>3. CASE tok'.rt = Next1(rt) /\ ttask[t].pc \in {"store", "grant"}
    <3>1. tprov[rt.fam] = rt.n + 1
      BY <2>3 DEF TkInv, TkFamilies
    <3>2. Current(tok.rt)'
      BY <1>0, <1>4, <2>3, <3>1 DEF Current
    <3>3. tok'.rt \notin thist'.refused
      BY <1>0, <3>2 DEF TkInv, TkFamilies, Current
    <3> QED BY <1>3, <3>2, <3>3 DEF TkSpent, TkInside, TkGood
  <2> QED BY <2>1, <2>2, <2>3 DEF TkLeaves
<1>9. TkKept'
  <2> SUFFICES ASSUME tkind = "mcp", ~thist.torn
               PROVE  tok'.acc.fam = thist.signed /\ (tok'.rt = NoTok \/ tok'.rt.fam = thist.signed)
    BY <1>0, <1>3 DEF TkKept
  <2>1. /\ tok.acc.fam = thist.signed /\ rt.fam = thist.signed
        /\ tok.rt = NoTok \/ tok.rt.fam = thist.signed
    BY <1>0, <1>2 DEF TkInv, TkKept
  <2> QED BY <1>4, <2>1 DEF TkLeaves
<1> QED BY <1>5, <1>6, <1>7, <1>8, <1>9 DEF TkInv

\* A write that failed, or a renewal that came to nothing: the catalog is as it was.
LEMMA TkFails ==
  ASSUME TkInv, NEW t \in TokTasks, NEW outcome, Done(t, outcome, tok),
         ttask[t].pc \in {"post", "store", "grant"}, tfault' \in 0 .. TokMaxFaults,
         UNCHANGED <<tkind, tok, tsess, tprov>>,
         \/ thist' = [thist EXCEPT !.lost = @ \cup {ttask[t].rt}]
         \/ thist' = thist /\ ttask[t].pc = "post"
  PROVE  TkInv'
<1> DEFINE rt == ttask[t].rt
<1>1. /\ ttask[t].pc \in TkInside
      /\ \A u \in TokTasks : u # t => ttask[u].pc \notin TkInside
      /\ rt \in TkToken /\ tok \in TkCatalog /\ thist \in TkHistory
  BY TkAlone DEF TkInside
<1>2. /\ thist' \in TkHistory /\ thist'.refused = thist.refused /\ thist'.kept = thist.kept
      /\ thist'.signed = thist.signed /\ thist'.torn = thist.torn
      /\ thist.lost \subseteq thist'.lost
      /\ ttask[t].pc \in {"store", "grant"} => rt \in thist'.lost
  BY <1>1 DEF TkHistory
<1>3. tok.rt \notin thist.refused \ thist.kept
  BY <1>1 DEF TkInv, TkSpent, TkInside
<1>4. tok.rt # NoTok => TkGood(tok.rt)'
  <2> HAVE tok.rt # NoTok
  <2>1. CASE TkGood(tok.rt)
    BY <1>2, <2>1 DEF TkGood, Current
  <2>2. CASE ~TkGood(tok.rt)
    <3>1. ttask[t].pc \in {"store", "grant"} /\ rt = tok.rt
      BY <1>1, <2>2 DEF TkInv, TkSpent, TkInside
    <3> QED BY <1>2, <3>1 DEF TkGood
  <2> QED BY <2>1, <2>2
<1>5. TkLeaves(t)
  BY <1>1, <1>2, <1>3, <1>4 DEF TkLeaves
<1> QED BY <1>5, TkLeaving

LEMMA TkFaults ==
  ASSUME TkInv, NEW kind, CanFail(kind), tfault' = tfault + 1
  PROVE  tfault' \in 0 .. TokMaxFaults
  BY TokAssumption DEF CanFail, TkInv, TkShape

LEMMA TkStore ==
  ASSUME TkInv, NEW t \in TokTasks, TokStore(t)
  PROVE  TkInv'
<1> DEFINE rt == ttask[t].rt
           next == Next1(rt)
<1>0. UNCHANGED <<tkind, tsess, tprov>> /\ ttask[t].pc = "store"
  BY DEF TokStore
<1>1. /\ tlock = t /\ tok.exists
      /\ \A u \in TokTasks : u # t => ttask[u].pc \notin TkInside
      /\ \A s \in TokSess : tlock # s
      /\ TkMinted(rt, tprov) /\ rt \in TkToken
      /\ tok \in TkCatalog /\ thist \in TkHistory /\ ttask \in [TokTasks -> TkTask]
  BY <1>0, TkAlone DEF TkInside
<1>2. next.fam = rt.fam /\ next \in TkToken
  BY <1>1 DEF Next1, TkToken
<1>3. CASE /\ CanFail("write") /\ tfault' = tfault + 1
           /\ thist' = [thist EXCEPT !.lost = @ \cup {rt}] /\ Done(t, "transient", tok) /\ UNCHANGED tok
  <2>1. tfault' \in 0 .. TokMaxFaults
    BY <1>3, TkFaults
  <2>2. ttask[t].pc \in {"post", "store", "grant"}
    BY <1>0
  <2> QED BY <1>0, <1>3, <2>1, <2>2, TkFails
<1>4. CASE /\ tkind = "byo" /\ Done(t, "ok", tok') /\ UNCHANGED <<tfault, thist>>
           /\ tok' = [tok EXCEPT !.acc = next, !.rt = next, !.ver = @ + 1, !.exp = @ + 1, !.near = FALSE]
  <2>1. tok.ver + 1 \in Nat /\ tok.exp + 1 \in Nat
    BY <1>1 DEF TkCatalog
  <2>2. tok' \in TkCatalog /\ tok'.acc = next /\ tok'.rt = next /\ tok'.exists = tok.exists
    BY <1>1, <1>2, <1>4, <2>1 DEF TkCatalog
  <2>3. tfault' \in 0 .. TokMaxFaults
    BY <1>4 DEF TkInv, TkShape
  <2>4. TkLeaves(t)
    BY <1>0, <1>1, <1>2, <1>4, <2>2, <2>3 DEF TkLeaves, TkInside
  <2> QED BY <1>4, <2>4, TkLeaving
<1>5. CASE /\ tkind # "byo" /\ ttask' = [ttask EXCEPT ![t].pc = "grant"]
           /\ UNCHANGED <<tlock, tpark, tback, tfault, thist>>
           /\ tok' = [tok EXCEPT !.acc = next, !.ver = @ + 1]
  <2>1. tok.ver + 1 \in Nat
    BY <1>1 DEF TkCatalog
  <2>2. tok' \in TkCatalog /\ tok'.acc = next /\ tok'.rt = tok.rt /\ tok'.exists = tok.exists
    BY <1>1, <1>2, <1>5, <2>1 DEF TkCatalog
  <2>3. /\ ttask' \in [TokTasks -> TkTask] /\ ttask'[t].pc = "grant"
        /\ \A u \in TokTasks : u # t => ttask'[u] = ttask[u]
        /\ \A u \in TokTasks : ttask'[u].rt = ttask[u].rt
    BY <1>1, <1>5 DEF TkTask, TkInside
  <2>4. \A u \in TokTasks : /\ ttask'[u].pc \in TkInside <=> ttask[u].pc \in TkInside
                            /\ ttask'[u].pc \in {"store", "grant"} <=> ttask[u].pc \in {"store", "grant"}
                            /\ ttask'[u].pc = "post" <=> ttask[u].pc = "post"
                            /\ ttask'[u].pc = "retire" <=> ttask[u].pc = "retire"
    <3> TAKE u \in TokTasks
    <3>1. CASE u = t
      BY <1>0, <2>3, <3>1 DEF TkInside
    <3>2. CASE u # t
      BY <2>3, <3>2
    <3> QED BY <3>1, <3>2
  <2>5. TkShape'
    BY <1>0, <1>5, <2>2, <2>3 DEF TkInv, TkShape, TkCatalog, TkTask
  <2>6. TkLock'
    BY <1>0, <1>1, <1>5, <2>2, <2>4 DEF TkInv, TkLock
  <2>7. TkFamilies'
    <3>1. tok'.acc.fam \in 0 .. Len(tprov')
      BY <1>0, <1>1, <1>2, <2>2 DEF TkMinted, TkInv, TkShape
    <3>2. \A s \in TokSess : Storing(s)' => Storing(s) /\ TkFresh(s)'
      BY <1>0, <1>5, <2>2, <2>3, <2>4 DEF TkInv, TkFamilies, Storing, TkFresh
    <3> QED BY <1>0, <1>5, <2>2, <2>3, <2>4, <3>1, <3>2 DEF TkInv, TkFamilies, Current, Storing
  <2>8. TkSpent'
    <3>1. /\ UNCHANGED <<thist, tprov>> /\ tok'.rt = tok.rt
          /\ \A u \in TokTasks : ttask'[u].rt = ttask[u].rt
      BY <1>0, <1>5, <2>2, <2>3
    <3> QED BY <2>4, <3>1 DEF TkInv, TkSpent, TkGood, Current
  <2>9. TkKept'
    BY <1>0, <1>1, <1>2, <1>5, <2>2, <2>3, <2>4 DEF TkInv, TkKept, TkInside
  <2> QED BY <2>5, <2>6, <2>7, <2>8, <2>9 DEF TkInv
<1> QED BY <1>3, <1>4, <1>5 DEF TokStore

LEMMA TkGrant ==
  ASSUME TkInv, NEW t \in TokTasks, TokGrant(t)
  PROVE  TkInv'
<1> DEFINE rt == ttask[t].rt
           next == Next1(rt)
<1>0. UNCHANGED <<tkind, tsess, tprov>> /\ ttask[t].pc = "grant"
  BY DEF TokGrant
<1>1. rt \in TkToken /\ tok \in TkCatalog /\ thist \in TkHistory
  BY <1>0, TkAlone DEF TkInside
<1>2. next \in TkToken
  BY <1>1 DEF Next1, TkToken
<1>3. CASE /\ CanFail("write") /\ tfault' = tfault + 1
           /\ thist' = [thist EXCEPT !.lost = @ \cup {rt}] /\ Done(t, "transient", tok) /\ UNCHANGED tok
  <2>1. tfault' \in 0 .. TokMaxFaults
    BY <1>3, TkFaults
  <2>2. ttask[t].pc \in {"post", "store", "grant"}
    BY <1>0
  <2> QED BY <1>0, <1>3, <2>1, <2>2, TkFails
<1>4. CASE /\ tok' = [tok EXCEPT !.rt = next, !.exp = @ + 1, !.near = FALSE]
           /\ Done(t, "ok", tok') /\ UNCHANGED <<tfault, thist>>
  <2>1. tok.exp + 1 \in Nat
    BY <1>1 DEF TkCatalog
  <2>2. tok' \in TkCatalog /\ tok'.acc = tok.acc /\ tok'.rt = next /\ tok'.exists = tok.exists
    BY <1>1, <1>2, <1>4, <2>1 DEF TkCatalog
  <2>3. tfault' \in 0 .. TokMaxFaults
    BY <1>4 DEF TkInv, TkShape
  <2>4. TkLeaves(t)
    BY <1>0, <1>1, <1>4, <2>2, <2>3 DEF TkLeaves, TkInside
  <2> QED BY <1>4, <2>4, TkLeaving
<1> QED BY <1>3, <1>4 DEF TokGrant

LEMMA TkRetire ==
  ASSUME TkInv, NEW t \in TokTasks, TokRetire(t)
  PROVE  TkInv'
<1> DEFINE rt == ttask[t].rt
<1>0. UNCHANGED <<tkind, tsess, tprov>> /\ ttask[t].pc = "retire" /\ Done(t, "reconnect", tok')
  BY DEF TokRetire
<1>1. /\ rt \in TkToken /\ tok \in TkCatalog /\ thist \in TkHistory
      /\ \A u \in TokTasks : u # t => ttask[u].pc \notin TkInside
  BY <1>0, TkAlone DEF TkInside
<1>2. NoTok \in TkToken
  BY DEF NoTok, TkToken
<1>3. CASE tok' = Retired(t) /\ UNCHANGED <<tfault, thist>>
  <2>1. tok.ver + 1 \in Nat
    BY <1>1 DEF TkCatalog
  <2>2. /\ tok' \in TkCatalog /\ tok'.rt = NoTok /\ tok'.exists = tok.exists
        /\ tok'.acc = tok.acc \/ tok'.acc = rt
    <3>1. CASE tkind = "byo"
      BY <1>1, <1>2, <1>3, <2>1, <3>1 DEF TkCatalog, Retired
    <3>2. CASE tkind # "byo"
      BY <1>1, <1>2, <1>3, <2>1, <3>2 DEF TkCatalog, Retired
    <3> QED BY <3>1, <3>2
  <2>3. tfault' \in 0 .. TokMaxFaults
    BY <1>3 DEF TkInv, TkShape
  <2>4. TkLeaves(t)
    BY <1>0, <1>1, <1>3, <2>2, <2>3 DEF TkLeaves, TkInside
  <2> QED BY <1>0, <2>4, TkLeaving
<1>4. CASE /\ CanFail("write") /\ tfault' = tfault + 1
           /\ thist' = [thist EXCEPT !.kept = @ \cup {rt}] /\ UNCHANGED tok
  <2>1. tfault' \in 0 .. TokMaxFaults
    BY <1>4, TkFaults
  <2>2. /\ thist' \in TkHistory /\ thist'.refused = thist.refused /\ thist'.lost = thist.lost
        /\ thist'.signed = thist.signed /\ thist'.torn = thist.torn
        /\ thist'.kept = thist.kept \cup {rt}
    BY <1>1, <1>4 DEF TkHistory
  <2>3. tok.rt \notin thist'.refused \ thist'.kept
    BY <1>1, <2>2 DEF TkInv, TkSpent, TkInside
  <2>4. tok.rt # NoTok => TkGood(tok.rt)'
    BY <1>0, <1>1, <1>4, <2>2 DEF TkInv, TkSpent, TkGood, Current, TkInside
  <2>5. TkLeaves(t)
    BY <1>0, <1>1, <1>4, <2>1, <2>2, <2>3, <2>4 DEF TkLeaves, TkInside
  <2> QED BY <1>0, <2>5, TkLeaving
<1> QED BY <1>3, <1>4 DEF TokRetire

\* The provider takes a token: what it then expects of that family is the next, or
\* nothing any more.
LEMMA TkPost ==
  ASSUME TkInv, NEW t \in TokTasks,
         NEW fate \in {"ok", "refuse", "net", "lost", "garbage", "revoke"}, TokPost(t, fate)
  PROVE  TkInv'
<1> DEFINE rt == ttask[t].rt
           f == ttask[t].rt.fam
<1>0. UNCHANGED <<tkind, tok, tsess>> /\ ttask[t].pc = "post"
  BY DEF TokPost
<1>1. /\ tlock = t /\ tok.exists
      /\ \A u \in TokTasks : u # t => ttask[u].pc \notin TkInside
      /\ \A s \in TokSess : tlock # s
      /\ TkMinted(rt, tprov) /\ rt \in TkToken
      /\ tok \in TkCatalog /\ thist \in TkHistory /\ ttask \in [TokTasks -> TkTask]
  BY <1>0, TkAlone DEF TkInside
<1>2. tfault' \in 0 .. TokMaxFaults
  <2>1. CASE fate \in {"ok", "refuse"}
    BY <2>1 DEF TokPost, TkInv, TkShape
  <2>2. CASE fate \notin {"ok", "refuse"}
    <3>1. CanFail(fate) /\ tfault' = tfault + 1
      BY <2>2 DEF TokPost
    <3> QED BY <3>1, TkFaults
  <2> QED BY <2>1, <2>2
<1>3. tprov \in Seq(Nat) /\ f \in 1 .. Len(tprov) /\ rt.n \in Nat /\ rt.n > 0 /\ Len(tprov) \in Nat
  BY <1>1 DEF TkInv, TkShape, TkMinted, TkToken
<1>4. CASE fate = "net"
  <2>1. UNCHANGED <<tkind, tok, tsess, tprov>> /\ Done(t, "transient", tok)
    BY <1>0, <1>4 DEF TokPost
  <2>2. thist' = thist
    BY <1>1, <1>4 DEF TokPost, TkHistory
  <2> QED BY <1>0, <1>2, <2>1, <2>2, TkFails
\* What it expects moves on, and it is known of the token that was presented why.
<1>5. CASE fate # "net"
  <2>1. /\ tprov' \in Seq(Nat) /\ Len(tprov') = Len(tprov)
        /\ \A i \in 1 .. Len(tprov) : i # f => tprov'[i] = tprov[i]
        /\ fate \in {"ok", "lost", "garbage"} => tprov[f] = rt.n /\ tprov'[f] = rt.n + 1
        /\ fate = "revoke" => tprov'[f] = 0
        /\ fate = "refuse" => tprov' = tprov /\ tprov[f] # rt.n
    BY <1>3, <1>5 DEF TokPost, Current
  <2>2. /\ thist' \in TkHistory /\ thist'.signed = thist.signed /\ thist'.torn = thist.torn
        /\ thist'.kept = thist.kept
        /\ thist'.lost = IF fate \in {"lost", "garbage"} THEN thist.lost \cup {rt} ELSE thist.lost
        /\ thist'.refused = IF fate \in {"refuse", "revoke"} THEN thist.refused \cup {rt} ELSE thist.refused
    BY <1>1 DEF TokPost, TkHistory
  <2>3. /\ ttask' \in [TokTasks -> TkTask] /\ tback' \in BOOLEAN
        /\ \A u \in TokTasks : u # t => ttask'[u] = ttask[u]
        /\ \/ ttask'[t].pc = "idle" /\ tlock' = "free" /\ fate \in {"lost", "garbage"}
           \/ /\ ttask'[t].pc = (IF fate = "ok" THEN "store" ELSE "retire")
              /\ ttask'[t].rt = rt /\ tlock' = t
    <3>1. CASE Done(t, "transient", tok) /\ fate = "lost"
      BY <3>1, TkDoneFacts
    <3>2. CASE Done(t, "reconnect", tok) /\ fate = "garbage"
      BY <3>2, TkDoneFacts
    <3>3. CASE /\ ttask' = [ttask EXCEPT ![t].pc = IF fate = "ok" THEN "store" ELSE "retire"]
               /\ UNCHANGED <<tlock, tpark, tback>>
      <4>1. tback' \in BOOLEAN
        BY <3>3 DEF TkInv, TkShape
      <4> QED BY <1>1, <3>3, <4>1 DEF TkTask, TkInside
    <3> QED BY <1>5, <3>1, <3>2, <3>3 DEF TokPost
  <2>4. \A u \in TokTasks : ttask'[u].pc \in TkInside => u = t /\ ttask'[u].rt = rt /\ tlock' = t
    BY <1>1, <2>3 DEF TkInside
  <2>5. ttask'[t].pc \in TkInside <=> tlock' = t
    BY <2>3, TokAssumption DEF TkInside
  <2>6. ASSUME NEW x \in TkToken, TkMinted(x, tprov) PROVE TkMinted(x, tprov')
    <3>1. x.n \in Nat /\ rt.n \in Nat /\ x.fam \in 1 .. Len(tprov)
      BY <1>3, <2>6 DEF TkMinted, TkToken
    <3>2. CASE x.fam = f
      <4>1. x.n > 0 /\ (tprov[f] = 0 \/ x.n <= tprov[f])
        BY <2>6, <3>2 DEF TkMinted
      <4>2. CASE fate \in {"ok", "lost", "garbage"}
        <5>1. tprov[f] = rt.n /\ tprov'[f] = rt.n + 1
          BY <2>1, <4>2
        <5>2. x.n <= tprov'[f]
          BY <1>3, <3>1, <4>1, <5>1
        <5> QED BY <2>1, <3>1, <3>2, <4>1, <5>2 DEF TkMinted
      <4>3. CASE fate = "revoke"
        BY <2>1, <3>1, <3>2, <4>1, <4>3 DEF TkMinted
      <4>4. CASE fate = "refuse"
        BY <2>1, <2>6, <4>4 DEF TkMinted
      <4> QED BY <1>5, <4>2, <4>3, <4>4
    <3>3. CASE x.fam # f
      BY <2>1, <2>6, <3>1, <3>3 DEF TkMinted
    <3> QED BY <3>2, <3>3
  <2>7. tok.rt \in TkToken /\ (tok.rt # NoTok => TkMinted(tok.rt, tprov))
    BY <1>1 DEF TkCatalog, TkInv, TkFamilies
  <2>8. TkShape'
    BY <1>0, <1>2, <2>1, <2>2, <2>3 DEF TkInv, TkShape, TkTask, TkHistory
  <2>9. TkLock'
    <3>1. \A u \in TokTasks : ttask'[u].pc \in TkInside <=> tlock' = u
      BY <1>1, <2>3, <2>4, <2>5, TokAssumption
    <3>2. \A s \in TokSess : tlock' # s
      BY <1>1, <2>3, TokAssumption
    <3> QED BY <1>0, <1>1, <3>1, <3>2 DEF TkInv, TkLock
  <2>10. TkFamilies'
    <3>1. tok.acc.fam \in 0 .. Len(tprov')
      BY <2>1 DEF TkInv, TkFamilies
    <3>2. tok.rt # NoTok => TkMinted(tok.rt, tprov')
      BY <2>6, <2>7
    <3>3. \A u \in TokTasks : ttask'[u].pc \in TkInside => TkMinted(ttask'[u].rt, tprov')
      BY <1>1, <2>4, <2>6
    <3>4. \A u \in TokTasks : ttask'[u].pc \in {"store", "grant"} =>
              tprov'[ttask'[u].rt.fam] = ttask'[u].rt.n + 1
      <4> TAKE u \in TokTasks
      <4>1. HAVE ttask'[u].pc \in {"store", "grant"}
      <4>2. u = t /\ ttask'[u].rt = rt
        BY <2>4, <4>1 DEF TkInside
      <4>3. fate = "ok"
        BY <2>3, <4>1, <4>2
      <4> QED BY <2>1, <4>2, <4>3
    <3>5. ASSUME NEW r \in thist'.refused PROVE TkMinted(r, tprov') /\ tprov'[r.fam] # r.n
      <4>1. CASE r \in thist.refused
        <5>1. r \in TkToken /\ TkMinted(r, tprov) /\ tprov[r.fam] # r.n
          BY <1>1, <4>1 DEF TkInv, TkFamilies, Current, TkHistory
        <5>2. r.n \in Nat /\ r.n > 0 /\ r.fam \in 1 .. Len(tprov)
          BY <5>1 DEF TkMinted, TkToken
        <5>3. ASSUME r.fam = f PROVE tprov'[r.fam] # r.n
          <6>1. tprov[f] = 0 \/ r.n <= tprov[f]
            BY <5>1, <5>3 DEF TkMinted
          <6>2. CASE fate \in {"ok", "lost", "garbage"}
            BY <1>3, <2>1, <5>2, <5>3, <6>1, <6>2
          <6>3. CASE fate \in {"refuse", "revoke"}
            BY <2>1, <5>1, <5>2, <5>3, <6>3
          <6> QED BY <1>5, <6>2, <6>3
        <5>4. ASSUME r.fam # f PROVE tprov'[r.fam] # r.n
          BY <2>1, <5>1, <5>2, <5>4
        <5> QED BY <2>6, <5>1, <5>3, <5>4
      <4>2. CASE r = rt /\ fate \in {"refuse", "revoke"}
        BY <1>1, <1>3, <2>1, <2>6, <4>2
      <4> QED BY <2>2, <3>5, <4>1, <4>2
    <3>6. ASSUME NEW s \in TokSess, Storing(s) PROVE TkFresh(s)'
      <4>1. TkFresh(s) /\ tsess[s].fam # f
        BY <1>0, <3>6 DEF TkInv, TkFamilies, TkFresh, TkInside
      <4>2. tprov'[tsess[s].fam] = 1 /\ tsess[s].fam \in 1 .. Len(tprov')
        BY <2>1, <4>1 DEF TkFresh
      <4>3. \A r \in thist'.refused : r.fam # tsess[s].fam
        BY <2>2, <4>1 DEF TkFresh
      <4> QED BY <1>0, <2>4, <4>1, <4>2, <4>3 DEF TkFresh
    <3> QED BY <1>0, <3>1, <3>2, <3>3, <3>4, <3>5, <3>6 DEF TkInv, TkFamilies, Current, Storing
  <2>11. TkSpent'
    <3>1. tok.rt # NoTok => TkGood(tok.rt) /\ tok.rt \notin thist.refused \ thist.kept
      BY <1>0, <1>1 DEF TkInv, TkSpent, TkInside
    <3>2. ASSUME tok.rt # NoTok
          PROVE  \/ TkGood(tok.rt)'
                 \/ \E u \in TokTasks : ttask'[u].pc \in {"store", "grant"} /\ ttask'[u].rt = tok.rt
      <4>1. CASE tok.rt.fam # f \/ fate = "refuse"
        BY <1>0, <2>1, <2>2, <2>7, <3>1, <3>2, <4>1 DEF TkGood, Current, TkMinted
      <4>2. CASE tok.rt \in thist.lost \cup thist.refused
        BY <1>0, <2>2, <4>2 DEF TkGood
      <4>3. CASE tok.rt.fam = f /\ fate = "revoke"
        BY <1>0, <2>1, <4>3 DEF TkGood
      <4>4. CASE tok.rt.fam = f /\ fate \in {"ok", "lost", "garbage"} /\ tok.rt \notin thist.lost \cup thist.refused
        <5>1. tok.rt.n = rt.n
          BY <1>3, <2>1, <3>1, <3>2, <4>4 DEF TkGood, Current
        <5>2. tok.rt = rt
          BY <1>1, <2>7, <4>4, <5>1 DEF TkToken
        <5>3. CASE fate = "ok"
          BY <2>3, <5>2, <5>3
        <5>4. CASE fate # "ok"
          BY <1>0, <2>2, <4>4, <5>2, <5>4 DEF TkGood
        <5> QED BY <5>3, <5>4
      <4> QED BY <1>5, <4>1, <4>2, <4>3, <4>4
    <3>3. ASSUME tok.rt \in thist'.refused \ thist'.kept
          PROVE  \E u \in TokTasks : ttask'[u].pc = "retire" /\ ttask'[u].rt = tok.rt
      <4>1. tok.rt # NoTok
        BY <1>3, <2>2, <3>3 DEF TkInv, TkFamilies, TkMinted, NoTok
      <4>2. tok.rt = rt /\ fate \in {"refuse", "revoke"}
        BY <2>2, <3>1, <3>3, <4>1
      <4> QED BY <2>3, <4>2
    <3>4. \A u \in TokTasks : ttask'[u].pc # "post"
      BY <2>3, <2>4 DEF TkInside
    <3> QED BY <1>0, <3>2, <3>3, <3>4 DEF TkSpent
  <2>12. TkKept'
    <3> SUFFICES ASSUME tkind = "mcp", tok.exists, ~thist.torn
                 PROVE  /\ tok.acc.fam = thist.signed /\ rt.fam = thist.signed
                        /\ tok.rt = NoTok \/ tok.rt.fam = thist.signed
      BY <1>0, <2>2, <2>4 DEF TkKept
    <3>1. tlock \notin TokSess
      BY <1>1
    <3> QED BY <1>0, <3>1 DEF TkInv, TkKept, TkInside
  <2> QED BY <2>8, <2>9, <2>10, <2>11, <2>12 DEF TkInv
<1> QED BY <1>4, <1>5

LEMMA TkStep == TkInv /\ [TokNext]_tokVars => TkInv'
<1> SUFFICES ASSUME TkInv, [TokNext]_tokVars PROVE TkInv'
  OBVIOUS
<1>1. CASE TokAge \/ TokTick
  BY <1>1, TkClock
<1>2. CASE TokSweep
  BY <1>2, TkObserves, TokAssumption DEF TokSweep
<1>3. ASSUME NEW t \in TokTasks, NEW force \in BOOLEAN, TokWant(t, force) PROVE TkInv'
  BY <1>3, TkObserves DEF TokWant
<1>4. ASSUME NEW t \in TokTasks, TokRenewal(t) PROVE TkInv'
  BY <1>4, TkAcquire, TkStore, TkGrant, TkRetire, TkPost DEF TokRenewal
<1>5. ASSUME NEW s \in TokSess, NEW new \in BOOLEAN, TokSignIn(s, new) \/ TokBegin(s, new) PROVE TkInv'
  BY <1>5, TkSignIns
<1>6. ASSUME NEW s \in TokSess, TokSession(s) PROVE TkInv'
  <2>1. CASE TokExchange(s) \/ TokCommit(s) \/ TokSettle(s) \/ TokVerify(s) \/ TokComplete(s)
    BY <2>1, TkExchange, TkCommit, TkSettle, TkVerify, TkComplete
  <2>2. CASE TokProbe(s) \/ TokDiscover(s) \/ TokRegister(s) \/ TokPublish(s) \/ TokCode(s) \/ TokRedirect(s)
    BY <2>2, TkMoves DEF TokProbe, TokDiscover, TokRegister, TokPublish, TokCode, TokRedirect
  <2>3. CASE TokGiveUp(s)
    BY <2>3, TkMoves DEF TokGiveUp
  <2> QED BY <1>6, <2>1, <2>2, <2>3 DEF TokSession
<1>7. ASSUME NEW s \in TokSess, TokCancel(s) PROVE TkInv'
  BY <1>7, TkCancel
<1>8. CASE UNCHANGED tokVars
  <2>1. UNCHANGED <<tkind, tok, tlock, ttask, tsess, tprov, tback, tfault, thist>>
    BY <1>8 DEF tokVars
  <2> QED BY <2>1 DEF TkInv, TkShape, TkLock, TkFamilies, TkFresh, Storing, TkSpent, TkGood, Current, TkKept
<1> QED BY <1>1, <1>2, <1>3, <1>4, <1>5, <1>6, <1>7, <1>8 DEF TokNext

\* What the invariant says of the properties.
LEMMA TkImplies == TkInv => TokensSound
<1> SUFFICES ASSUME TkInv PROVE TokensSound
  OBVIOUS
<1>1. TokTypeOK
  <2>1. tok.acc \in TokTokens /\ tok.rt \in TokTokens
    <3>1. tok.acc \in TkToken /\ tok.rt \in TkToken /\ tok.acc.fam \in 0 .. Len(tprov) /\ Len(tprov) \in Nat
      BY DEF TkInv, TkShape, TkFamilies
    <3>2. tok.rt.fam \in 0 .. Len(tprov)
      BY <3>1 DEF TkInv, TkFamilies, TkMinted, NoTok
    <3> QED BY <3>1, <3>2 DEF TkToken, TokTokens
  <2>2. \A t \in TokTasks : tlock = t => ttask[t].pc \notin {"idle", "wait"}
    BY DEF TkInv, TkLock, TkInside
  <2>3. /\ tkind \in TokKinds /\ tfault \in 0 .. TokMaxFaults /\ DOMAIN tprov = 1 .. Len(tprov)
        /\ \A s \in TokSess : tlock = s => tsess[s].phase \in {"granting", "checking"}
    BY DEF TkInv, TkShape, TkLock
  <2>4. tback \in BOOLEAN /\ tok.exists \in BOOLEAN
    BY DEF TkInv, TkShape
  <2> QED BY <2>1, <2>2, <2>3, <2>4 DEF TokTypeOK
<1>2. TokSignInKept
  BY DEF TkInv, TkKept, TokSignInKept
<1>3. TokSpentOnce
  BY DEF TkInv, TkSpent, TkGood, TokSpentOnce
<1>4. TokNoReplay
  BY DEF TkInv, TkSpent, TokNoReplay
<1> QED BY <1>1, <1>2, <1>3, <1>4 DEF TokensSound

\* For any callers, sessions and faults, a renewal never shows the provider a refresh
\* token that it has exchanged or refused, unless an answer or a write was lost, and what
\* a sign-in stored is never replaced by a renewal of what was there before
\* (mcp_refresh.rs refresh_locked, mcp_auth.rs run_flow).
THEOREM TokensHold == TokSpec => []TokensSound
<1>1. TkInv => TokensSound
  BY TkImplies
<1> QED
  BY <1>1, TkInitInv, TkStep, PTL DEF TokSpec
=============================================================================
