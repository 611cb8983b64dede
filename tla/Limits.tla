------------------------------- MODULE Limits -------------------------------
(***************************************************************************)
(* The sliding windows of ratelimit.rs, and the direct endpoint's use of   *)
(* one against failed authentications (capability/http.rs).                *)
(*                                                                         *)
(* A KeyedLimiter keeps a window per key, and at most so many keys.  A     *)
(* WindowLimiter is one window outside such a table: here the listener's   *)
(* own, which counts the failures of callers that have no identity.        *)
(***************************************************************************)
EXTENDS Naturals, Sequences, FiniteSets

CONSTANTS
    LmKeys,      \* identities that a KeyedLimiter tells apart
    LmMax,       \* hits a window admits
    LmWindow,    \* the length of a window
    LmMaxKeys,   \* DEFAULT_MAX_KEYS
    LmCallers,   \* concurrent failed authentications
    LmMaxTime    \* bound: last modelled instant

ASSUME LmAssumption ==
    /\ {LmMax, LmWindow, LmMaxKeys, LmMaxTime} \subseteq Nat \ {0}
    /\ "own" \notin LmKeys

Own == "own"
Windows == LmKeys \cup {Own}

VARIABLES
    lmuse,     \* which of the two limiters this behaviour is about: they share nothing
    lmnow,     \* Instant::now()
    lmhits,    \* window -> its hits, oldest first
    lmlog,     \* history: window -> every instant at which it was admitted
    lmtold,    \* history: window -> what its last refusal said: when, and for how long
    lmpc,      \* failed authentication -> where it is
    lmnoted,   \* auth_flood_noted
    lmwrote    \* history: entries in the log, of admitted failures and of floods

lmVars == <<lmuse, lmnow, lmhits, lmlog, lmtold, lmpc, lmnoted, lmwrote>>

NotTold == [at |-> 0, wait |-> 0]
LmInit ==
    /\ lmuse \in {"table", "listener"}
    /\ lmnow = 0
    /\ lmhits = [k \in Windows |-> <<>>] /\ lmlog = [k \in Windows |-> <<>>]
    /\ lmtold = [k \in Windows |-> NotTold]
    /\ lmpc = [c \in LmCallers |-> "idle"] /\ lmnoted = FALSE
    /\ lmwrote = [failures |-> 0, floods |-> 0]

LmTick ==
    /\ lmnow < LmMaxTime /\ lmnow' = lmnow + 1
    /\ UNCHANGED <<lmuse, lmhits, lmlog, lmtold, lmpc, lmnoted, lmwrote>>

\* Mutant: a hit leaves the window one instant early.
PrunedEarly(hits) == SelectSeq(hits, LAMBDA t : lmnow - t < LmWindow)

\* The hits at the front that are older than the window leave, up to the first that
\* is not.
Expired(hits) ==
    CHOOSE n \in 0 .. Len(hits) :
        /\ \A i \in 1 .. n : lmnow - hits[i] > LmWindow
        /\ n < Len(hits) => lmnow - hits[n + 1] <= LmWindow
Pruned(hits) == SubSeq(hits, Expired(hits) + 1, Len(hits))
Active(k) == Pruned(lmhits[k]) # <<>>
Full(k) == Len(Pruned(lmhits[k])) >= LmMax

\* window_retry_after: when the oldest hit leaves.
RetryAfter(hits) == IF hits = <<>> THEN LmWindow ELSE LmWindow - (lmnow - Head(hits))

\* A new key finds no room.  Room is made by age alone, never by taking an active
\* key's hits away.
NoRoom(k) == k \in LmKeys /\ ~Active(k) /\ Cardinality({j \in LmKeys : Active(j)}) >= LmMaxKeys

\* check_at prunes its window: the whole table, when k is a key of it.
PrunedWith(k) ==
    [j \in Windows |-> IF (j = Own) = (k = Own) THEN Pruned(lmhits[j]) ELSE lmhits[j]]

LmAdmit(k) ==
    /\ lmhits' = [PrunedWith(k) EXCEPT ![k] = Append(@, lmnow)]
    /\ lmlog' = [lmlog EXCEPT ![k] = Append(@, lmnow)]
    /\ UNCHANGED lmtold

LmRefuse(k) ==
    /\ lmhits' = PrunedWith(k)
    /\ lmtold' = [lmtold EXCEPT ![k] =
         [at |-> lmnow, wait |-> IF NoRoom(k) THEN LmWindow ELSE RetryAfter(Pruned(lmhits[k]))]]
    /\ UNCHANGED lmlog

LmCheck(k) ==
    /\ IF NoRoom(k) \/ Full(k) THEN LmRefuse(k) ELSE LmAdmit(k)
    /\ UNCHANGED <<lmuse, lmnow, lmpc, lmnoted, lmwrote>>

\* retry_after prunes and looks, without a hit.
LmLook(k) ==
    /\ lmhits' = [lmhits EXCEPT ![k] = Pruned(@)]
    /\ UNCHANGED <<lmuse, lmnow, lmlog, lmtold, lmpc, lmnoted, lmwrote>>

----------------------------------------------------------------------------
(* Failed authentications at a direct endpoint                             *)

\* endpoint_auth_throttled: one entry, until a failure is admitted again.
Flood ==
    /\ lmnoted' = TRUE
    /\ lmwrote' = IF lmnoted THEN lmwrote ELSE [lmwrote EXCEPT !.floods = @ + 1]

\* A secret that is presented is compared only while the window has room; one that is
\* missing is a failure at once.
LmPresent(c, missing) ==
    /\ lmpc[c] = "idle"
    /\ IF Full(Own) /\ ~missing
       THEN Flood /\ UNCHANGED lmpc
       ELSE lmpc' = [lmpc EXCEPT ![c] = "failed"] /\ UNCHANGED <<lmnoted, lmwrote>>
    /\ UNCHANGED <<lmuse, lmnow, lmhits, lmlog, lmtold>>

\* endpoint_auth_failure charges the window, which others may have filled meanwhile ...
LmFailed(c) ==
    /\ lmpc[c] = "failed"
    /\ IF Full(Own)
       THEN Flood /\ LmRefuse(Own) /\ lmpc' = [lmpc EXCEPT ![c] = "idle"]
       ELSE LmAdmit(Own) /\ lmpc' = [lmpc EXCEPT ![c] = "admitted"] /\ UNCHANGED <<lmnoted, lmwrote>>
    /\ UNCHANGED <<lmuse, lmnow>>

\* ... and re-arms the flood entry after it.
LmNoted(c) ==
    /\ lmpc[c] = "admitted"
    /\ lmpc' = [lmpc EXCEPT ![c] = "idle"]
    /\ lmnoted' = FALSE
    /\ lmwrote' = [lmwrote EXCEPT !.failures = @ + 1]
    /\ UNCHANGED <<lmuse, lmnow, lmhits, lmlog, lmtold>>

LmNext ==
    \/ LmTick
    \/ lmuse = "table" /\ \E k \in LmKeys : LmCheck(k) \/ LmLook(k)
    \/ /\ lmuse = "listener"
       /\ \E c \in LmCallers :
             \/ \E m \in BOOLEAN : LmPresent(c, m)
             \/ LmFailed(c) \/ LmNoted(c)

LmSpec == LmInit /\ [][LmNext]_lmVars

----------------------------------------------------------------------------
(* Properties                                                              *)

\* Type; the table never holds more keys than it may, nor a window more than it admits.
LmTypeOK ==
    /\ lmuse \in {"table", "listener"}
    /\ lmnow \in 0 .. LmMaxTime /\ lmnoted \in BOOLEAN
    /\ \A k \in Windows : Len(lmhits[k]) <= LmMax
    /\ Cardinality({k \in LmKeys : lmhits[k] # <<>>}) <= LmMaxKeys
    /\ lmpc \in [LmCallers -> {"idle", "failed", "admitted"}]

\* However the calls fall, and whatever other keys do to the table, no stretch of a
\* window's length holds more admissions of one key than the limit.
LmSliding ==
    \A k \in Windows : \A t \in 0 .. LmMaxTime :
       Cardinality({i \in DOMAIN lmlog[k] : lmlog[k][i] \in t .. t + LmWindow}) <= LmMax

\* The wait a refusal names is enough, and never longer than a window: once it is over,
\* a window that admitted nothing since has room again.
LmWaitEnds ==
    \A k \in Windows :
       LET told == lmtold[k] IN
       /\ told.wait <= LmWindow
       /\ told.wait # 0 /\ lmnow > told.at + told.wait
            /\ (\A i \in DOMAIN lmlog[k] : lmlog[k][i] <= told.at) => ~Full(k)

\* What strangers can make the endpoint write into the sealed log stays within what the
\* window admits: one entry a failure, and at most one flood for each and one more.
LmFloodBounded == lmwrote.floods <= lmwrote.failures + 1

\* The sliding windows: never over the limit in any window, and the wait a
\* refusal names is enough.
LimitsSound ==
    /\ LmTypeOK
    /\ LmSliding
    /\ LmWaitEnds
    /\ LmFloodBounded
=============================================================================
