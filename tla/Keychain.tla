------------------------------ MODULE Keychain ------------------------------
(***************************************************************************)
(* The macOS vault of keychain/mod.rs: two keychains, of which the newer   *)
(* (data protection) is open to signed binaries only, a marker beside the  *)
(* store that names the one in use, and items that move from the old       *)
(* keychain to the new one when they are first read.  One item is          *)
(* followed.  A read runs in a blocking task: its steps interleave with    *)
(* those of a replacement or a deletion.                                   *)
(***************************************************************************)
EXTENDS Naturals

CONSTANTS
    KcMaxVal,   \* bound: values given to the item
    KcFaults    \* "marker", "lost", "copy", "cleanup", "remove": what may fail

ASSUME KcAssumption == KcMaxVal \in Nat

VARIABLES
    kcopen,    \* the keychain of the running broker, or "closed"
    kcasked,   \* whether it was asked for by name
    kcmark,    \* keychain.json
    kcitem,    \* keychain -> the item's value there, 0 if none
    kcexists,  \* whether the store has an index
    kctrue,    \* the value last given to the item, 0 once deleted
    kcnext,    \* the next value
    kcread,    \* the read under way
    kcgone,    \* a deletion under way: whether the first copy was there
    kcgot,     \* what the last complete read returned, and the value then due
    kcodd      \* "forced": a process was told to use the login keychain; "torn":
               \* a deletion left the second copy; "misled": a stale marker could not
               \* be replaced; "raced": the item changed while it was read

kcVars == <<kcopen, kcasked, kcmark, kcitem, kcexists, kctrue, kcnext, kcread, kcgone, kcgot, kcodd>>

DP == "data-protection"
Login == "login"
Chains == {DP, Login}
Unread == [at |-> "none", val |-> 0, due |-> 0]
NoAnswer == [val |-> 0, due |-> 0]

\* A store of the older release, whose item lies in the login keychain; or a fresh one.
KcInit ==
    /\ kcopen = "closed" /\ kcasked = FALSE /\ kcmark = "none" /\ kcodd = {}
    /\ \/ kcitem = [c \in Chains |-> IF c = Login THEN 1 ELSE 0] /\ kctrue = 1 /\ kcexists = TRUE
       \/ kcitem = [c \in Chains |-> 0] /\ kctrue = 0 /\ kcexists = FALSE
    /\ kcnext = 2 /\ kcread = Unread /\ kcgone = "none" /\ kcgot = NoAnswer

Quiet == kcread = Unread /\ kcgone = "none"
Raced == IF kcread # Unread THEN kcodd \cup {"raced"} ELSE kcodd

----------------------------------------------------------------------------
(* Opening                                                                 *)

\* Mutant: a lost marker falls back to the login keychain like a fresh store.
ResolveQuietly(requested, recorded, exists, signed) ==
    IF requested # "auto" THEN IF requested = Login \/ signed THEN requested ELSE "refused"
    ELSE IF signed THEN DP
    ELSE IF recorded = DP THEN "refused" ELSE Login

\* resolve_for_store
Resolve(requested, recorded, exists, signed) ==
    IF requested # "auto" THEN IF requested = Login \/ signed THEN requested ELSE "refused"
    ELSE IF signed THEN DP
    ELSE IF recorded = DP \/ (exists /\ recorded = "none") THEN "refused" ELSE Login

\* open_for_store: the marker is written unless it says so already, as far as it goes.
KcOpen(requested, signed, marked) ==
    LET c == Resolve(requested, kcmark, kcexists, signed) IN
    /\ kcopen = "closed" /\ c # "refused"
    /\ ~marked => "marker" \in KcFaults
    /\ kcopen' = c /\ kcasked' = (requested = Login)
    /\ kcmark' = IF marked THEN c ELSE kcmark
    /\ kcodd' = kcodd \cup (IF requested = Login THEN {"forced"} ELSE {})
                       \cup (IF ~marked /\ kcmark # "none" /\ kcmark # c THEN {"misled"} ELSE {})
    /\ UNCHANGED <<kcitem, kcexists, kctrue, kcnext, kcread, kcgone, kcgot>>

\* The process ends, whatever it was doing.
KcClose ==
    /\ kcopen # "closed" /\ kcopen' = "closed" /\ kcasked' = FALSE
    /\ kcread' = Unread /\ kcgone' = "none"
    /\ kcodd' = IF kcgone # "none" THEN kcodd \cup {"torn"} ELSE kcodd
    /\ UNCHANGED <<kcmark, kcitem, kcexists, kctrue, kcnext, kcgot>>

\* The marker is lost, or has become unreadable.
KcLoseMarker ==
    /\ "lost" \in KcFaults /\ kcmark # "none" /\ kcmark' = "none"
    /\ UNCHANGED <<kcopen, kcasked, kcitem, kcexists, kctrue, kcnext, kcread, kcgone, kcgot, kcodd>>

----------------------------------------------------------------------------
(* The item                                                                *)

\* KeychainVault::set, which goes to the keychain in use alone.
KcSet ==
    /\ kcopen # "closed" /\ kcgone = "none"
    /\ kcnext <= KcMaxVal /\ kcnext' = kcnext + 1
    /\ kcitem' = [kcitem EXCEPT ![kcopen] = kcnext]
    /\ kctrue' = kcnext /\ kcexists' = TRUE /\ kcodd' = Raced
    /\ UNCHANGED <<kcopen, kcasked, kcmark, kcread, kcgone, kcgot>>

\* delete, first half: the copy in the keychain in use.
KcDelete ==
    /\ kcopen # "closed" /\ kcgone = "none" /\ kctrue # 0
    /\ kcgone' = IF kcitem[kcopen] # 0 THEN "found" ELSE "missed"
    /\ kcitem' = [kcitem EXCEPT ![kcopen] = 0] /\ kcodd' = Raced
    /\ UNCHANGED <<kcopen, kcasked, kcmark, kcexists, kctrue, kcnext, kcread, kcgot>>

\* ... second half: a copy that was never migrated.  The item counts as deleted when
\* either was there; a copy that will not go is logged.
KcDeleteLegacy(works) ==
    /\ kcgone # "none" /\ kcgone' = "none"
    /\ ~works => "remove" \in KcFaults /\ kcopen = DP /\ kcitem[Login] # 0
    /\ LET legacy == kcopen = DP /\ kcitem[Login] # 0 /\ works IN
       /\ kcitem' = IF legacy THEN [kcitem EXCEPT ![Login] = 0] ELSE kcitem
       /\ kctrue' = IF kcgone = "found" \/ legacy THEN 0 ELSE kctrue
    /\ kcodd' = IF works THEN kcodd ELSE kcodd \cup {"torn"}
    /\ UNCHANGED <<kcopen, kcasked, kcmark, kcexists, kcnext, kcread, kcgot>>

\* read_migrating, the keychain in use.
KcReadFirst ==
    /\ kcopen # "closed" /\ kcread = Unread
    /\ IF kcitem[kcopen] # 0 \/ kcopen = Login
       THEN kcgot' = [val |-> kcitem[kcopen], due |-> kctrue] /\ UNCHANGED kcread
       ELSE kcread' = [at |-> "legacy", val |-> 0, due |-> kctrue] /\ UNCHANGED kcgot
    /\ kcodd' = IF kcgone # "none" THEN kcodd \cup {"raced"} ELSE kcodd
    /\ UNCHANGED <<kcopen, kcasked, kcmark, kcitem, kcexists, kctrue, kcnext, kcgone>>

\* ... the login keychain.
KcReadLegacy ==
    /\ kcread.at = "legacy"
    /\ IF kcitem[Login] = 0
       THEN kcread' = Unread /\ kcgot' = [val |-> 0, due |-> kcread.due]
       ELSE kcread' = [kcread EXCEPT !.at = "copy", !.val = kcitem[Login]] /\ UNCHANGED kcgot
    /\ UNCHANGED <<kcopen, kcasked, kcmark, kcitem, kcexists, kctrue, kcnext, kcgone, kcodd>>

\* ... the copy; one that fails leaves the item where it is.
KcCopy(works) ==
    /\ kcread.at = "copy" /\ (~works => "copy" \in KcFaults)
    /\ kcitem' = IF works THEN [kcitem EXCEPT ![DP] = kcread.val] ELSE kcitem
    /\ kcread' = IF works THEN [kcread EXCEPT !.at = "cleanup"] ELSE Unread
    /\ kcgot' = IF works THEN kcgot ELSE [val |-> kcread.val, due |-> kcread.due]
    /\ UNCHANGED <<kcopen, kcasked, kcmark, kcexists, kctrue, kcnext, kcgone, kcodd>>

\* ... and the removal of the original.
KcCleanup(works) ==
    /\ kcread.at = "cleanup" /\ (~works => "cleanup" \in KcFaults)
    /\ kcitem' = IF works THEN [kcitem EXCEPT ![Login] = 0] ELSE kcitem
    /\ kcread' = Unread /\ kcgot' = [val |-> kcread.val, due |-> kcread.due]
    /\ UNCHANGED <<kcopen, kcasked, kcmark, kcexists, kctrue, kcnext, kcgone, kcodd>>

KcNext ==
    \/ \E r \in {"auto", DP, Login}, signed \in BOOLEAN, marked \in BOOLEAN : KcOpen(r, signed, marked)
    \/ KcClose \/ KcLoseMarker
    \/ KcSet \/ KcDelete \/ \E works \in BOOLEAN : KcDeleteLegacy(works)
    \/ KcReadFirst \/ KcReadLegacy
    \/ \E works \in BOOLEAN : KcCopy(works) \/ KcCleanup(works)

KcSpec == KcInit /\ [][KcNext]_kcVars

----------------------------------------------------------------------------
(* Properties                                                              *)

\* What a read of the open vault would give.
Visible == IF kcitem[kcopen] # 0 \/ kcopen = Login THEN kcitem[kcopen] ELSE kcitem[Login]

\* "The one case that must not be quiet": a process that was never told to use the login
\* keychain does not open an empty vault on a store whose values lie in the other one,
\* whatever became of the marker; and what it finds is the value last given, through
\* migrations that stop or fail half way (not of a deletion
\* that did, or of a change during a read: either may bring the older copy back).
KcNotEmptied ==
    kcopen # "closed" /\ kcodd = {} /\ Quiet => Visible = kctrue

\* A read returns the value that was there when it began.
KcReadsLatest == kcodd = {} => kcgot.val = kcgot.due

KeychainSound == KcNotEmptied /\ KcReadsLatest

\* Claimed: "a binary that cannot open the data-protection keychain against a store whose
\* items live there ... fails with an actionable error": a process that was not itself
\* told to use the login keychain finds the item.
KcNeverQuiet ==
    kcopen = Login /\ ~kcasked /\ Quiet => ~(kcitem[DP] # 0 /\ kcitem[Login] = 0)
=============================================================================
