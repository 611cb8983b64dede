------------------------------ MODULE Integrity ------------------------------
(***************************************************************************)
(* The seal on the state files: StateIntegrity in integrity.rs.  The key   *)
(* is an item of the vault, made by the first start; a file written before *)
(* there was a key is trusted once, by the start that makes it.  A start   *)
(* reads the protected files one after the other and may stop anywhere.    *)
(***************************************************************************)
EXTENDS Naturals, FiniteSets

CONSTANTS
    SlFiles,     \* the protected files
    SlMaxStarts, \* bound: starts of the broker
    SlFaults     \* "write", "crash", "unkey" (the vault loses the key), "touch" (a file is
                 \* replaced from outside), "newer" (a later release wrote it)

ASSUME SlAssumption == SlMaxStarts \in Nat

VARIABLES
    slkey,     \* the key in the vault: a number, 0 if there is none
    slfile,    \* file |-> its content
    slup,      \* "down", "reading", "up"
    slmine,    \* the key of the process, and whether it was there before
    slread,    \* file |-> what reading it gave
    slstarts,  \* starts so far, which also number the keys
    slodd      \* what happened that an honest store does not go through

slVars == <<slkey, slfile, slup, slmine, slread, slstarts, slodd>>

\* What a file holds: nothing, JSON without a seal, a seal without a version, a seal of
\* this version, or of a later one.  `by` is the key of the seal.
None == [form |-> "absent", by |-> 0]
Bare == [form |-> "bare", by |-> 0]
Seal(form, key) == [form |-> form, by |-> key]

SlInit ==
    /\ slkey = 0 /\ slup = "down" /\ slmine = [key |-> 0, established |-> FALSE]
    /\ slfile \in [SlFiles -> {None, Bare}]
    /\ slread = [f \in SlFiles |-> "unread"] /\ slstarts = 0 /\ slodd = {}

\* sealed_state_exists
SealedExists == \E f \in SlFiles : slfile[f].form \notin {"absent", "bare"}

\* Mutant: only the vault tells a first start.
OpenKeyUnseen ==
    /\ slkey' = IF slkey = 0 THEN slstarts + 1 ELSE slkey
    /\ slmine' = [key |-> slkey', established |-> slkey # 0]

\* open_with_established_state: a missing key is made anew, but that the files are sealed
\* tells that this is no first start.
OpenKey ==
    /\ slkey' = IF slkey = 0 THEN slstarts + 1 ELSE slkey
    /\ slmine' = [key |-> slkey', established |-> slkey # 0 \/ SealedExists]

SlStart ==
    /\ slup = "down" /\ slstarts < SlMaxStarts
    /\ OpenKey
    /\ slup' = "reading" /\ slstarts' = slstarts + 1
    /\ slread' = [f \in SlFiles |-> "unread"]
    /\ UNCHANGED <<slfile, slodd>>

\* read_verified: what a file's content amounts to.
Verdict(f) ==
    LET c == slfile[f] IN
    IF c.form = "absent" THEN "absent"
    ELSE IF c.form = "bare" THEN IF slmine.established THEN "tampered" ELSE "trusted"
    ELSE IF c.by # slmine.key THEN "tampered"
    ELSE IF c.form = "newer" THEN "unsupported"
    ELSE "verified"

\* A file is read; what has no version yet is sealed again, which a verified file can do
\* without and a trusted one cannot.
SlRead(f, works) ==
    LET v == Verdict(f)
        rewrites == v = "trusted" \/ (v = "verified" /\ slfile[f].form = "legacy")
    IN /\ slup = "reading" /\ slread[f] = "unread"
       /\ ~works => "write" \in SlFaults /\ rewrites
       /\ slfile' = IF rewrites /\ works THEN [slfile EXCEPT ![f] = Seal("sealed", slmine.key)] ELSE slfile
       /\ slread' = [slread EXCEPT ![f] = v]
       /\ slup' = IF v \in {"tampered", "unsupported"} \/ (v = "trusted" /\ ~works) THEN "down"
                  ELSE IF \A g \in SlFiles \ {f} : slread[g] # "unread" THEN "up" ELSE "reading"
       /\ slodd' = IF slup' = "down" /\ ~slmine.established THEN slodd \cup {"halted"} ELSE slodd
    /\ UNCHANGED <<slkey, slmine, slstarts>>

\* write
SlWrite(f) ==
    /\ slup = "up" /\ slfile' = [slfile EXCEPT ![f] = Seal("sealed", slmine.key)]
    /\ UNCHANGED <<slkey, slup, slmine, slread, slstarts, slodd>>

\* The process ends; one that has not read every file yet may leave some unsealed.
SlStop ==
    /\ slup # "down" /\ (slup = "reading" => "crash" \in SlFaults) /\ slup' = "down"
    /\ slodd' = IF slup = "reading" /\ ~slmine.established THEN slodd \cup {"halted"} ELSE slodd
    /\ UNCHANGED <<slkey, slfile, slmine, slread, slstarts>>

SlLoseKey ==
    /\ "unkey" \in SlFaults /\ slup = "down" /\ slkey # 0
    /\ slkey' = 0 /\ slodd' = slodd \cup {"unkey"}
    /\ UNCHANGED <<slfile, slup, slmine, slread, slstarts>>

\* From outside, or by another release: a file is replaced.
SlReplace(f) ==
    /\ slup = "down" /\ slkey # 0
    /\ \/ "touch" \in SlFaults /\ slfile[f] # None /\ slodd' = slodd \cup {"touch"}
          /\ slfile' = [slfile EXCEPT ![f] = Bare]
       \/ "touch" \in SlFaults /\ slfile[f].form = "sealed" /\ slodd' = slodd \cup {"touch"}
          /\ slfile' = [slfile EXCEPT ![f] = Seal("sealed", 0)]
       \/ "newer" \in SlFaults /\ slfile[f].form = "sealed" /\ slodd' = slodd
          /\ \E form \in {"legacy", "newer"} : slfile' = [slfile EXCEPT ![f] = Seal(form, slkey)]
    /\ UNCHANGED <<slkey, slup, slmine, slread, slstarts>>

SlNext ==
    \/ SlStart \/ SlStop \/ SlLoseKey
    \/ \E f \in SlFiles, works \in BOOLEAN : SlRead(f, works)
    \/ \E f \in SlFiles : SlWrite(f) \/ SlReplace(f)

SlSpec == SlInit /\ [][SlNext]_slVars

----------------------------------------------------------------------------
(* Properties                                                              *)

\* A bare file is trusted by the first start alone: never once a file was sealed, even if
\* the vault has lost the key, and never by a later start.
SlTrustedOnce ==
    \A f \in SlFiles : slread[f] = "trusted" /\ slup # "down" =>
        ~slmine.established /\ (slmine.key = 1 \/ \A g \in SlFiles : slfile[g].by \in {0, slmine.key})

\* A running broker has read nothing that was replaced from outside, and every file it
\* opened with lies sealed under its key.
SlAllSealed ==
    slup = "up" => \A f \in SlFiles :
        slread[f] # "absent" => slfile[f].form # "bare" /\ slfile[f].by = slmine.key

\* A store that only brokers wrote, whose first start ended well, always opens, and opens
\* under the one key.
SlHonestOpens ==
    slodd = {} => \A f \in SlFiles : slread[f] # "tampered"

IntegritySound ==
    /\ SlTrustedOnce
    /\ SlAllSealed
    /\ SlHonestOpens

\* What a first start cut short would need: the legacy files it had not come to are
\* still trusted by the next one.
SlMigrationResumes == slodd \subseteq {"halted"} => \A f \in SlFiles : slread[f] # "tampered"
=============================================================================
