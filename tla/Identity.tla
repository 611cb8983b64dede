------------------------------ MODULE Identity ------------------------------
(***************************************************************************)
(* The broker's own credentials: IdentityStore in identity.rs, over the    *)
(* sealed files of integrity.rs.  One agent key is in force, and its       *)
(* plaintext lies in the token file; keys it replaced live on for a while  *)
(* as aliases, or are remembered as superseded; a management token opens   *)
(* the other plane.  Every operation holds the store's lock, but a write   *)
(* may fail, before its file is in place or after, and the process may     *)
(* stop between its two files.  The state directory may still hold the     *)
(* files of an older release, unsealed.                                    *)
(***************************************************************************)
EXTENDS Naturals, FiniteSets

CONSTANTS
    IdTtl,        \* sliding lifetime of an idle key
    IdRecovery,   \* RECOVERY_ALIAS_TTL
    IdRefresh,    \* idle time after which a use is written down
    IdSupTtl,     \* SUPERSEDED_TOKEN_TTL
    IdMaxSup,     \* MAX_SUPERSEDED_TOKEN_HASHES
    IdMaxKey,     \* bound: keys minted
    IdMaxTime,    \* bound: the wall clock
    IdFaults      \* "persist", "file", "landed", "crash", "lose", "setback"

ASSUME IdAssumption ==
    /\ {IdTtl, IdRecovery, IdRefresh, IdSupTtl, IdMaxSup} \subseteq Nat
    /\ {IdMaxKey, IdMaxTime} \subseteq Nat \ {0}

VARIABLES
    idup,        \* whether a broker runs
    idmem,       \* its BrokerIdentity, in memory
    iddisk,      \* identity.json
    idfile,      \* the token file: a key, or Lost
    idhalf,      \* the key that a rotation put there and then reported as failed, or Lost
    idlegacy,    \* agents.json of the per-agent era: key |-> last use
    idwall,      \* the wall clock, which the user may set back
    idproj,      \* the monotonic projection, once the process has asked for it
    idnext,      \* the next key to mint
    idout,       \* keys and management tokens replaced or revoked with success
    idlapsed     \* aliases and management tokens refused as expired by this process

idVars == <<idup, idmem, iddisk, idfile, idhalf, idlegacy, idwall, idproj, idnext, idout, idlapsed>>

Lost == 0
Unasked == IdMaxTime + 1
Never == IdMaxTime + IdTtl + 1
NoToken == [key |-> 0, exp |-> Never]
NoRecord == [cur |-> 0, used |-> 0, sup |-> {}, aliases |-> {}, mgr |-> NoToken]
Keys == 1 .. IdMaxKey
Least(a, b) == IF a < b THEN a ELSE b

\* skew_guarded_now
GuardedNow == IF idproj # Unasked /\ idproj > idwall THEN idproj ELSE idwall
Asked == idproj' = IF idproj = Unasked THEN idwall ELSE idproj

IdInit ==
    /\ idup = FALSE /\ idwall = 1 /\ idproj = Unasked
    /\ idmem = NoRecord /\ iddisk = NoRecord /\ idfile = Lost /\ idhalf = Lost
    /\ idlegacy \in {{}, {[key |-> 1, used |-> 0]}}
    /\ idnext = 2
    /\ idout = {} /\ idlapsed = {}

----------------------------------------------------------------------------
(* What a presented key is answered                                        *)

AliasOf(s, k) == {a \in s.aliases : a.key = k}

\* verify, up to the refresh.
Answer(s, k) ==
    LET alias == AliasOf(s, k)
        used == IF s.cur = k THEN s.used ELSE (CHOOSE a \in alias : TRUE).used
    IN IF s.cur # k /\ alias # {} /\ \E a \in alias : GuardedNow >= a.exp THEN "expired"
       ELSE IF s.cur = k \/ alias # {}
            THEN IF GuardedNow > used + IdTtl THEN "expired" ELSE "ok"
       ELSE IF \E e \in s.sup : e.key = k /\ idwall <= e.at + IdSupTtl
            THEN "superseded"
       ELSE "invalid"

\* verify_manage_identity
ManageAnswer(s, k) ==
    IF s.mgr.key # k \/ k = 0 THEN "invalid"
    ELSE IF GuardedNow >= s.mgr.exp THEN "expired" ELSE "ok"

\* The refusals that no later answer of this process may take back.
Lapses(s, k, agent) ==
    IF (agent /\ s.cur # k /\ Answer(s, k) = "expired") \/ (~agent /\ ManageAnswer(s, k) = "expired")
    THEN idlapsed \cup {k} ELSE idlapsed

\* A presented agent key; the use of an idle one is written down, on disk if it can be.
IdVerify(k, saved) ==
    LET ok == Answer(idmem, k) = "ok"
        used == IF idmem.cur = k THEN idmem.used ELSE (CHOOSE a \in AliasOf(idmem, k) : TRUE).used
        idle == ok /\ GuardedNow >= used + IdRefresh
        next == IF idmem.cur = k THEN [idmem EXCEPT !.used = GuardedNow]
                ELSE [idmem EXCEPT !.aliases = {IF a.key = k THEN [a EXCEPT !.used = GuardedNow] ELSE a : a \in @}]
    IN /\ idup /\ (~saved => idle /\ "persist" \in IdFaults)
       /\ Asked
       /\ idmem' = IF idle THEN next ELSE idmem
       /\ iddisk' = IF idle /\ saved THEN next ELSE iddisk
       /\ idlapsed' = Lapses(idmem, k, TRUE)
       /\ UNCHANGED <<idup, idfile, idhalf, idlegacy, idwall, idnext, idout>>

IdVerifyManage(k) ==
    /\ idup /\ Asked /\ idlapsed' = Lapses(idmem, k, FALSE)
    /\ UNCHANGED <<idup, idmem, iddisk, idfile, idhalf, idlegacy, idwall, idnext, idout>>

\* A pairing counts as use of the key in force.
IdTouch(saved) ==
    LET next == [idmem EXCEPT !.used = idwall] IN
    /\ idup /\ (~saved => "persist" \in IdFaults)
    /\ idmem' = next /\ iddisk' = IF saved THEN next ELSE iddisk
    /\ UNCHANGED <<idup, idfile, idhalf, idlegacy, idwall, idproj, idnext, idout, idlapsed>>

----------------------------------------------------------------------------
(* Opening and rotating                                                    *)

\* persist_and_write_file: the sealed record, then the token file.  "persist": neither is
\* in place; "file": only the record is, and its own sync or the token file failed;
\* "landed": both are, and the sync of the directory failed all the same.
Stored(s, how) ==
    /\ iddisk' = IF how = "persist" THEN iddisk ELSE s
    /\ idfile' = IF how \in {"ok", "landed"} THEN s.cur ELSE idfile

\* The first open takes over the keys of the per-agent era that are not idle for too long.
Inherited ==
    {[key |-> a.key, used |-> a.used, exp |-> a.used + IdTtl] :
       a \in {l \in idlegacy : idwall <= l.used + IdTtl}}

Fresh == [cur |-> idnext, used |-> idwall, aliases |-> Inherited, sup |-> {}, mgr |-> NoToken]

\* A record whose plaintext is gone: a fresh key, and the old one an alias for a while.
Reminted ==
    [iddisk EXCEPT !.cur = idnext, !.used = idwall,
       !.aliases = {a \in @ : a.key # iddisk.cur} \cup
          {[key |-> iddisk.cur, used |-> idwall, exp |-> idwall + Least(IdRecovery, IdTtl)]}]

\* IdentityStore::open
IdOpen(how) ==
    LET known == iddisk # NoRecord /\ idfile # Lost /\ idfile = iddisk.cur
        next == IF iddisk = NoRecord THEN Fresh ELSE IF known THEN iddisk ELSE Reminted
    IN /\ ~idup /\ how \in {"ok"} \cup (IdFaults \cap {"persist", "file", "landed"})
       /\ known => how = "ok"
       /\ ~known => idnext <= IdMaxKey
       /\ Stored(next, how)
       /\ idup' = (how = "ok") /\ idmem' = IF how = "ok" THEN next ELSE NoRecord
       /\ idhalf' = Lost
       /\ idnext' = IF known THEN idnext ELSE idnext + 1
       /\ idproj' = Unasked /\ idlapsed' = {}
       /\ UNCHANGED <<idlegacy, idwall, idout>>

\* The n newest of some superseded keys: keys are minted, and superseded, in order.
Newest(sup, n) == {e \in sup : Cardinality({d \in sup : d.key > e.key}) < n}

\* The superseded keys once the key in force is one of them.
Superseded ==
    Newest({e \in idmem.sup : idwall <= e.at + IdSupTtl /\ e.key # idmem.cur}
             \cup {[key |-> idmem.cur, at |-> idwall]}, IdMaxSup)

\* Mutant: a rotation leaves the aliases.
RotatedWithAliases == [idmem EXCEPT !.cur = idnext, !.used = idwall, !.sup = Superseded]

\* What rotate makes of the record.
Rotated == [idmem EXCEPT !.cur = idnext, !.used = idwall, !.aliases = {}, !.sup = Superseded]

\* rotate: on a failure the running broker keeps the key it has, whatever the files now
\* hold; a stop between the two leaves a record whose key nobody was given.
IdRotate(how) ==
    /\ idup /\ idnext <= IdMaxKey /\ idnext' = idnext + 1
    /\ how \in {"ok"} \cup (IdFaults \cap {"persist", "file", "landed", "crash"})
    /\ Stored(Rotated, how)
    /\ idhalf' = CASE how = "landed" -> idnext [] how \in {"ok", "crash"} -> Lost [] OTHER -> idhalf
    /\ idmem' = CASE how = "ok" -> Rotated [] how = "crash" -> NoRecord [] OTHER -> idmem
    /\ idup' = (how # "crash")
    /\ idout' = IF how = "ok" THEN idout \cup {idmem.cur} \cup {a.key : a \in idmem.aliases} ELSE idout
    /\ UNCHANGED <<idlegacy, idwall, idproj, idlapsed>>

----------------------------------------------------------------------------
(* The management token                                                    *)

\* issue, rotate and revoke replace the token in one write, which may be in place and
\* still fail; `held` is the token the caller proved it holds, or none for the owner's
\* own commands.
IdManage(held, next, how) ==
    /\ idup /\ how \in {"ok"} \cup (IdFaults \cap {"persist", "landed"})
    /\ held # 0 => ManageAnswer(idmem, held) = "ok"
    /\ held # 0 => Asked
    /\ held = 0 => idproj' = idproj
    /\ next = NoToken /\ held = 0 => idmem.mgr # NoToken
    /\ LET s == [idmem EXCEPT !.mgr = next] IN
       /\ iddisk' = IF how = "persist" THEN iddisk ELSE s
       /\ idmem' = IF how = "ok" THEN s ELSE idmem
    /\ idout' = IF how = "ok" THEN idout \cup ({idmem.mgr.key} \ {0}) ELSE idout
    /\ UNCHANGED <<idup, idfile, idhalf, idlegacy, idwall, idlapsed>>

\* issue_manage_token_with_ttl, rotate_manage_token_with_ttl
IdIssueManage(held, ttl, how) ==
    /\ idnext <= IdMaxKey /\ idnext' = idnext + 1
    /\ IdManage(held, [key |-> idnext, exp |-> IF ttl = 0 THEN Never ELSE idwall + ttl], how)

\* revoke_manage_token, revoke_manage_token_with_token
IdRevokeManage(held, how) == IdManage(held, NoToken, how) /\ UNCHANGED idnext

----------------------------------------------------------------------------
(* The world around                                                        *)

IdTick ==
    /\ idwall < IdMaxTime /\ idwall' = idwall + 1
    /\ idproj' = IF idproj = Unasked \/ ~idup \/ idproj >= IdMaxTime THEN idproj ELSE idproj + 1
    /\ UNCHANGED <<idup, idmem, iddisk, idfile, idhalf, idlegacy, idnext, idout, idlapsed>>

IdSetBack ==
    /\ "setback" \in IdFaults /\ idwall > 0 /\ idwall' = idwall - 1
    /\ UNCHANGED <<idup, idmem, iddisk, idfile, idhalf, idlegacy, idproj, idnext, idout, idlapsed>>

IdStop ==
    /\ idup /\ idup' = FALSE /\ idmem' = NoRecord /\ idproj' = Unasked /\ idlapsed' = {}
    /\ UNCHANGED <<iddisk, idfile, idhalf, idlegacy, idwall, idnext, idout>>

\* The token file is lost, or another file put in its place.
IdLose ==
    /\ "lose" \in IdFaults /\ idfile # Lost /\ idfile' = Lost
    /\ UNCHANGED <<idup, idmem, iddisk, idhalf, idlegacy, idwall, idproj, idnext, idout, idlapsed>>

IdNext ==
    \/ \E k \in Keys, saved \in BOOLEAN : IdVerify(k, saved)
    \/ \E k \in Keys : IdVerifyManage(k)
    \/ \E saved \in BOOLEAN : IdTouch(saved)
    \/ \E how \in {"ok", "persist", "file", "landed"} : IdOpen(how)
    \/ \E how \in {"ok", "persist", "file", "landed", "crash"} : IdRotate(how)
    \/ \E held \in 0 .. IdMaxKey, ttl \in 0 .. 1, how \in {"ok", "persist", "landed"} : IdIssueManage(held, ttl, how)
    \/ \E held \in 0 .. IdMaxKey, how \in {"ok", "persist", "landed"} : IdRevokeManage(held, how)
    \/ IdTick \/ IdSetBack \/ IdStop \/ IdLose

IdSpec == IdInit /\ [][IdNext]_idVars

----------------------------------------------------------------------------
(* Properties                                                              *)

\* The type of each variable; each alias has one entry, and none is the key in force.
IdTypeOK ==
    /\ idup \in BOOLEAN /\ (idup <=> idmem # NoRecord)
    /\ \A s \in {idmem, iddisk} \ {NoRecord} :
          /\ s.cur \in Keys /\ s.used \in 0 .. IdMaxTime
          /\ s.sup \subseteq [key : Keys, at : 0 .. IdMaxTime] /\ Cardinality(s.sup) <= IdMaxSup
          /\ s.mgr \in [key : 0 .. IdMaxKey, exp : 0 .. Never]
          /\ \A a, b \in s.aliases : a.key # s.cur /\ (a.key = b.key => a = b)
    /\ {idfile, idhalf} \subseteq 0 .. IdMaxKey /\ idwall \in 0 .. IdMaxTime /\ idproj \in 0 .. Unasked
    /\ idnext \in 1 .. IdMaxKey + 1 /\ idout \subseteq Keys /\ idlapsed \subseteq Keys

\* "rotation is the disconnect-everything action": a key that a rotation replaced, an
\* alias it cleared, a management token that was replaced or revoked, never opens
\* anything again - whatever fails or stops later, and however often the token file is
\* lost and the broker started anew.
IdRetiredStay ==
    idup => \A k \in idout : Answer(idmem, k) # "ok" /\ ManageAnswer(idmem, k) # "ok"

\* "Winding the system clock back cannot extend an alias or management-token expiry":
\* what this process refused as expired, it goes on refusing.
IdLapsedStay ==
    idup => \A k \in idlapsed : Answer(idmem, k) # "ok" /\ ManageAnswer(idmem, k) # "ok"

\* The one file every agent reads holds the key the running broker accepts - or the key
\* of a rotation that was in place when it reported failure, and then only until the
\* next rotation that goes through or the next start: no other failure, stop or save of
\* a use puts file and memory apart.
IdFileWorks == idup => idfile \in {Lost, idmem.cur, idhalf}

\* The broker's credentials through rotations, failed writes, stops, lost files and a
\* clock set back: the retired and the expired stay so, and the token file works.
IdentitySound ==
    /\ IdTypeOK
    /\ IdRetiredStay
    /\ IdLapsedStay
    /\ IdFileWorks
=============================================================================
