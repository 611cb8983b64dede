------------------------------- MODULE Access -------------------------------
(***************************************************************************)
(* Which connections agents may use: the access table (policy.rs), kept in *)
(* a sealed file whose generation the sealed index records, and the two    *)
(* domain operations that change it (domain.rs): a policy update, and the  *)
(* deletion of a connection, which touches the catalog first.  The gate of *)
(* the domain repository serialises them; a write can fail and the process *)
(* can die between any two writes.                                         *)
(*                                                                         *)
(* An entry exists only for a connection that left the default state; no   *)
(* entry means enabled, every tool, no confirmation, response credentials  *)
(* exposed, statements recorded as the broker does by default.             *)
(***************************************************************************)
EXTENDS Naturals, FiniteSets

CONSTANTS
    AccConns,       \* connection ids
    AccMaxGen,      \* bound on the generation
    AccFaults       \* subset of {"file", "index", "crash"}

ASSUME AccAssumption ==
    AccMaxGen \in Nat /\ AccFaults \subseteq {"file", "index", "crash"}

VARIABLES
    acat,       \* connections in the catalog
    atab,       \* AccessTable: generation and entries in memory
    afile,      \* access.json, or the file of an earlier version
    agen,       \* the generation the index records
    aop,        \* the operation under way
    aup,        \* "down", "opening" or "up"
    aoff        \* connections last decided off: history, not program state

accVars == <<acat, atab, afile, agen, aop, aup, aoff>>

Fields == {"on", "tools", "confirm", "expose", "audit"}

\* A value that differs from the field's default is TRUE for "confirm",
\* "tools" (a subset is curated) and "audit" (overridden), FALSE for the rest.
DefaultEntry == [f \in Fields |-> f \in {"on", "expose"}]
NoEntry == [f \in {} |-> FALSE]
NoEntries == [c \in AccConns |-> NoEntry]
AccIdle == [kind |-> "idle", next |-> NoEntries, off |-> {}]

\* allows, allowed_tools, confirm_mode, expose_response_credentials,
\* audit_statements: what is effective with or without an entry.
Effective(ents, c) == IF ents[c] = NoEntry THEN DefaultEntry ELSE ents[c]
Allows(ents, c) == Effective(ents, c)["on"]

----------------------------------------------------------------------------
(* Opening                                                                 *)

\* A fresh install, or one upgraded from per-agent wirings or rules, in which
\* the wired connections are `wired` and every other one was denied.
AccInit ==
    /\ acat = AccConns
    /\ atab = [gen |-> 0, ents |-> NoEntries]
    /\ \E kind \in {"none", "wirings", "rules"}, wired \in SUBSET AccConns :
          /\ kind = "none" => wired = {}
          /\ afile = [kind |-> kind, gen |-> 0, ents |-> NoEntries, wired |-> wired]
          /\ aoff = IF kind = "none" THEN {} ELSE AccConns \ wired
    /\ agen = 0 /\ aop = AccIdle /\ aup = "down"

\* The migration: every known connection gets an entry, enabled when some agent
\* was wired to it, with response credentials contained.
Migrate(f, known) ==
    [c \in AccConns |->
        IF c \in known
        THEN [DefaultEntry EXCEPT !["on"] = (c \in f.wired), !["expose"] = FALSE]
        ELSE NoEntry]

\* open_with_legacy_policy_and_generation: the file carries the generation of
\* the index, or is exactly one ahead of it, which is what an interrupted
\* persist leaves; anything else is refused as tampered with.
OpenAccepts(f, gen) ==
    IF f.kind = "current" THEN f.gen \in {gen, gen + 1} ELSE gen = 0

\* A file one ahead moves the index forward first; legacy entries are written
\* in the new form before the table serves.
AccOpen ==
    /\ aup = "down" /\ OpenAccepts(afile, agen)
    /\ IF afile.kind = "current"
       THEN /\ agen' = afile.gen
            /\ atab' = [gen |-> afile.gen, ents |-> afile.ents]
            /\ aup' = "up" /\ aop' = AccIdle
       ELSE /\ atab' = [gen |-> 0, ents |-> NoEntries]
            /\ IF afile.kind = "none" THEN aup' = "up" /\ aop' = AccIdle
               ELSE /\ aup' = "opening"
                    /\ aop' = [kind |-> "file", next |-> Migrate(afile, acat),
                               off |-> {}]
            /\ UNCHANGED agen
    /\ UNCHANGED <<acat, afile, aoff>>

----------------------------------------------------------------------------
(* persist                                                                 *)

\* What the operation was for has happened or has failed; an open that failed
\* is no open at all.
AccEnd(ok) ==
    /\ aop' = AccIdle
    /\ aup' = IF aup = "opening" THEN (IF ok THEN "up" ELSE "down") ELSE aup

\* First the file, one generation ahead of the table.
AccWriteFile ==
    /\ aop.kind = "file" /\ atab.gen < AccMaxGen
    /\ \/ /\ afile' = [kind |-> "current", gen |-> atab.gen + 1,
                       ents |-> aop.next, wired |-> {}]
          /\ aop' = [aop EXCEPT !.kind = "index"]
          /\ UNCHANGED aup
       \/ /\ "file" \in AccFaults
          /\ AccEnd(FALSE)
          /\ UNCHANGED afile
    /\ UNCHANGED <<acat, atab, agen, aoff>>

\* Then the index (advance_access_generation); only then do the entries become
\* the table's.
AccWriteIndex ==
    /\ aop.kind = "index"
    /\ \/ /\ agen' = agen + 1
          /\ atab' = [gen |-> agen', ents |-> aop.next]
          /\ aoff' = aoff \cup aop.off
          /\ AccEnd(TRUE)
       \/ /\ "index" \in AccFaults
          /\ AccEnd(FALSE)
          /\ UNCHANGED <<agen, atab, aoff>>
    /\ UNCHANGED <<acat, afile>>

\* The process dies; what it had in memory goes with it.
AccCrash ==
    /\ "crash" \in AccFaults /\ aup # "down"
    /\ aup' = "down" /\ aop' = AccIdle
    /\ atab' = [gen |-> 0, ents |-> NoEntries]
    /\ UNCHANGED <<acat, afile, agen, aoff>>

----------------------------------------------------------------------------
(* The setters                                                             *)

\* update_policy: an existing connection, and a value that is not the present
\* one.  A decision to turn a connection on counts from the moment it is made, one
\* to turn it off from the moment it is acknowledged.
SetField(c, f, v, fresh) ==
    /\ aup = "up" /\ aop = AccIdle /\ c \in acat /\ atab.gen < AccMaxGen
    /\ Effective(atab.ents, c)[f] # v
    /\ LET old == atab.ents[c]
           new == IF old = NoEntry THEN fresh ELSE [old EXCEPT ![f] = v]
       IN  aop' = [kind |-> "file", next |-> [atab.ents EXCEPT ![c] = new],
                   off |-> IF f = "on" /\ ~v THEN {c} ELSE {}]
    /\ aoff' = IF f = "on" /\ v THEN aoff \ {c} ELSE aoff
    /\ UNCHANGED <<acat, atab, afile, agen, aup>>

AllowedToolsFromEmpty(c, v) ==
    SetField(c, "tools", v, [f \in Fields |-> f = "tools" /\ v])

\* Each setter makes its own entry when there is none.
SetEnabled(c, v) == SetField(c, "on", v, [DefaultEntry EXCEPT !["on"] = v])
SetAllowedTools(c, v) == SetField(c, "tools", v, [DefaultEntry EXCEPT !["tools"] = v])
SetConfirmMode(c, v) == SetField(c, "confirm", v, [DefaultEntry EXCEPT !["confirm"] = v])
SetExposeResponseCredentials(c, v) ==
    SetField(c, "expose", v, [DefaultEntry EXCEPT !["expose"] = v])
SetAuditStatements(c, v) == SetField(c, "audit", v, [DefaultEntry EXCEPT !["audit"] = v])

----------------------------------------------------------------------------
(* Deleting a connection                                                   *)

\* Mutant: the entry goes before the connection does.
DeleteEntryFirst(c) ==
    /\ aup = "up" /\ aop = AccIdle /\ c \in acat /\ atab.gen < AccMaxGen
    /\ aop' = [kind |-> "file", next |-> [atab.ents EXCEPT ![c] = NoEntry],
               off |-> {}]
    /\ UNCHANGED <<acat, atab, afile, agen, aup, aoff>>

\* delete_connection, the catalog: refused, or gone; its entry is removed next.
AccDelete(c) ==
    /\ aup = "up" /\ aop = AccIdle /\ c \in acat /\ atab.gen < AccMaxGen
    /\ acat' = acat \ {c}
    /\ aop' = IF atab.ents[c] = NoEntry THEN AccIdle
              ELSE [kind |-> "file", next |-> [atab.ents EXCEPT ![c] = NoEntry],
                    off |-> {}]
    /\ UNCHANGED <<atab, afile, agen, aup, aoff>>

----------------------------------------------------------------------------
AccSet(c, v) ==
    \/ SetEnabled(c, v) \/ SetAllowedTools(c, v) \/ SetConfirmMode(c, v)
    \/ SetExposeResponseCredentials(c, v) \/ SetAuditStatements(c, v)

AccNext ==
    \/ AccOpen \/ AccWriteFile \/ AccWriteIndex \/ AccCrash
    \/ \E c \in AccConns, v \in BOOLEAN : AccSet(c, v)
    \/ \E c \in AccConns : AccDelete(c)

AccSpec == AccInit /\ [][AccNext]_accVars

----------------------------------------------------------------------------
(* Properties                                                              *)

\* The table, the file and the operation under way hold entries with every
\* field or none.
AccTypeOK ==
    /\ acat \subseteq AccConns /\ aoff \subseteq AccConns
    /\ atab.gen \in 0..AccMaxGen /\ agen \in 0..AccMaxGen
    /\ afile.gen \in 0..AccMaxGen
    /\ \A ents \in {atab.ents, afile.ents, aop.next} : \A c \in AccConns :
          ents[c] = NoEntry \/ DOMAIN ents[c] = Fields
    /\ aup \in {"down", "opening", "up"} /\ aop.kind \in {"idle", "file", "index"}

\* A crash or a failed write between the file and the index never leaves a
\* pair that the next start refuses as tampered with (AccessTable::persist).
AccAlwaysOpens == aup = "down" => OpenAccepts(afile, agen)

\* A connection that was turned off, or that no agent was wired to before the
\* upgrade, stays off until someone decides to turn it on: no failed write, no
\* crash, no half-done migration and no failed deletion opens it.
AccOffStaysOff ==
    aup = "up" => \A c \in aoff \cap acat : ~Allows(atab.ents, c)

\* A setter changes the one value it is for: the entry it makes when there was
\* none agrees with the default of every other value.
AccOneValue ==
    [][aup = "up" /\ aup' = "up" =>
          Cardinality({v \in acat' \X Fields :
              Effective(atab.ents, v[1])[v[2]] # Effective(atab'.ents, v[1])[v[2]]}) <= 1]_accVars

\* The access table after any crash or failed write: it opens again, and what
\* was switched off is off.
AccessSound ==
    /\ AccTypeOK
    /\ AccAlwaysOpens
    /\ AccOffStaysOff
=============================================================================
