------------------------------- MODULE Audit -------------------------------
(***************************************************************************)
(* The activity log of the broker: audit.rs, the chained MACs and the      *)
(* sealed head of integrity.rs, and the check the broker makes when it     *)
(* opens (broker.rs).                                                      *)
(*                                                                         *)
(* A MAC is ideal: the head after some records is the sequence of those    *)
(* records, so two chains have the same head exactly when they chained the *)
(* same records in the same order.  A line of the file holds its record    *)
(* and its MAC; a line that does not parse is Torn.                        *)
(***************************************************************************)
EXTENDS Naturals, Sequences, FiniteSets, SequencesExt, FiniteSetsExt

CONSTANTS
    AuditMax,       \* bound: records the broker makes
    AuditFaults,    \* what may go wrong, a subset of AuditFaultKinds
    AuditLimit      \* entries on one page of the activity view

AuditFaultKinds ==
    {"write", "torn", "seal", "sync", "crash", "crashClear", "shorten", "edit",
     "restore", "unseal"}

ASSUME AuditAssumption ==
    /\ AuditMax \in Nat \ {0}
    /\ AuditFaults \subseteq AuditFaultKinds
    /\ AuditLimit \in Nat \ {0}

VARIABLES
    lines,      \* audit.jsonl
    sealed,     \* audit-seal.json: a seal, or NoSeal
    head,       \* SealState.head of the running process
    phase,      \* where the broker stands in an operation on the log
    verdict,    \* what the last check on opening found
    made,       \* records made so far
    honest,     \* nothing but the broker has touched the two files
    smooth,     \* and no fault has left them disagreeing since the last clear
    view        \* the reader paging through the activity view

auditVars == <<lines, sealed, head, phase, verdict, made, honest, smooth, view>>

\* No MAC; a line that does not parse; a fragment still without its newline.
NoMac == <<0>>
Torn == [rec |-> 0, mac |-> <<0>>]
Fragment == [rec |-> 0, mac |-> <<0, 0>>]
NoSeal == [head |-> <<>>, count |-> 0, legacy |-> 0, kind |-> "none"]
SealOf(h, n, l) == [head |-> h, count |-> n, legacy |-> l, kind |-> "seal"]
AuditNoView == [on |-> FALSE, base |-> <<>>, before |-> 0, got |-> <<>>]

\* A legacy line predates sealing: it parses and carries no MAC.
Legacy(i) == [rec |-> i, mac |-> NoMac]
Parses(line) == line.rec # 0

----------------------------------------------------------------------------
(* The check                                                               *)

\* The head the replay has reached after the first n lines past the legacy
\* prefix; only meaningful while every line so far matched.
Recs(s) == [i \in 1..Len(s) |-> s[i].rec]
Chained(s, h) == SubSeq(s, h.legacy + 1, Len(s))

\* AuditLog::verify: replay every line past the legacy prefix, compare each
\* with its MAC, then the count and the head with the sealed ones.
Verify(s, h) ==
    LET c == Chained(s, h)
        bad == \E i \in 1..Len(c) :
                  ~Parses(c[i]) \/ c[i].mac # Recs(SubSeq(c, 1, i))
    IN  IF bad \/ Len(c) < h.count THEN "tampered"
        ELSE IF Len(c) > h.count THEN "unsealed"
        ELSE IF Recs(c) # h.head THEN "tampered"
        ELSE "verified"

----------------------------------------------------------------------------
(* Opening                                                                 *)

AuditInit ==
    /\ \E n \in 0..1 : lines = [i \in 1..n |-> Legacy(i)] /\ made = n
    /\ sealed = NoSeal
    /\ head = NoSeal
    /\ phase = "down"
    /\ verdict = "none"
    /\ honest = TRUE
    /\ smooth = TRUE
    /\ view = AuditNoView

\* load_or_adopt_seal: the sealed head, or every line there is as the legacy
\* prefix of a chain that starts now.
LoadOrAdopt ==
    IF sealed.kind = "seal" THEN sealed ELSE SealOf(<<>>, 0, Len(lines))

\* Broker::open: open the log, then check it.  Anything but "verified" is
\* recorded in the log itself before the broker serves.
AuditOpen ==
    /\ phase = "down"
    /\ head' = LoadOrAdopt
    /\ \/ sealed' = LoadOrAdopt
       \/ "seal" \in AuditFaults /\ UNCHANGED sealed
    /\ verdict' = Verify(lines, LoadOrAdopt)
    /\ phase' = IF verdict' = "verified" THEN "idle" ELSE "owed"
    /\ smooth' = (smooth /\ verdict' = "verified")
    /\ UNCHANGED <<lines, made, honest, view>>

----------------------------------------------------------------------------
(* Appending and clearing                                                  *)

NextRec == made + 1

\* The line the file gets: what is written after a fragment completes that
\* fragment, and neither of the two parses.
WithLine(s, line) ==
    IF s # <<>> /\ Last(s) = Fragment THEN [s EXCEPT ![Len(s)] = Torn]
    ELSE Append(s, line)

\* append, the line: the record is chained onto the head in memory, and the
\* line written.  The head moves with it; the seal follows.
AuditAppend ==
    /\ phase \in {"idle", "owed"}
    /\ made < AuditMax
    /\ made' = NextRec
    /\ lines' = WithLine(lines, [rec |-> NextRec,
                                 mac |-> Append(head.head, NextRec)])
    /\ head' = SealOf(Append(head.head, NextRec), head.count + 1, head.legacy)
    /\ phase' = "appended"
    /\ UNCHANGED <<sealed, verdict, honest, smooth, view>>

\* Mutant: the chain moves although nothing landed.
AppendFailsChained ==
    /\ phase \in {"idle", "owed"}
    /\ made < AuditMax
    /\ made' = NextRec
    /\ "write" \in AuditFaults
    /\ head' = SealOf(Append(head.head, NextRec), head.count + 1, head.legacy)
    /\ phase' = "idle"
    /\ UNCHANGED <<lines, smooth, sealed, verdict, honest, view>>

\* append, the line refused: nothing landed and the chain does not move, or a
\* fragment landed and the chain does not move either.
AuditAppendFails ==
    /\ phase \in {"idle", "owed"}
    /\ made < AuditMax
    /\ made' = NextRec
    /\ \/ "write" \in AuditFaults /\ UNCHANGED <<lines, smooth>>
       \/ "torn" \in AuditFaults /\ lines' = WithLine(lines, Fragment)
                                 /\ smooth' = FALSE
    /\ phase' = "idle"
    /\ UNCHANGED <<sealed, head, verdict, honest, view>>

\* clear: the file is emptied under the writer lock; the seal follows.  When the
\* emptied file cannot be synced the operation ends there, with the head of the lines
\* that are gone still in force.  A clear that goes through mends whatever came before.
AuditClear ==
    /\ phase = "idle"
    /\ made < AuditMax
    /\ lines' = <<>>
    /\ view' = AuditNoView
    /\ \/ head' = SealOf(<<>>, 0, 0) /\ phase' = "cleared" /\ smooth' = TRUE
       \/ /\ "sync" \in AuditFaults
          /\ smooth' = (smooth /\ lines = <<>>)
          /\ UNCHANGED <<head, phase>>
    /\ UNCHANGED <<sealed, verdict, made, honest>>

\* persist_seal, after a line (then the operation is over) or after a clear
\* (then ui_clear_activity appends its tombstone).  A seal that cannot be
\* written is logged, and the operation goes on.
AuditSeal ==
    /\ phase \in {"appended", "cleared"}
    /\ \/ sealed' = head
       \/ "seal" \in AuditFaults /\ UNCHANGED sealed
    /\ smooth' = (smooth /\ (phase = "cleared" => sealed' = head))
    /\ phase' = IF phase = "appended" THEN "idle" ELSE "owed"
    /\ UNCHANGED <<lines, head, verdict, made, honest, view>>

\* The process ends: between two operations, or in the middle of one.
AuditStop ==
    /\ \/ phase = "idle"
       \/ phase \in {"owed", "appended"} /\ "crash" \in AuditFaults
       \/ phase = "cleared" /\ "crashClear" \in AuditFaults
    /\ phase' = "down"
    /\ smooth' = (smooth /\ phase # "cleared")
    /\ UNCHANGED <<lines, sealed, head, verdict, made, honest, view>>

\* Something other than the broker changes the files: the log shortened, a
\* record altered, an older copy of the log put back, the seal removed.  One
\* such change in a history is enough to tell a sound check from another.
AuditOutside ==
    /\ honest
    /\ phase \in {"down", "idle"}
    /\ \/ /\ "shorten" \in AuditFaults /\ lines # <<>>
          /\ \E i \in 1..Len(lines) : lines' = RemoveAt(lines, i)
          /\ UNCHANGED sealed
       \/ /\ "edit" \in AuditFaults
          /\ \E i \in 1..Len(lines) :
                 /\ Parses(lines[i])
                 /\ lines' = [lines EXCEPT ![i].rec = AuditMax + 1]
          /\ UNCHANGED sealed
       \/ /\ "restore" \in AuditFaults
          /\ \E n \in 1..AuditMax :
                 lines' = [i \in 1..n |-> [rec |-> i, mac |-> [j \in 1..i |-> j]]]
          /\ UNCHANGED sealed
       \/ "unseal" \in AuditFaults /\ sealed' = NoSeal /\ UNCHANGED lines
    /\ honest' = FALSE
    /\ smooth' = FALSE
    /\ view' = AuditNoView
    /\ UNCHANGED <<head, phase, verdict, made>>

----------------------------------------------------------------------------
(* Reading                                                                 *)

\* The places of a log where, between two of them, a line parses; and places in
\* descending order.
Entries(s, k, from) == {i \in k..from : Parses(s[i])}
Rank(S, i) == Cardinality({x \in S : x >= i})
Descending(S) == [j \in 1..Cardinality(S) |-> CHOOSE i \in S : Rank(S, i) = j]

\* recent_page: newest first from the cursor, lines that do not parse passed
\* over, at most AuditLimit entries; the cursor is where it stopped.  The
\* first page starts at the end of the file, and a cursor past the end is
\* clamped to it.
PageStop(s, from) ==
    LET stops == {k \in 1..from : Cardinality(Entries(s, k, from)) = AuditLimit}
    IN  IF stops = {} THEN 1 ELSE Max(stops)

AuditPage ==
    /\ view.on => view.before > 0
    /\ LET start == IF view.on THEN view.before ELSE Len(lines)
           from == IF start > Len(lines) THEN Len(lines) ELSE start
           stop == PageStop(lines, from)
           took == Descending(Entries(lines, stop, from))
       IN view' = [on |-> TRUE,
                   base |-> IF view.on THEN view.base ELSE lines,
                   before |-> stop - 1,
                   got |-> view.got \o
                       [j \in DOMAIN took |-> [at |-> took[j], rec |-> lines[took[j]].rec]]]
    /\ UNCHANGED <<lines, sealed, head, phase, verdict, made, honest, smooth>>

AuditNext ==
    \/ AuditOpen \/ AuditAppend \/ AuditAppendFails \/ AuditClear \/ AuditSeal
    \/ AuditStop \/ AuditOutside \/ AuditPage

AuditSpec == AuditInit /\ [][AuditNext]_auditVars

----------------------------------------------------------------------------
(* Properties                                                              *)

\* The log is a sequence of lines, the seal and the head in memory count what
\* they chained, and the broker is at one of the steps above.
AuditTypeOK ==
    /\ lines \in Seq([rec : 0..AuditMax + 1, mac : Seq(0..AuditMax)])
    /\ \A s \in {sealed, head} :
          /\ s.head \in Seq(1..AuditMax) /\ s.count = Len(s.head)
          /\ s.legacy \in Nat /\ s.kind \in {"none", "seal"}
    /\ phase \in {"down", "idle", "owed", "appended", "cleared"}
    /\ verdict \in {"none", "verified", "unsealed", "tampered"}
    /\ made \in 0..AuditMax

\* A log that checks out is whole: whatever was done to the file behind the
\* broker, "verified" means that the lines past the legacy prefix are exactly
\* the records chained under the head, in that order (verify and append).
AuditVerifiedWhole ==
    phase = "idle" /\ Verify(lines, head) = "verified" =>
        Recs(Chained(lines, head)) = head.head

\* Refused lines, seals that cannot be written and clears never make a process
\* that opened a sound log doubt it: between two operations the log checks
\* out against the head in memory (append's and clear's order of writes).  A clear
\* that empties the file and then reports failure does, until another goes through.
AuditRunConsistent ==
    phase = "idle" /\ smooth => Verify(lines, head) = "verified"

\* A crash between a line and its seal, after any number of clean restarts, is
\* told apart from tampering by the first check that follows it: as long as
\* every earlier check passed, the file at rest is at worst "unsealed".
AuditCrashIsUnsealed ==
    phase = "down" /\ smooth => Verify(lines, LoadOrAdopt) # "tampered"

\* The pages of the activity view neither skip nor repeat an entry while new
\* ones arrive: what was returned so far is every parsed line of the log as
\* the first page found it, newest first, down to the cursor (recent_page).
AuditPagesExact ==
    view.on =>
        /\ \A i, j \in DOMAIN view.got : i < j => view.got[i].at > view.got[j].at
        /\ {view.got[i] : i \in DOMAIN view.got} =
              {[at |-> k, rec |-> view.base[k].rec] :
                  k \in Entries(view.base, view.before + 1, Len(view.base))}

\* The module comment of audit.rs: a crash between the append and the reseal is
\* "reported as Unsealed, distinct from tampering".  A log only the broker has
\* written is never reported as tampered with.
AuditHonestNeverTampered == honest => verdict # "tampered"

\* The audit log after any run of appends, failed writes, clears, crashes and
\* tampering: a verified file is whole, a crash reads as unsealed, pages are exact.
AuditSound ==
    /\ AuditTypeOK
    /\ AuditVerifiedWhole
    /\ AuditRunConsistent
    /\ AuditCrashIsUnsealed
    /\ AuditPagesExact
=============================================================================
