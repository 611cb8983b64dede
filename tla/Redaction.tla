----------------------------- MODULE Redaction -----------------------------
(***************************************************************************)
(* Scrubbing an injected credential from a response that is relayed as it  *)
(* arrives: Redactions and redacting_stream in capability/http.rs.  The    *)
(* upstream cuts the body into chunks anywhere; the relay holds back the   *)
(* tail in which a needle may have begun.  The buffered relay's            *)
(* apply_to_bytes, which sees the whole body, is the reference.            *)
(***************************************************************************)
EXTENDS Naturals, Sequences

CONSTANTS
    RdBytes,      \* the bytes a body is made of
    RdInjections, \* what injections put into requests: the values offered as needles, in order
    RdMaxLen      \* bound: length of a body

Mark == "R"   \* the text "[REDACTED]"; no needle holds a part of it

\* The needles may end up as any list, but none with one-byte needles only: a header's
\* credential is also offered as "name: value", a query's as "name=value".
ASSUME RdAssumption ==
    /\ RdMaxLen \in Nat /\ Mark \notin RdBytes
    /\ RdInjections \subseteq Seq(Seq(RdBytes))
    /\ \A ps \in RdInjections : ps # <<>> => \E i \in DOMAIN ps : Len(ps[i]) > 1

\* add and add_component: an empty value, or one that is there already, is no needle.
Add(needles, v) ==
    IF v = <<>> \/ \E k \in DOMAIN needles : needles[k] = v THEN needles ELSE Append(needles, v)

\* from_injection: one needle after the other, in the order the values are offered.
FromInjection(parts) ==
    LET upTo[k \in 0 .. Len(parts)] == IF k = 0 THEN <<>> ELSE Add(upTo[k - 1], parts[k])
    IN upTo[Len(parts)]

VARIABLES
    rdmode,     \* ResponseBodyMode
    rdneed,     \* the needles
    rdbody,     \* the upstream's body, and how far it was read
    rdread,
    rdcarry,    \* bytes held back
    rdout,      \* bytes relayed
    rdend       \* StreamFinish, once the stream is over

rdVars == <<rdmode, rdneed, rdbody, rdread, rdcarry, rdout, rdend>>

Bodies == UNION {[1 .. n -> RdBytes] : n \in 0 .. RdMaxLen}

RdInit ==
    /\ rdmode \in {"text", "binary"} /\ rdneed \in {FromInjection(ps) : ps \in RdInjections} /\ rdbody \in Bodies
    /\ rdread = 0 /\ rdcarry = <<>> /\ rdout = <<>> /\ rdend = "none"

----------------------------------------------------------------------------
(* The scrubber                                                            *)

\* buf[i..].starts_with(needle)
StartsAt(buf, i, n) == i + Len(n) - 1 <= Len(buf) /\ SubSeq(buf, i, i + Len(n) - 1) = n

\* contains_in_bytes
Contains(buf, needles) ==
    \E k \in DOMAIN needles, i \in DOMAIN buf : StartsAt(buf, i, needles[k])

\* The first needle in the list that begins at i; 0 if none does.
FirstAt(buf, i, needles) ==
    LET hits == {k \in DOMAIN needles : StartsAt(buf, i, needles[k])}
    IN IF hits = {} THEN 0 ELSE CHOOSE k \in hits : \A j \in hits : k <= j

\* One needle replaced from left to right, from position i on.
Replaced(buf, n) ==
    LET scan[i \in 1 .. Len(buf) + Len(n) + 1] ==
          IF i > Len(buf) THEN <<>>
          ELSE IF StartsAt(buf, i, n) THEN <<Mark>> \o scan[i + Len(n)]
          ELSE <<buf[i]>> \o scan[i + 1]
    IN scan[1]

\* apply_to_bytes: needle after needle.
ApplyToBytes(buf, needles) ==
    LET after[k \in 0 .. Len(needles)] ==
          IF k = 0 THEN buf ELSE Replaced(after[k - 1], needles[k])
    IN after[Len(needles)]

MaxNeedleLen(needles) ==
    IF needles = <<>> THEN 0
    ELSE CHOOSE m \in {Len(needles[k]) : k \in DOMAIN needles} :
           \A k \in DOMAIN needles : Len(needles[k]) <= m

\* Mutant: one byte too few is held back.
HoldShort(needles) == IF MaxNeedleLen(needles) < 2 THEN 0 ELSE MaxNeedleLen(needles) - 2

Hold(needles) == IF MaxNeedleLen(needles) = 0 THEN 0 ELSE MaxNeedleLen(needles) - 1

\* split_redacted: what can be decided now, and the tail that must wait.
SplitRedacted(buf, needles) ==
    LET undecided == IF Len(buf) > Hold(needles) THEN Len(buf) - Hold(needles) ELSE 0
        scan[i \in 1 .. Len(buf) + MaxNeedleLen(needles) + 1] ==
          IF i > Len(buf) THEN [emit |-> <<>>, held |-> <<>>]
          ELSE LET k == FirstAt(buf, i, needles)
                   rest == IF k # 0 THEN scan[i + Len(needles[k])] ELSE scan[i + 1]
               IN IF k # 0 THEN [rest EXCEPT !.emit = <<Mark>> \o @]
                  ELSE IF i - 1 >= undecided THEN [emit |-> <<>>, held |-> SubSeq(buf, i, Len(buf))]
                  ELSE [rest EXCEPT !.emit = <<buf[i]>> \o @]
    IN IF Hold(needles) = 0 THEN [emit |-> buf, held |-> <<>>] ELSE scan[1]

\* split_verified_binary, once the buffer is known to hold no needle.
SplitBinary(buf, needles) ==
    LET through == IF Len(buf) > Hold(needles) THEN Len(buf) - Hold(needles) ELSE 0
    IN [emit |-> SubSeq(buf, 1, through), held |-> SubSeq(buf, through + 1, Len(buf))]

----------------------------------------------------------------------------
(* redacting_stream                                                        *)

\* A chunk of n bytes arrives.
RdChunk(n) ==
    /\ rdend = "none" /\ n \in 1 .. Len(rdbody) - rdread
    /\ LET buf == rdcarry \o SubSeq(rdbody, rdread + 1, rdread + n)
           parts == IF rdmode = "text" THEN SplitRedacted(buf, rdneed) ELSE SplitBinary(buf, rdneed)
           refused == rdmode = "binary" /\ Contains(buf, rdneed)
       IN /\ rdread' = rdread + n
          /\ rdcarry' = IF refused THEN <<>> ELSE parts.held
          /\ rdout' = IF refused THEN rdout ELSE rdout \o parts.emit
          /\ rdend' = IF refused THEN "refused" ELSE rdend
    /\ UNCHANGED <<rdmode, rdneed, rdbody>>

\* The upstream is done: the tail is decided on its own terms.
RdEof ==
    /\ rdend = "none" /\ rdread = Len(rdbody)
    /\ LET refused == rdmode = "binary" /\ Contains(rdcarry, rdneed) IN
       /\ rdout' = IF refused THEN rdout
                   ELSE rdout \o (IF rdmode = "text" THEN ApplyToBytes(rdcarry, rdneed) ELSE rdcarry)
       /\ rdend' = IF refused THEN "refused" ELSE "complete"
    /\ rdcarry' = <<>>
    /\ UNCHANGED <<rdmode, rdneed, rdbody, rdread>>

\* The upstream breaks off, or the client goes.
RdStop(how) ==
    /\ rdend = "none" /\ rdend' = how /\ rdcarry' = <<>>
    /\ UNCHANGED <<rdmode, rdneed, rdbody, rdread, rdout>>

RdNext ==
    \/ \E n \in 1 .. RdMaxLen : RdChunk(n)
    \/ RdEof
    \/ \E how \in {"error", "dropped"} : RdStop(how)

RdSpec == RdInit /\ [][RdNext]_rdVars

----------------------------------------------------------------------------
(* Properties                                                              *)

\* However the body is cut into chunks, and wherever it stops, no needle is ever in
\* what was relayed.
RdClean == ~Contains(rdout, rdneed)

\* The relay neither loses nor invents a byte: a text comes out as the whole-body
\* scrubber would have given it (for needles of which none begins or ends inside
\* another, where the order of replacement cannot matter), and a binary body unchanged
\* or refused, the latter exactly when it holds a needle.
Independent(needles) ==
    \A j, k \in DOMAIN needles : j # k =>
       \A i \in DOMAIN needles[j] :
          \E d \in 0 .. Len(needles[k]) - 1 : i + d <= Len(needles[j]) /\ needles[j][i + d] # needles[k][d + 1]

RdExact ==
    /\ rdend = "complete" /\ rdmode = "text" /\ Independent(rdneed)
         => rdout = ApplyToBytes(rdbody, rdneed)
    /\ rdmode = "binary" => rdout \o rdcarry = SubSeq(rdbody, 1, Len(rdout) + Len(rdcarry))
    /\ rdmode = "binary" /\ rdend = "complete" => rdout = rdbody /\ ~Contains(rdbody, rdneed)
    /\ rdend = "refused" => Contains(rdbody, rdneed)

\* Redacting a stream gives what redacting the whole body would: no secret
\* crosses a chunk boundary, and nothing else is lost.
RedactionSound ==
    /\ RdClean
    /\ RdExact
=============================================================================
