------------------------------- MODULE Prompts ------------------------------
(***************************************************************************)
(* What asking a person promises, whatever the queue behind it does: a     *)
(* question is put at most once, decided at most once, and the one who     *)
(* asked is told at most once.  Asking may be given up at any time, so the *)
(* asker may be told "cancel" whatever was decided; it is told anything    *)
(* else only if that is what the person decided.                           *)
(***************************************************************************)
CONSTANT Questions

VARIABLES
    asked,      \* questions that were put
    verdict,    \* question -> what was decided
    told        \* question -> what the asker was told

promptVars == <<asked, verdict, told>>

Answers == {"accept", "decline", "cancel"}

Init ==
    /\ asked = {}
    /\ verdict = [q \in Questions |-> "none"]
    /\ told = [q \in Questions |-> "none"]

\* A step may decide several questions, and tell the askers of some: a sweep, a
\* deadline.
Next ==
    /\ asked \subseteq asked'
    /\ \A q \in Questions :
          /\ verdict'[q] # verdict[q] => verdict[q] = "none" /\ q \in asked'
                                         /\ verdict'[q] \in Answers
          /\ told'[q] # told[q] => told[q] = "none"
                                   /\ told'[q] \in {"cancel", verdict'[q]} \ {"none"}
    /\ DOMAIN verdict' = Questions /\ DOMAIN told' = Questions

Spec == Init /\ [][Next]_promptVars
=============================================================================
