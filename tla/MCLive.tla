------------------------------- MODULE MCLive -------------------------------
(* The machines whose waits must end, in one run.  Each has its own state  *)
(* and none reads another's, so a behaviour here is a behaviour of one of  *)
(* them, named by part, with the others at rest.                           *)
EXTENDS Tokens, Elicitations, McpCalls, HttpCall

VARIABLE part

liveVars == <<part, tokVars, elVars, caVars, hcVars>>

LiveInit ==
    /\ part \in {"tokens", "elicit", "calls", "http"}
    /\ TokInit /\ (part # "tokens" => tkind = "mcp" /\ ~tok.exists)
    /\ ElInit
    /\ CaInit
    /\ HcInit /\ (part # "http" =>
          hccall = [stream |-> FALSE, mcp |-> FALSE, oauth |-> FALSE, method |-> "GET"])

TokensPart == part = "tokens" /\ TokNext /\ UNCHANGED <<part, elVars, caVars, hcVars>>
ElicitPart == part = "elicit" /\ ElNext /\ UNCHANGED <<part, tokVars, caVars, hcVars>>
CallsPart  == part = "calls" /\ CaNext /\ UNCHANGED <<part, tokVars, elVars, hcVars>>
HttpPart   == part = "http" /\ HcNext /\ UNCHANGED <<part, tokVars, elVars, caVars>>

LiveNext == TokensPart \/ ElicitPart \/ CallsPart \/ HttpPart

\* The fairness of each machine, where it is the one that runs.
LiveSpec ==
    /\ LiveInit /\ [][LiveNext]_liveVars
    /\ WF_tokVars(part = "tokens" /\ TokTick)
    /\ WF_tokVars(part = "tokens" /\ TokSweep)
    /\ \A t \in TokTasks : SF_tokVars(part = "tokens" /\ TokRenewal(t))
    /\ \A s \in TokSess : SF_tokVars(part = "tokens" /\ TokSession(s))
    /\ \A k \in ElToks : WF_elVars(part = "elicit" /\ ElWork(k))
    /\ \A k \in ElToks : WF_elVars(part = "elicit" /\ ElDeadline(k))
    /\ \A k \in CaCalls : WF_caVars(part = "calls" /\ CaOwn(k))
    /\ WF_hcVars(part = "http" /\ HcWork)
    /\ WF_hcVars(part = "http" /\ HcDeadline)
=============================================================================
