------------------------------ MODULE MCServe ------------------------------
(* The machines that serve agents and clients, in one run: requests at an  *)
(* endpoint, agents' calls, limits, health, redaction and the helper that  *)
(* resolves linked credentials.  Each has its own state and none reads      *)
(* another's, so a behaviour here is a behaviour of one of them, named by   *)
(* part, with the others at rest: the run explores the union of their state *)
(* spaces, not their product.                                               *)
EXTENDS HttpEndpoint, HttpCall, AgentCalls, Limits, Health, Redaction, OnePassword, TLC

VARIABLE part

serveVars == <<part, heVars, hcVars, agVars, lmVars, hlVars, rdVars, opVars>>

\* Injections whose needles overlap, lie inside one another or begin as another ends,
\* with an empty value and a value that comes twice.
Injections ==
    { <<>>, << <<"a", "b">>, <<>>, <<"a", "b">>, <<"b">> >>,
      << <<"a", "b">>, <<"c", "a", "b">>, <<"a", "c">> >>,
      << <<"a", "a", "b">> >>,
      << <<"a", "b", "a">>, <<"b">> >>,
      << <<"a", "b", "c">>, <<"c", "a">> >>,
      << <<"a", "b">>, <<"c", "c">> >> }

\* Requests of one endpoint are interchangeable.
ServeSymm == Permutations(HeReqs)

\* The machines at rest tell no states apart.
ServeView ==
    <<part, CASE part = "requests" -> heVars [] part = "call" -> hcVars
             [] part = "agents" -> agVars
              [] part = "limits" -> lmVars [] part = "health" -> hlVars
              [] part = "redaction" -> rdVars
              [] part = "sidecar" -> opVars>>

ServeInit ==
    /\ part \in {"requests", "call", "agents", "limits", "health", "redaction", "sidecar"}
    /\ HeInit /\ heconf = (part = "requests") /\ (part # "requests" => ~hecur)
    /\ HcInit /\ (part # "call" =>
          hccall = [stream |-> FALSE, mcp |-> FALSE, oauth |-> FALSE, method |-> "GET"])
    /\ AgInit /\ (part # "agents" => ~agconf /\ agcur = "none")
    /\ LmInit /\ (part # "limits" => lmuse = "table")
    /\ HlInit /\ OpInit
    /\ RdInit /\ (part # "redaction" => rdmode = "text" /\ rdneed = <<>> /\ rdbody = <<>>)

RequestsPart ==
    part = "requests" /\ HeNext /\ UNCHANGED <<part, hcVars, agVars, lmVars, hlVars, rdVars, opVars>>
CallPart ==
    part = "call" /\ HcNext /\ UNCHANGED <<part, heVars, agVars, lmVars, hlVars, rdVars, opVars>>
AgentsPart ==
    part = "agents" /\ AgNext /\ UNCHANGED <<part, heVars, hcVars, lmVars, hlVars, rdVars, opVars>>
LimitsPart ==
    part = "limits" /\ LmNext /\ UNCHANGED <<part, heVars, hcVars, agVars, hlVars, rdVars, opVars>>
HealthPart ==
    part = "health" /\ HlNext /\ UNCHANGED <<part, heVars, hcVars, agVars, lmVars, rdVars, opVars>>
RedactionPart ==
    part = "redaction" /\ RdNext /\ UNCHANGED <<part, heVars, hcVars, agVars, lmVars, hlVars, opVars>>
SidecarPart ==
    part = "sidecar" /\ OpNext
    /\ UNCHANGED <<part, heVars, hcVars, agVars, lmVars, hlVars, rdVars>>

ServeNext ==
    \/ RequestsPart \/ CallPart \/ AgentsPart \/ LimitsPart
    \/ HealthPart \/ RedactionPart \/ SidecarPart

ServeSpec == ServeInit /\ [][ServeNext]_serveVars
=============================================================================
