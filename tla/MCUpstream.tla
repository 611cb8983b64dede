---------------------------- MODULE MCUpstream ----------------------------
(* The machines between the broker and an upstream's sign-in, catalog and  *)
(* calls, in one run.  Each has its own state and none reads another's, so *)
(* a behaviour here is a behaviour of one of them, named by part, with the *)
(* others at rest: the run explores the union of their state spaces, not   *)
(* their product.                                                          *)
EXTENDS Tokens, Elicitations, McpCatalog, McpCalls, TLC

VARIABLE part

upVars == <<part, tokVars, elVars, mcVars, caVars>>

\* Sessions of MCP clients and calls of one upstream are interchangeable.
UpSymm == Permutations(McSess) \cup Permutations(CaCalls)

UpInit ==
    /\ part \in {"tokens", "elicit", "catalog", "calls"}
    /\ TokInit /\ (part # "tokens" => tkind = "mcp" /\ ~tok.exists)
    /\ ElInit
    /\ McInit /\ (part # "catalog" => \A c \in McConns : mcworld[c] = "off")
    /\ CaInit

TokensPart  == part = "tokens" /\ TokNext /\ UNCHANGED <<part, elVars, mcVars, caVars>>
ElicitPart  == part = "elicit" /\ ElNext /\ UNCHANGED <<part, tokVars, mcVars, caVars>>
CatalogPart == part = "catalog" /\ McNext /\ UNCHANGED <<part, tokVars, elVars, caVars>>
CallsPart   == part = "calls" /\ CaNext /\ UNCHANGED <<part, tokVars, elVars, mcVars>>

UpNext == TokensPart \/ ElicitPart \/ CatalogPart \/ CallsPart

UpSpec == UpInit /\ [][UpNext]_upVars
=============================================================================
