---------------------------- MODULE MCExecutions ----------------------------
(* Instances of Executions for TLC.                                        *)
EXTENDS Executions, TLC

CONSTANTS c1, c2, c3, k1, k2, k3, p1, p2

TwoCalls == {c1, c2}
ThreeCalls == {c1, c2, c3}
TwoKeys == {k1, k2}
ThreeKeys == {k1, k2, k3}
OnePayload == {p1}
TwoPayloads == {p1, p2}

\* Safety runs only: no operator tells calls, keys or payloads apart.
Symm == Permutations(Calls) \cup Permutations(Keys) \cup Permutations(Payloads)

(* What the future of the safety run, and its properties, depend on: not   *)
(* what a refused call asked, whether a running execution's connection     *)
(* asks, which length an outcome had that is not kept as a body, or how an *)
(* execution was refused.                                                  *)
Spent(c) == exec[c] = "none" /\ pc[c] \in {"gone", "mismatch", "unreplayable", "capacity"}
Asked == [c \in Calls |-> IF Spent(c) THEN <<None, None>> ELSE <<key[c], payload[c]>>]
Asks == [c \in Calls |-> IF pc[c] = "idle" \/ exec[c] = "parked" THEN confirm[c] ELSE "off"]
Ends == [c \in Calls |-> IF result[c] = "denied" THEN "retryable" ELSE result[c]]
Remembers(e) == key[e] # None /\ held[key[e]] # "none" /\ heldBy[key[e]] = e
Ages == [e \in Calls |-> IF exec[e] = "ended" /\ key[e] # None /\ (Reached(e) \/ Remembers(e))
                         THEN done[e] ELSE 0]
OutcomesView ==
    <<clock, Asked, Asks, callers, exec, Ends, SerializedLen, began, Ages, waiters,
      {e \in abandoned : exec[e] = "parked"},
      [e \in Calls |-> {c \in sending[e] : pc[c] = "waiting"}],
      byKey, reserved, held, [k \in HeldKeys |-> heldBy[k]], order, replays, bytes>>
=============================================================================
