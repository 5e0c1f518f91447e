-------------------------- MODULE MCInterventions --------------------------
(* Three deliveries: a client's retry of one request beside another one.    *)
EXTENDS Interventions, TLC

CONSTANTS q1, q2, q3, k1, k2

Ask(action, key) == [action |-> action, key |-> key]

\* q2 is the retry of q1; q3 asks for something else, under the same key or its own.
Retried(action, other, key) ==
    q1 :> Ask(action, k1) @@ q2 :> Ask(action, k1) @@ q3 :> Ask(other, key)

MCAsked == {Retried("approve", "override", k1), Retried("rerun", "approve", k1),
            Retried("rerun", "approve", k2), Retried("deny", "approve", k2)}
=============================================================================
