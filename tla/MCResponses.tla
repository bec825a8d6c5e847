---------------------------- MODULE MCResponses -----------------------------
(* Instances of Responses for TLC. *)
EXTENDS Responses

\* The next token decides between the alternatives of a rule.
ASSUME Deterministic ==
    \A r \in DOMAIN Rules : \A a, b \in Rules[r] :
        a # b => \A t \in Tokens : ~(Begins(a, t) /\ Begins(b, t))
=============================================================================
