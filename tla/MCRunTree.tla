----------------------------- MODULE MCRunTree -----------------------------
(* RunTree with a small plan: an expert and a read side by side, a collection *)
(* afterwards, fewer slots than calls.                                       *)
EXTENDS RunTree

Delegating == << <<"expert", "read">>, <<"collect">> >>

ExpertReads == << <<"read">> >>

\* The coordinator is executed twice, an expert once.
CoordinatorTwice == <<2, 1, 1>>

TreePlans == {Delegating}
=============================================================================
