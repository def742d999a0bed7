----------------------------- MODULE MCAgentRun -----------------------------
(* Instances of AgentRun: plans, processes and worker ids.                  *)
EXTENDS AgentRun, TLC

CONSTANTS w1, w2, c1, c2

Model     == [kind |-> "model", over |-> FALSE]
Costly    == [kind |-> "model", over |-> TRUE]
Batch(s)  == [kind |-> "tools", calls |-> s]
Free      == [tool |-> "free", scope |-> 0]
Collect(n) == [tool |-> "collect", scope |-> n]
Start(n)  == [tool |-> "start", scope |-> n]

OwnId    == (w1 :> w1) @@ (w2 :> w2)
AloneId  == (w1 :> w1)

\* Operators are interchangeable.
Operators == Permutations({c1, c2})

\* One interrupt, with calls before and after it.
OneGated     == {<<Model, Batch(<<Free, Collect(1)>>), Model>>}
OneOfEach    == {<<Batch(<<Free, Collect(1)>>), Model>>, <<Batch(<<Start(1)>>), Model>>,
                 <<Costly, Batch(<<Free>>)>>}
OneNode      == {<<Batch(<<Collect(1), Free>>)>>}
\* Two interrupts, in nodes of their own.
TwoNodes == {<<Batch(<<Collect(1)>>), Costly>>, <<Batch(<<Start(1)>>), Batch(<<Collect(2)>>)>>,
             <<Batch(<<Collect(1)>>), Model, Batch(<<Collect(2), Free>>)>>}
\* Two gated calls in a row, and in one batch.
InARow   == {<<Batch(<<Collect(1)>>), Batch(<<Collect(1)>>)>>, <<Batch(<<Collect(1), Collect(2)>>)>>}
\* One and two interrupts.
Mixed == OneOfEach \cup TwoNodes \cup InARow
=============================================================================
