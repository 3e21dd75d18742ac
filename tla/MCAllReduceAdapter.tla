------------------------- MODULE MCAllReduceAdapter -------------------------
EXTENDS AllReduceAdapter

Chosen == [rows |-> {"small"}, eager |-> FALSE]
Other == {[rows |-> {"large"}, eager |-> FALSE], [rows |-> {"small"}, eager |-> TRUE]}

\* Equal settings, or a second rank that differs in its rows or its eager setting.
MCSettings == {[r \in Ranks |-> IF r = 0 THEN Chosen ELSE s] : s \in Other \cup {Chosen}}

\* The captured call goes to the adapter, the eager one to the native backend.
MCCalls == {<<"small", "captured">>, <<"small", "eager">>}

\* Replayed graphs only: the larger shape goes to the native backend inside them.
CapturedCalls == Shapes \X {"captured"}

=============================================================================
