---------------------------- MODULE MCNodeClient ----------------------------
EXTENDS NodeClient

TwoNodes == <<"a", "b">>
\* Three chunks of one; chunks of two and of one.
ContentAndBlocks ==
    {[method |-> "get_content", params |-> <<1, 2, 3>>, size |-> 1],
     [method |-> "get_block", params |-> <<1, 2, 3>>, size |-> 2]}

\* A batch is asked for while there is no account: it does not read them.
Relevant == phase \in {"reading", "closing", "failing"} => created = <<>>
=============================================================================
