---------------------------- MODULE MCBlockSync ----------------------------
(* The sets of operations a block may carry in the runs. *)
EXTENDS BlockSync

Empty     == {{}}
PostOps   == {{}, {"post"}, {"delete"}, {"pay"}}
PaidPosts == {{}, {"post", "pay"}}
AllOps    == PostOps \cup {{"post", "pay"}}
=============================================================================
