----------------------------- MODULE MCThreads -----------------------------
EXTENDS Threads

Top(a) == [author |-> a, parent |-> NoPost, category |-> "t", tags |-> {}]
Reply(a, p) == [author |-> a, parent |-> p, category |-> "t", tags |-> {}]

\* A post, two replies and a reply to each.
FivePosts == <<Top(1), Reply(2, 1), Reply(3, 1), Reply(1, 2), Reply(2, 3)>>

OneRow == {[trend |-> 0, hot |-> 0, payout |-> 0, promoted |-> 0,
            paidout |-> FALSE, gray |-> FALSE, due |-> 1]}
NoPairs == {}
OneList == {{2}}

\* At most one live post waits for its row, and the request comes to tables
\* without a deleted post: to one as good as to a smaller table.
Relevant ==
    /\ Cardinality({p \in Ids : Live(p) /\ p \notin DOMAIN cache}) <= 1
    /\ phase = "idle" => \A p \in Ids : Live(p)
=============================================================================
