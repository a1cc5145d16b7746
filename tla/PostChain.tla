------------------------------ MODULE PostChain ------------------------------
(***************************************************************************)
(* The Wortheum chain as the post indexer meets it: a stream of blocks of  *)
(* operations, and a node whose answers (get_content) reflect every        *)
(* operation the chain holds, also those the indexer has not reached yet.  *)
(* External to the repository: modelled from how indexer/blocks.py,        *)
(* indexer/posts.py and indexer/cached_post.py read operations and posts.  *)
(***************************************************************************)
EXTENDS Integers, Sequences, FiniteSets

CONSTANTS
    Url,        \* author/permlink pairs
    NoParent,   \* the parent of a root post
    Kinds,      \* the kinds of operation the chain may carry in a run
    MaxOps,     \* bound on the operations of a behaviour
    MaxFeed     \* bound on the operations and block marks not yet indexed

ASSUME NoParentAssumption == NoParent \notin Url

VARIABLES
    node,       \* what get_content answers for each url
    feed,       \* operations not yet committed by the indexer, with block marks
    made        \* operations produced so far

chainVars == <<node, feed, made>>

BlockMark == [kind |-> "block"]
Ops == [kind : {"comment"}, url : Url, parent : Url \cup {NoParent}]
       \cup [kind : {"delete", "vote", "pay", "payout"}, url : Url]

(* live: the post exists. ver: comment operations accepted for the url so
   far. paid: its payout has happened; late: it was edited after that; voted:
   it has a vote. *)
NodePost == [live : BOOLEAN, ver : Nat, parent : Url \cup {NoParent},
             paid : BOOLEAN, late : BOOLEAN, voted : BOOLEAN]

ChainTypeOK ==
    /\ node \in [Url -> NodePost]
    /\ feed \in Seq(Ops \cup {BlockMark})
    /\ made \in Nat

ChainInit ==
    /\ node = [u \in Url |-> [live |-> FALSE, ver |-> 0, parent |-> NoParent,
                              paid |-> FALSE, late |-> FALSE, voted |-> FALSE]]
    /\ feed = <<>>
    /\ made = 0

(* What the node's `children` field counts: every live descendant. *)
Replies(u) ==
    {v \in Url : \A S \in SUBSET Url :
        (\A w \in Url : node[w].live /\ node[w].parent \in S \cup {u} => w \in S)
            => v \in S}

Emit(op) ==
    /\ made < MaxOps
    /\ Len(feed) < MaxFeed
    /\ made' = made + 1
    /\ feed' = Append(feed, op)

ChainCreate(u, p) ==
    /\ ~node[u].live
    /\ node[u].ver > 0 => "recreate" \in Kinds
    /\ node[u].ver > 0 /\ p # node[u].parent => "reparent" \in Kinds
    /\ p # NoParent => node[p].live
    /\ Emit([kind |-> "comment", url |-> u, parent |-> p])
    /\ node' = [node EXCEPT ![u] =
                    [live |-> TRUE, ver |-> @.ver + 1, parent |-> p,
                     paid |-> FALSE, late |-> FALSE, voted |-> FALSE]]

ChainEdit(u) ==
    /\ "edit" \in Kinds
    /\ node[u].live
    /\ Emit([kind |-> "comment", url |-> u, parent |-> node[u].parent])
    /\ node' = [node EXCEPT ![u] =
                    [live |-> TRUE, ver |-> @.ver + 1, parent |-> @.parent,
                     paid |-> @.paid, late |-> @.paid, voted |-> @.voted]]

(* The chain refuses to delete a post that has replies or was paid out. *)
ChainDelete(u) ==
    /\ "delete" \in Kinds
    /\ node[u].live /\ ~node[u].paid
    /\ \A v \in Url : node[v].live => node[v].parent # u
    /\ Emit([kind |-> "delete", url |-> u])
    /\ node' = [node EXCEPT ![u].live = FALSE]

ChainVote(u) ==
    /\ "vote" \in Kinds
    /\ node[u].live
    /\ Emit([kind |-> "vote", url |-> u])
    /\ node' = [node EXCEPT ![u].voted = TRUE]

(* A transfer to @null may name any url in its memo, also a deleted post. *)
ChainPay(u) ==
    /\ "pay" \in Kinds
    /\ node[u].live \/ "pay_deleted" \in Kinds
    /\ Emit([kind |-> "pay", url |-> u])
    /\ UNCHANGED node

(* The payout time of the post passes: blocks from here on are dated later. *)
ChainPayout(u) ==
    /\ "payout" \in Kinds
    /\ node[u].live /\ ~node[u].paid
    /\ Emit([kind |-> "payout", url |-> u])
    /\ node' = [node EXCEPT ![u].paid = TRUE]

(* Blocks keep coming, with or without operations. *)
ChainBlock ==
    /\ Len(feed) < MaxFeed + 1
    /\ feed # <<>> => feed[Len(feed)] # BlockMark
    /\ feed' = Append(feed, BlockMark)
    /\ UNCHANGED <<node, made>>

ChainOp ==
    \E u \in Url :
        \/ \E p \in Url \cup {NoParent} : ChainCreate(u, p)
        \/ ChainEdit(u) \/ ChainDelete(u) \/ ChainVote(u)
        \/ ChainPay(u) \/ ChainPayout(u)

ChainNext == ChainOp \/ ChainBlock
=============================================================================
