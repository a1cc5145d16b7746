------------------------------- MODULE Tables -------------------------------
(***************************************************************************)
(* The tables the API server reads, and how they change under it: blocks   *)
(* that the indexer commits, and rows the operators of a site write by     *)
(* hand.  A post is its id in worth_posts; ids grow and are never reused.  *)
(***************************************************************************)
EXTENDS Integers, FiniteSets, SequencesExt

CONSTANTS
    Accounts,      \* the names of accounts, as numbers: names are ordered
    Shapes,        \* the sequence of comments the chain brings: the i-th post
                   \*   is [author, parent, category, tags], its parent an id
                   \*   or NoPost; the category and tags of a reply are unused
    Stats,         \* the numbers of a row of worth_posts_cache:
                   \*   [trend, hot, payout, promoted, paidout, gray, due]
    Pairs,         \* the pairs <<follower, following>> that may relate
    States,        \* the states a row of worth_follows may have
    Kinds,         \* the changes to explore, see Change
    MaxDate, MaxChanges

NoPost == 0
NoAccount == 0

ASSUME TablesAssumption ==
    /\ Accounts \subseteq Nat \ {NoAccount}
    /\ IsFiniteSet(Accounts)
    /\ Pairs \subseteq {f \in Accounts \X Accounts : f[1] # f[2]}
    /\ Stats \subseteq [trend : Int, hot : Int, payout : Int, promoted : Int,
                        paidout : BOOLEAN, gray : BOOLEAN, due : Int]
    /\ States \subseteq 0..3
    /\ MaxDate \in Nat
    /\ MaxChanges \in Nat
    /\ Len(Shapes) \in Nat /\ DOMAIN Shapes = 1 .. Len(Shapes)
    /\ \A i \in DOMAIN Shapes :
          Shapes[i].author \in Accounts /\ Shapes[i].parent \in NoPost .. i - 1

VARIABLES
    posts,     \* worth_posts: a sequence of
               \*   [author, parent, depth, category, tags, deleted]
    cache,     \* worth_posts_cache: from some ids to [stats, depth]
    feed,      \* worth_feed_cache: a set of [post, account, at]
    follows,   \* worth_follows: from some pairs to [state, at]
    status,    \* worth_posts_status: a set of [kind, post, author]
    now,       \* the date of the head block
    changes    \* how many changes so far

tables == <<posts, cache, feed, follows, status>>
tableVars == <<tables, now, changes>>

Ids == DOMAIN posts
Live(p) == ~posts[p].deleted

Depth(parent) == IF parent = NoPost THEN 0 ELSE posts[parent].depth + 1

\* A comment is of the category of the post it hangs under; tags are kept of
\* top-level posts only.
Category(p, parent) == IF parent = NoPost THEN Shapes[p].category
                       ELSE posts[parent].category
Tags(p, parent) == IF parent = NoPost THEN Shapes[p].tags ELSE {}

\* What the operators have hidden (1, 3) or pinned (2).
Has(kind, p) == [kind |-> kind, post |-> p, author |-> NoAccount] \in status
HiddenAuthors == {r.author : r \in {s \in status : s.kind = 3}}

\* ON CONFLICT (account_id, post_id) DO NOTHING
Fed(p, a) ==
    feed \cup IF \E e \in feed : e.post = p /\ e.account = a
              THEN {}
              ELSE {[post |-> p, account |-> a, at |-> now]}

TablesInit ==
    /\ posts = <<>>
    /\ cache = <<>>
    /\ feed = {}
    /\ follows = <<>>
    /\ status = {}
    /\ now = 0
    /\ changes = 0

Cached(p, s, d) == [q \in DOMAIN cache \cup {p} |->
                       IF q = p THEN [stats |-> s, depth |-> d] ELSE cache[q]]

-----------------------------------------------------------------------------
\* A block with a new comment.  The row of the cache comes with the same
\* block, unless the node does not have the post yet.
NewPost ==
    /\ Len(posts) < Len(Shapes)
    /\ LET p == Len(posts) + 1
           shape == Shapes[p]
       IN  /\ shape.parent # NoPost => Live(shape.parent)
           /\ posts' = Append(posts,
                 [author |-> shape.author, parent |-> shape.parent,
                  depth |-> Depth(shape.parent),
                  category |-> Category(p, shape.parent),
                  tags |-> Tags(p, shape.parent), deleted |-> FALSE])
           /\ \/ \E s \in Stats : cache' = Cached(p, s, Depth(shape.parent))
              \/ "defer" \in Kinds /\ cache' = cache
           /\ feed' = IF shape.parent = NoPost THEN Fed(p, shape.author) ELSE feed
    /\ UNCHANGED <<follows, status, now, changes>>

Tick == now < MaxDate /\ now' = now + 1 /\ UNCHANGED <<tables, changes>>

\* The insert that was deferred.
CacheLate(p) ==
    /\ Live(p) /\ p \notin DOMAIN cache
    /\ \E s \in Stats : cache' = Cached(p, s, posts[p].depth)
    /\ UNCHANGED <<posts, feed, follows, status>>

\* Votes, payouts and promotion move the numbers of a row; what is paid out
\* stays paid out.
Rescore(p) ==
    /\ p \in DOMAIN cache
    /\ \E s \in Stats :
          /\ cache[p].stats.paidout => s.paidout
          /\ cache' = [cache EXCEPT ![p].stats = s]
    /\ UNCHANGED <<posts, feed, follows, status>>

\* The chain deletes only comments that no live comment replies to.
Delete(p) ==
    /\ Live(p)
    /\ \A q \in Ids : posts[q].parent = p => ~Live(q)
    /\ posts' = [posts EXCEPT ![p].deleted = TRUE, ![p].tags = {}]
    /\ cache' = [q \in DOMAIN cache \ {p} |-> cache[q]]
    /\ feed' = IF posts[p].depth = 0 THEN {e \in feed : e.post # p} ELSE feed
    /\ UNCHANGED <<follows, status>>

\* A deleted comment is made again, maybe elsewhere.  Where the cache spans
\* its id, its row is written without a depth, and the update that follows
\* does not set it; else it comes with an insert.  The row is taken with its
\* update: the stub alone, which is committed first when a node that is behind
\* answers the flush with a blank or the process ends before it, has no
\* raw_json, and a request that loads it ends with the AssertionError of
\* load_posts_keyed.
Reinstate(p) ==
    /\ ~Live(p)
    /\ \E parent \in {q \in Ids : Live(q)} \cup {NoPost} :
          /\ posts' = [posts EXCEPT ![p] =
                [author |-> @.author, parent |-> parent, depth |-> Depth(parent),
                 category |-> Category(p, parent),
                 tags |-> Tags(p, parent), deleted |-> FALSE]]
          /\ feed' = IF parent = NoPost THEN Fed(p, posts[p].author) ELSE feed
          /\ \E s \in Stats, d \in {0} \cup IF \E q \in DOMAIN cache : q > p
                                           THEN {} ELSE {Depth(parent)} :
                cache' = Cached(p, s, d)
    /\ UNCHANGED <<follows, status>>

\* Only the depth of the post is asked, not whether it is deleted.
Reblog(p) ==
    /\ posts[p].depth = 0
    /\ \E a \in Accounts : feed' = Fed(p, a)
    /\ UNCHANGED <<posts, cache, follows, status>>

\* An account follows (1), ignores (2), both (3) or clears (0) for the first
\* time, or again: the date is that of the row's first state.
FollowFirst(f, s) ==
    /\ f \notin DOMAIN follows /\ s # 0
    /\ follows' = [g \in DOMAIN follows \cup {f} |->
                     IF g = f THEN [state |-> s, at |-> now] ELSE follows[g]]
    /\ UNCHANGED <<posts, cache, feed, status>>

FollowAgain(f, s) ==
    /\ f \in DOMAIN follows /\ s # follows[f].state
    /\ follows' = [follows EXCEPT ![f].state = s]
    /\ UNCHANGED <<posts, cache, feed, status>>

\* The operators hide a post (1), pin it on the first page (2) or hide an
\* author (3), or take that back.
Moderate(k, p, a) ==
    /\ LET row == [kind |-> k, post |-> p, author |-> a]
       IN  status' = IF row \in status THEN status \ {row} ELSE status \cup {row}
    /\ UNCHANGED <<posts, cache, feed, follows>>

Change ==
    /\ changes < MaxChanges
    /\ changes' = changes + 1
    /\ now' = now
    /\ \/ \E p \in Ids : \/ "defer" \in Kinds /\ CacheLate(p)
                         \/ "rescore" \in Kinds /\ Rescore(p)
                         \/ "delete" \in Kinds /\ Delete(p)
                         \/ "recreate" \in Kinds /\ Reinstate(p)
                         \/ "reblog" \in Kinds /\ Reblog(p)
                         \/ "hide" \in Kinds /\ Moderate(1, p, NoAccount)
                         \/ "pin" \in Kinds /\ Moderate(2, p, NoAccount)
       \/ "follow" \in Kinds /\ \E f \in Pairs, s \in States : FollowAgain(f, s)
       \/ "close" \in Kinds /\ \E a \in Accounts : Moderate(3, NoPost, a)

Follow ==
    /\ \E f \in Pairs, s \in States : FollowFirst(f, s)
    /\ UNCHANGED <<now, changes>>

TablesNext == NewPost \/ Follow \/ Tick \/ Change

-----------------------------------------------------------------------------
TablesTypeOK ==
    /\ posts \in Seq([author : Accounts, parent : Nat, depth : Nat,
                      category : {Shapes[i].category : i \in DOMAIN Shapes},
                      tags : {Shapes[i].tags : i \in DOMAIN Shapes} \cup {{}},
                      deleted : BOOLEAN])
    /\ DOMAIN cache \subseteq Ids
    /\ \A p \in DOMAIN cache : cache[p] \in [stats : Stats, depth : Nat]
    /\ feed \subseteq [post : Ids, account : Accounts, at : 0..MaxDate]
    /\ DOMAIN follows \subseteq Pairs
    /\ \A f \in DOMAIN follows : follows[f] \in [state : States, at : 0..MaxDate]
    /\ status \subseteq [kind : 1..3, post : Ids \cup {NoPost}, author : Accounts \cup {NoAccount}]
    /\ now \in 0..MaxDate
    /\ changes \in 0..MaxChanges
=============================================================================
