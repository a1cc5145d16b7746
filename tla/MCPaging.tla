------------------------------ MODULE MCPaging ------------------------------
EXTENDS Paging

Top(a) == [author |-> a, parent |-> NoPost, category |-> "t", tags |-> {"t"}]
Reply(a, p) == [author |-> a, parent |-> p, category |-> "t", tags |-> {}]

FivePosts == <<Top(1), Top(2), Reply(1, 1), Top(3), Reply(2, 1)>>

Row(v, g) == [trend |-> v, hot |-> v, payout |-> v, promoted |-> v,
              paidout |-> FALSE, gray |-> g, due |-> 1]
TwoRows == {Row(0, TRUE), Row(1, TRUE)}

\* One tag for every sort: none, or the tag of the posts.
Untagged == {"trending", "created", "payout_comments", "muted"}
AllWalks == {l \in CondenserListings(1, {NoTag, "t"}) \cup BridgeListings(1, {NoTag, "t"}) :
                Ranked(l) => (l.tag = NoTag <=> l.name \in Untagged)}

FollowPairs == {<<1, b>> : b \in 2..4} \cup {<<b, 1>> : b \in 2..4}

PairsOf(l) ==
    CASE l.name \in {"following", "following_by_page"} -> {<<1, b>> : b \in 2..4}
      [] l.name \in {"followers", "ignorers", "followers_by_page"} -> {<<b, 1>> : b \in 2..4}
      [] l.name = "feed" -> {<<1, 2>>, <<1, 3>>}
      [] OTHER -> {}

\* Two changes for the lists in which one alone does little: a reply that is
\* made again under another post, an old entry of a feed reblogged, a post
\* pinned and taken back, or pinned beside one that is hidden.
Twice(l) == \/ l.api = "condenser" /\ l.name \in {"replies", "feed"}
            \/ l.api = "bridge" /\ l.name = "created"

\* What a list does not read is left as it is: the tables of posts for the
\* lists of accounts, the follows for all lists but those and the feeds, the
\* numbers of the cache, the reblogs and the date for lists that ask for none.
Relevant ==
    /\ changes <= IF Twice(list) THEN 2 ELSE 1
    /\ Len(posts) <= IF ~Twice(list) \/ list.name = "feed" THEN 3
                     ELSE IF list.name = "replies" THEN 5 ELSE 4
    /\ limit = 1 => Exact(list) \/ Twice(list) \/ ByOffset(list)
    /\ limit = 2 => ~Twice(list)
    /\ OfAccounts(list) => posts = <<>>
    /\ DOMAIN follows \subseteq PairsOf(list)
    /\ \A f \in DOMAIN follows :
          follows[f].state \in (IF list.name = "ignorers" THEN {0, 3} ELSE {0, 1})
    /\ ~ByCache(list) \/ list.name = "created" =>
          \A p \in DOMAIN cache : cache[p].stats = Row(0, TRUE)
    /\ \A e \in feed : \/ e.account = posts[e.post].author
                        \/ (list.name = "blog" /\ e.account = 1)
                        \/ (list.name = "feed" /\ e.account \in 2..3)
    /\ \A r \in status : list.api = "bridge" /\ r.author \in {NoAccount, 1, 2}
    /\ ById(list) \/ (Ranked(list) /\ list.name # "payout") => now = 0
=============================================================================
