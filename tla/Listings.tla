------------------------------ MODULE Listings ------------------------------
(***************************************************************************)
(* The queries behind the lists of the API: which rows a list has, by      *)
(* which field it is ordered and how a page is sought from the last item   *)
(* of the page before.  A listing is a record [api, name, account, tag],   *)
(* with the method's account and tag or NoAccount and NoTag.               *)
(***************************************************************************)
EXTENDS Tables

CONSTANTS
    Month,         \* how long an entry stays in the feed of a follower
    Window         \* how far ahead of now the payouts "payout" shows may be

ASSUME ListingsAssumption == Month \in Nat /\ Window \subseteq Nat

NoTag == ""
NoItem == 0

L(api, name, account, tag) ==
    [api |-> api, name |-> name, account |-> account, tag |-> tag]

Smallest(S) == CHOOSE x \in S : \A y \in S : x <= y

-----------------------------------------------------------------------------
\* Lists by a field of the post cache.

Field(sort, p) ==
    CASE sort = "trending" -> cache[p].stats.trend
      [] sort = "hot" -> cache[p].stats.hot
      [] sort = "created" -> p
      [] sort = "promoted" -> cache[p].stats.promoted
      [] sort \in {"payout", "payout_comments", "muted"} -> cache[p].stats.payout

\* condenser_api: a page goes on with the rows whose field is not above that
\* of the last item.
PayoutSorts == {"payout", "payout_comments"}
CondenserSorts == {"trending", "hot", "created", "promoted"} \cup PayoutSorts

CondenserRows(sort, tag) ==
    {p \in DOMAIN cache :
        /\ sort # "created" => ~cache[p].stats.paidout
        /\ sort \in {"created", "payout"} => cache[p].depth = 0
        /\ sort = "payout_comments" => cache[p].depth > 0
        /\ sort = "promoted" => cache[p].stats.promoted > 0
        /\ tag # NoTag =>
              IF sort \in PayoutSorts
              THEN posts[p].category = tag
              ELSE tag \in posts[p].tags}

\* bridge_api: rows of equal fields are told apart by the id.
RankedSorts == CondenserSorts \cup {"muted"}

RankedRows(sort, tag) ==
    {p \in DOMAIN cache :
        /\ sort \notin {"created"} => ~cache[p].stats.paidout
        /\ sort \in {"trending", "hot", "created"} => cache[p].depth = 0
        /\ sort = "payout_comments" => cache[p].depth > 0
        /\ sort = "promoted" => cache[p].stats.promoted > 0
        /\ sort = "muted" => cache[p].stats.gray /\ cache[p].stats.payout > 0
        /\ sort = "payout" => cache[p].stats.due - now \in Window
        /\ tag # NoTag =>
              IF sort \in PayoutSorts
              THEN posts[p].category = tag
              ELSE tag \in posts[p].tags
        /\ posts[p].author \notin HiddenAuthors}

PendingRows(a) ==
    {p \in DOMAIN cache : posts[p].author = a /\ ~cache[p].stats.paidout}

-----------------------------------------------------------------------------
\* Lists by the date of an entry of the feed cache.

BlogEntries(a) == {e \in feed : e.account = a}
BlogRows(a) == {e.post : e \in BlogEntries(a)}
EntryDate(a, p) == (CHOOSE e \in feed : e.account = a /\ e.post = p).at

Follows(a) == {b \in Accounts : <<a, b>> \in DOMAIN follows
                                  /\ follows[<<a, b>>].state \in {1, 3}}
EntriesFor(a, p) == {e \in feed : e.post = p /\ e.account \in Follows(a)}
Recent(a, p) == {e \in EntriesFor(a, p) : e.at > now - Month}

\* The rows are grouped by post; a group is as old as its oldest entry that
\* is still recent.
FeedRows(a) == {p \in Ids : Recent(a, p) # {}}
FeedDate(a, p) == Smallest({e.at : e \in Recent(a, p)})

\* The seek takes the oldest entry of the start, recent or not.
FeedSeekDate(a, p) == Smallest({e.at : e \in EntriesFor(a, p)})

-----------------------------------------------------------------------------
\* Lists of an account by the id of the post.

TopPostRows(a) == {p \in Ids : Live(p) /\ posts[p].author = a /\ posts[p].depth = 0}
CommentRows(a) == {p \in Ids : Live(p) /\ posts[p].author = a /\ posts[p].depth > 0}
ReplyRows(a) ==
    {p \in Ids : /\ Live(p)
                 /\ posts[p].parent \in {q \in Ids : Live(q) /\ posts[q].author = a}}

\* A page of replies that starts at a reply is that of its parent's author.
Replied(a, start) == IF start = NoItem THEN {a}
                     ELSE {posts[q].author : q \in {posts[start].parent} \ {NoPost}}

-----------------------------------------------------------------------------
\* Lists of accounts.

Relations(l) == IF l.name = "ignorers" THEN {2, 3} ELSE {1, 3}
Pair(l, b) == IF l.name \in {"following", "following_by_page"} THEN <<l.account, b>> ELSE <<b, l.account>>
RelationRows(l) ==
    {b \in Accounts : Pair(l, b) \in DOMAIN follows
                        /\ follows[Pair(l, b)].state \in Relations(l)}

-----------------------------------------------------------------------------
\* The methods.

FollowLists ==
    {"followers", "following", "ignorers", "followers_by_page", "following_by_page"}

CondenserListings(a, tags) ==
    {L("condenser", s, NoAccount, t) : s \in CondenserSorts, t \in tags}
      \cup {L("condenser", n, a, NoTag) :
              n \in {"blog", "feed", "posts", "comments", "replies", "reputations"}
                       \cup FollowLists}

BridgeListings(a, tags) ==
    {L("bridge", s, NoAccount, t) : s \in RankedSorts, t \in tags}
      \cup {L("bridge", n, a, NoTag) :
              n \in {"blog", "feed", "posts", "comments", "replies", "pending"}}

Ranked(l) == l.account = NoAccount
OfAccounts(l) == l.name \in FollowLists \cup {"reputations"}
ByCache(l) == Ranked(l) \/ l.name = "pending"
ById(l) == l.name \in {"posts", "comments", "replies"}
ByOffset(l) == l.name \in {"followers_by_page", "following_by_page"}

\* Rows are told apart by their id where their fields are equal.
Exact(l) == l.api = "bridge" /\ ByCache(l)

Rows(l, start) ==
    CASE Ranked(l) /\ l.api = "condenser" -> CondenserRows(l.name, l.tag)
      [] Ranked(l) /\ l.api = "bridge" -> RankedRows(l.name, l.tag)
      [] l.name = "pending" -> PendingRows(l.account)
      [] l.name = "blog" -> BlogRows(l.account)
      [] l.name = "feed" -> FeedRows(l.account)
      [] l.name = "posts" -> TopPostRows(l.account)
      [] l.name = "comments" -> CommentRows(l.account)
      [] l.name = "replies" -> UNION {ReplyRows(a) : a \in Replied(l.account, start)}
      [] l.name = "reputations" -> Accounts
      [] OfAccounts(l) /\ l.name # "reputations" -> RelationRows(l)

\* The rows that have the field a page is sought by, in the list or not.
Sought(l) ==
    CASE ByCache(l) -> DOMAIN cache
      [] l.name = "blog" -> BlogRows(l.account)
      [] l.name = "feed" -> {p \in Ids : EntriesFor(l.account, p) # {}}
      [] ById(l) -> Ids
      [] l.name = "reputations" -> Accounts
      [] OfAccounts(l) /\ l.name # "reputations" ->
            {b \in Accounts : Pair(l, b) \in DOMAIN follows}

SeekValue(l, p) ==
    CASE Ranked(l) -> Field(l.name, p)
      [] l.name = "pending" -> Field("payout", p)
      [] l.name = "blog" -> EntryDate(l.account, p)
      [] l.name = "feed" -> FeedSeekDate(l.account, p)
      [] ById(l) -> p
      [] l.name = "reputations" -> -p
      [] OfAccounts(l) /\ l.name # "reputations" -> follows[Pair(l, p)].at

Value(l, p) == IF l.name = "feed" THEN FeedDate(l.account, p) ELSE SeekValue(l, p)

\* ORDER BY the field DESC, and by the id where a list is exact.
Before(l, p, q) ==
    Value(l, p) > Value(l, q) \/ (Exact(l) /\ Value(l, p) = Value(l, q) /\ p < q)

(* Mutant: a page goes on below the field of the start. *)
SeekBelow(l, start) ==
    IF start = NoItem \/ ByOffset(l) THEN Rows(l, start)
    ELSE IF start \notin Sought(l) THEN {}
    ELSE {p \in Rows(l, start) : Value(l, p) < SeekValue(l, start)}

(* Mutant: rows of one field are not told apart by the id. *)
SeekFrom(l, start) ==
    IF start = NoItem \/ ByOffset(l) THEN Rows(l, start)
    ELSE IF start \notin Sought(l) THEN {}
    ELSE {p \in Rows(l, start) : Value(l, p) <= SeekValue(l, start)}

Seek(l, start) ==
    IF start = NoItem \/ ByOffset(l) THEN Rows(l, start)
    ELSE IF start \notin Sought(l) THEN {}
    ELSE {p \in Rows(l, start) :
            \/ Value(l, p) < SeekValue(l, start)
            \/ Value(l, p) = SeekValue(l, start) /\ (Exact(l) => p > start)}

\* Every order the database may return the rows of S in.
Sorted(l, S) ==
    {s \in SetToSeqs(S) :
        \A i, j \in DOMAIN s : i < j => ~Before(l, s[j], s[i])}

Least(a, b) == IF a < b THEN a ELSE b

\* LIMIT n OFFSET k
Cut(s, k, n) == SubSeq(s, k + 1, Least(Len(s), k + n))

Pages(l, start, k, n) ==
    {Cut(s, IF ByOffset(l) THEN k * n ELSE 0, n) : s \in Sorted(l, Seek(l, start))}

\* The posts the operators want first, on the first page of all tags.
FirstPosts(l, start) ==
    IF /\ l.api = "bridge" /\ Ranked(l) /\ l.tag = NoTag
       /\ start = NoItem /\ l.name \in {"trending", "created"}
    THEN {p \in Ids : Has(2, p)}
    ELSE {}

\* Posts that are hidden, or gone from the cache, are taken out of the page.
Filtered(l) == l.api = "bridge" /\ l.name \notin {"feed", "comments", "replies"}
Shown(l, p) ==
    OfAccounts(l) \/ (p \in DOMAIN cache /\ (Filtered(l) => ~Has(1, p)))

\* Nothing is shown of an author with any row in the table.
Closed(l) == /\ l.api = "bridge" /\ ~Ranked(l)
             /\ \E r \in status : r.author = l.account
=============================================================================
