---------------------------- MODULE PagingProofs ----------------------------
(* Proofs about Paging, for any tables, lists and limits. *)
EXTENDS Paging, FiniteSetTheorems, FunctionTheorems, SequenceTheorems,
        NaturalsInduction, WellFoundedInduction, TLAPS

-----------------------------------------------------------------------------
(* Least and greatest numbers. *)

LEMMA LeastExists ==
  ASSUME NEW S, S \subseteq Nat, S # {}
  PROVE  Smallest(S) \in S /\ \A j \in S : Smallest(S) <= j
<1>1. PICK n \in S : TRUE
  OBVIOUS
<1>2. PICK k \in S : \A j \in S : <<j, k>> \notin OpToRel(<, Nat)
  <2>1. IsWellFoundedOn(OpToRel(<, Nat), Nat)
    BY NatLessThanWellFounded
  <2> HIDE DEF OpToRel
  <2> QED BY <1>1, <2>1, WFMin
<1>3. ASSUME NEW j \in S PROVE k <= j
  <2>1. <<j, k>> \in Nat \X Nat /\ <<j, k>>[1] = j /\ <<j, k>>[2] = k
    OBVIOUS
  <2>2. ~(j < k)
    BY <1>2, <2>1 DEF OpToRel
  <2> QED BY <2>2
<1>4. \E x \in S : \A y \in S : x <= y
  BY <1>3
<1> QED BY <1>4 DEF Smallest

LEMMA MaxExists ==
  ASSUME NEW n \in Nat, NEW S \in SUBSET (1 .. n), S # {}
  PROVE  Max(S) \in S /\ \A i \in S : i <= Max(S)
<1> DEFINE T == {n - i : i \in S}
<1>1. T \subseteq Nat /\ T # {}
  OBVIOUS
<1>2. PICK t \in T : \A u \in T : t <= u
  BY <1>1, LeastExists
<1>3. PICK m \in S : t = n - m
  BY <1>2
<1>4. \A i \in S : i <= m
  <2>1. \A i \in S : n - m <= n - i
    BY <1>2, <1>3
  <2> QED BY <2>1
<1>5. \E x \in S : \A y \in S : x >= y
  BY <1>4
<1> QED BY <1>5 DEF Max

-----------------------------------------------------------------------------
(* The tables: what a row refers to exists, and what is compared is a number. *)

Sequence(s) == \E S : s \in Seq(S)

TablesFit ==
    /\ Sequence(posts)
    /\ \A p \in DOMAIN cache : p \in Ids /\ cache[p].stats \in Stats
    /\ \A e \in feed : e.post \in Ids /\ e.at \in Nat
    /\ \A f \in DOMAIN follows : follows[f].at \in Nat
    /\ now \in Nat

LEMMA IdsAre ==
  ASSUME Sequence(posts)
  PROVE  Len(posts) \in Nat /\ Ids = 1 .. Len(posts)
BY DEF Sequence, Ids

LEMMA AppendPost ==
  ASSUME Sequence(posts), NEW row, posts' = Append(posts, row)
  PROVE  Sequence(posts)' /\ Ids' = 1 .. Len(posts) + 1 /\ Ids \subseteq Ids'
<1>1. PICK S : posts \in Seq(S)
  BY DEF Sequence
<1>2. posts \in Seq(S \cup {row}) /\ row \in S \cup {row}
  BY <1>1
<1>3. posts' \in Seq(S \cup {row}) /\ Len(posts') = Len(posts) + 1
  BY <1>2
<1>4. Sequence(posts')
  BY <1>3 DEF Sequence
<1> QED BY <1>1, <1>3, <1>4 DEF Sequence, Ids

LEMMA ChangePost ==
  ASSUME Sequence(posts), NEW p \in Ids, NEW row, posts' = [posts EXCEPT ![p] = row]
  PROVE  Sequence(posts)' /\ Ids' = Ids
<1>1. PICK S : posts \in Seq(S)
  BY DEF Sequence
<1>2. posts \in Seq(S \cup {row}) /\ row \in S \cup {row} /\ p \in 1 .. Len(posts)
  BY <1>1 DEF Ids
<1>3. posts' \in Seq(S \cup {row}) /\ Len(posts') = Len(posts)
  BY <1>2, ExceptSeq
<1>4. Sequence(posts')
  BY <1>3 DEF Sequence
<1> QED BY <1>1, <1>3, <1>4 DEF Sequence, Ids

LEMMA CachedFits ==
  ASSUME NEW p, NEW s \in Stats, NEW I, p \in I, \E d : cache' = Cached(p, s, d),
         \A q \in DOMAIN cache : q \in I /\ cache[q].stats \in Stats
  PROVE  \A q \in DOMAIN cache' : q \in I /\ cache'[q].stats \in Stats
BY DEF Cached

LEMMA FedFits ==
  ASSUME NEW p, NEW a, NEW I, p \in I, now \in Nat,
         \A e \in feed : e.post \in I /\ e.at \in Nat
  PROVE  \A e \in Fed(p, a) : e.post \in I /\ e.at \in Nat
BY DEF Fed

LEMMA NewPostFits ==
  ASSUME TablesFit, NewPost
  PROVE  TablesFit'
<1> DEFINE p == Len(posts) + 1
           shape == Shapes[p]
<1>1. PICK row : posts' = Append(posts, row)
  BY DEF NewPost
<1>2. /\ Sequence(posts)' /\ Ids' = 1 .. p /\ Ids \subseteq Ids'
  BY <1>1, AppendPost DEF TablesFit
<1>3. p \in Ids'
  BY <1>2, IdsAre DEF TablesFit
<1>4. \A q \in DOMAIN cache' : q \in Ids' /\ cache'[q].stats \in Stats
  <2>1. CASE cache' = cache
    BY <1>2, <2>1 DEF TablesFit
  <2>2. CASE cache' # cache
    <3>1. PICK s \in Stats : cache' = Cached(p, s, Depth(shape.parent))
      BY <2>2 DEF NewPost
    <3>2. \A q \in DOMAIN cache : q \in Ids' /\ cache[q].stats \in Stats
      BY <1>2 DEF TablesFit
    <3> HIDE DEF p, shape
    <3> QED BY <1>3, <3>1, <3>2, CachedFits
  <2> QED BY <2>1, <2>2
<1>5. \A e \in feed' : e.post \in Ids' /\ e.at \in Nat
  <2>1. \A e \in feed : e.post \in Ids' /\ e.at \in Nat
    BY <1>2 DEF TablesFit
  <2>2. feed' = feed \/ feed' = Fed(p, shape.author)
    BY DEF NewPost
  <2>3. now \in Nat
    BY DEF TablesFit
  <2> HIDE DEF p, shape
  <2> QED BY <1>3, <2>1, <2>2, <2>3, FedFits
<1>6. follows' = follows /\ now' = now
  BY DEF NewPost
<1> QED BY <1>2, <1>4, <1>5, <1>6 DEF TablesFit

LEMMA ReinstateFits ==
  ASSUME TablesFit, NEW p \in Ids, Reinstate(p), now' = now
  PROVE  TablesFit'
<1>1. PICK parent \in {q \in Ids : Live(q)} \cup {NoPost} :
        /\ posts' = [posts EXCEPT ![p] =
              [author |-> @.author, parent |-> parent, depth |-> Depth(parent),
               category |-> Category(p, parent),
               tags |-> Tags(p, parent), deleted |-> FALSE]]
        /\ feed' = IF parent = NoPost THEN Fed(p, posts[p].author) ELSE feed
        /\ \E s \in Stats, d \in {0} \cup IF \E q \in DOMAIN cache : q > p
                                         THEN {} ELSE {Depth(parent)} :
              cache' = Cached(p, s, d)
  BY DEF Reinstate
<1>2. Sequence(posts)' /\ Ids' = Ids
  BY <1>1, ChangePost DEF TablesFit
<1>3. \A q \in DOMAIN cache' : q \in Ids' /\ cache'[q].stats \in Stats
  <2>1. PICK s \in Stats : \E d : cache' = Cached(p, s, d)
    BY <1>1
  <2> QED BY <1>2, <2>1, CachedFits DEF TablesFit
<1>4. \A e \in feed' : e.post \in Ids' /\ e.at \in Nat
  <2>1. feed' = feed \/ feed' = Fed(p, posts[p].author)
    BY <1>1
  <2> QED BY <1>2, <2>1, FedFits DEF TablesFit
<1>5. follows' = follows
  BY DEF Reinstate
<1> QED BY <1>2, <1>3, <1>4, <1>5 DEF TablesFit

LEMMA DeleteFits ==
  ASSUME TablesFit, NEW p \in Ids, Delete(p), now' = now
  PROVE  TablesFit'
<1>1. PICK row : posts' = [posts EXCEPT ![p] = row]
  BY DEF Delete
<1>2. Sequence(posts)' /\ Ids' = Ids
  BY <1>1, ChangePost DEF TablesFit
<1>3. cache' = [q \in DOMAIN cache \ {p} |-> cache[q]] /\ feed' \subseteq feed /\ follows' = follows
  BY DEF Delete
<1> QED BY <1>2, <1>3 DEF TablesFit

LEMMA FollowsFit ==
  ASSUME TablesFit, NEW f, NEW s, FollowFirst(f, s) \/ FollowAgain(f, s)
  PROVE  \A g \in DOMAIN follows' : follows'[g].at \in Nat
<1>1. CASE FollowFirst(f, s)
  BY <1>1 DEF TablesFit, FollowFirst
<1>2. CASE FollowAgain(f, s)
  <2>1. \A g \in DOMAIN follows' : g \in DOMAIN follows /\ follows'[g].at = follows[g].at
    BY <1>2 DEF FollowAgain
  <2> QED BY <2>1 DEF TablesFit
<1> QED BY <1>1, <1>2

LEMMA TablesStayFit ==
  ASSUME TablesFit, TablesNext
  PROVE  TablesFit'
<1>1. CASE NewPost
  BY <1>1, NewPostFits
<1>2. CASE Tick
  BY <1>2 DEF Tick, tables, TablesFit, Ids
<1>3. CASE Follow
  <2>1. PICK f \in Pairs, s \in States : FollowFirst(f, s)
    BY <1>3 DEF Follow
  <2>2. UNCHANGED <<posts, cache, feed, now>>
    BY <1>3, <2>1 DEF Follow, FollowFirst
  <2> QED BY <2>1, <2>2, FollowsFit DEF TablesFit, Ids
<1>4. CASE Change
  <2>1. now' = now
    BY <1>4 DEF Change
  <2>2. ASSUME NEW p \in Ids, CacheLate(p) PROVE TablesFit'
    <3>1. PICK s \in Stats : \E d : cache' = Cached(p, s, d)
      BY <2>2 DEF CacheLate
    <3>2. UNCHANGED <<posts, feed, follows>>
      BY <2>2 DEF CacheLate
    <3>3. \A q \in DOMAIN cache' : q \in Ids /\ cache'[q].stats \in Stats
      BY <3>1, CachedFits DEF TablesFit
    <3> QED BY <2>1, <3>2, <3>3 DEF TablesFit, Ids
  <2>3. ASSUME NEW p \in Ids, Rescore(p) PROVE TablesFit'
    <3>1. \A q \in DOMAIN cache' : q \in DOMAIN cache /\ cache'[q].stats \in Stats
      BY <2>3 DEF Rescore, TablesFit
    <3> QED BY <2>1, <2>3, <3>1 DEF TablesFit, Ids, Rescore
  <2>4. ASSUME NEW p \in Ids, Reblog(p) PROVE TablesFit'
    <3>1. PICK a \in Accounts : feed' = Fed(p, a)
      BY <2>4 DEF Reblog
    <3>2. \A e \in feed' : e.post \in Ids /\ e.at \in Nat
      BY <3>1, FedFits DEF TablesFit
    <3> QED BY <2>1, <2>4, <3>2 DEF TablesFit, Ids, Reblog
  <2>5. ASSUME NEW k, NEW p, NEW a, Moderate(k, p, a) PROVE TablesFit'
    BY <2>1, <2>5 DEF TablesFit, Ids, Moderate
  <2>6. ASSUME NEW f \in Pairs, NEW s \in States, FollowAgain(f, s) PROVE TablesFit'
    <3>1. UNCHANGED <<posts, cache, feed>>
      BY <2>6 DEF FollowAgain
    <3> QED BY <2>1, <2>6, <3>1, FollowsFit DEF TablesFit, Ids
  <2> QED BY <1>4, <2>1, <2>2, <2>3, <2>4, <2>5, <2>6, DeleteFits, ReinstateFits DEF Change
<1> QED BY <1>1, <1>2, <1>3, <1>4 DEF TablesNext

-----------------------------------------------------------------------------
(* The lists: each has one of these kinds, its rows are among those that a page *)
(* can be sought from, and what rows are compared by is a number.               *)

Known(l) == \E a \in Accounts :
    l \in CondenserListings(a, {l.tag}) \cup BridgeListings(a, {l.tag})

DatedLists == {"blog", "feed"}
IdLists == {"posts", "comments", "replies"}

LEMMA ListKinds ==
  ASSUME NEW l, Known(l)
  PROVE  \/ /\ Ranked(l) /\ ~OfAccounts(l) /\ l.name \notin {"pending", "replies", "feed"}
            /\ \/ l.api = "condenser" /\ l.name \in CondenserSorts
               \/ l.api = "bridge" /\ l.name \in RankedSorts
         \/ ~Ranked(l) /\ l.name = "pending" /\ l.api = "bridge"
         \/ ~Ranked(l) /\ l.name \in DatedLists \cup IdLists
         \/ ~Ranked(l) /\ l.name \in FollowLists \cup {"reputations"} /\ l.api = "condenser"
<1>1. PICK a \in Accounts : l \in CondenserListings(a, {l.tag}) \cup BridgeListings(a, {l.tag})
  BY DEF Known
<1>2. a # NoAccount
  BY TablesAssumption
<1>3. CASE l \in CondenserListings(a, {l.tag})
  <2>1. CASE \E s \in CondenserSorts, t \in {l.tag} : l = L("condenser", s, NoAccount, t)
    <3>1. l.api = "condenser" /\ l.name \in CondenserSorts /\ l.account = NoAccount
      BY <2>1 DEF L
    <3> QED BY <3>1 DEF Ranked, OfAccounts, CondenserSorts, PayoutSorts, FollowLists
  <2>2. CASE \E n \in {"blog", "feed", "posts", "comments", "replies", "reputations"} \cup FollowLists :
               l = L("condenser", n, a, NoTag)
    <3>1. /\ l.api = "condenser" /\ l.account = a
          /\ l.name \in {"blog", "feed", "posts", "comments", "replies", "reputations"} \cup FollowLists
      BY <2>2 DEF L
    <3> QED BY <1>2, <3>1 DEF Ranked, DatedLists, IdLists
  <2> QED BY <1>3, <2>1, <2>2 DEF CondenserListings
<1>4. CASE l \in BridgeListings(a, {l.tag})
  <2>1. CASE \E s \in RankedSorts, t \in {l.tag} : l = L("bridge", s, NoAccount, t)
    <3>1. l.api = "bridge" /\ l.name \in RankedSorts /\ l.account = NoAccount
      BY <2>1 DEF L
    <3> QED BY <3>1 DEF Ranked, OfAccounts, CondenserSorts, RankedSorts, PayoutSorts, FollowLists
  <2>2. CASE \E n \in {"blog", "feed", "posts", "comments", "replies", "pending"} :
               l = L("bridge", n, a, NoTag)
    <3>1. /\ l.api = "bridge" /\ l.account = a
          /\ l.name \in {"blog", "feed", "posts", "comments", "replies", "pending"}
      BY <2>2 DEF L
    <3> QED BY <1>2, <3>1 DEF Ranked, DatedLists, IdLists
  <2> QED BY <1>4, <2>1, <2>2 DEF BridgeListings
<1> QED BY <1>1, <1>3, <1>4

LEMMA FieldIs ==
  ASSUME TablesFit, NEW sort \in RankedSorts, NEW p \in DOMAIN cache
  PROVE  Field(sort, p) \in Int
<1>1. cache[p].stats \in [trend : Int, hot : Int, payout : Int, promoted : Int,
                          paidout : BOOLEAN, gray : BOOLEAN, due : Int]
  BY TablesAssumption DEF TablesFit
<1>2. p \in Int
  BY IdsAre DEF TablesFit
<1> QED BY <1>1, <1>2 DEF Field, RankedSorts, CondenserSorts, PayoutSorts

\* What each kind of list is, in the words of the definitions by cases.
Kind(l, ranked, accounts, id, cached) ==
    /\ Ranked(l) = ranked /\ OfAccounts(l) = accounts
    /\ ById(l) = id /\ ByCache(l) = cached

LEMMA KindsAre ==
  ASSUME NEW l, Known(l)
  PROVE  \/ /\ Kind(l, TRUE, FALSE, FALSE, TRUE)
            /\ \/ l.api = "condenser" /\ l.name \in CondenserSorts
               \/ l.api = "bridge" /\ l.name \in RankedSorts
         \/ Kind(l, FALSE, FALSE, FALSE, TRUE) /\ l.name = "pending" /\ l.api = "bridge"
         \/ Kind(l, FALSE, FALSE, FALSE, FALSE) /\ l.name \in DatedLists
         \/ Kind(l, FALSE, FALSE, TRUE, FALSE) /\ l.name \in IdLists
         \/ /\ Kind(l, FALSE, TRUE, FALSE, FALSE) /\ l.api = "condenser"
            /\ l.name \in FollowLists \cup {"reputations"}
<1>1. CASE Ranked(l)
  <2>1. l.name \in RankedSorts
    BY <1>1, ListKinds DEF RankedSorts
  <2>2. ~ById(l)
    BY <2>1 DEF RankedSorts, CondenserSorts, PayoutSorts, ById
  <2> QED BY <1>1, <2>2, ListKinds DEF Kind, ByCache
<1>2. CASE ~Ranked(l)
  BY <1>2, ListKinds DEF Kind, ByCache, ById, OfAccounts, FollowLists, DatedLists, IdLists
<1> QED BY <1>1, <1>2

LEMMA RankedAre ==
  ASSUME NEW l, Kind(l, TRUE, FALSE, FALSE, TRUE), l.name \in RankedSorts, NEW x
  PROVE  /\ l.api = "condenser" => Rows(l, x) = CondenserRows(l.name, l.tag)
         /\ l.api = "bridge" => Rows(l, x) = RankedRows(l.name, l.tag)
         /\ Sought(l) = DOMAIN cache
         /\ \A p : SeekValue(l, p) = Field(l.name, p) /\ Value(l, p) = SeekValue(l, p)
<1>1. /\ Ranked(l) /\ ~OfAccounts(l) /\ ~ById(l) /\ ByCache(l)
  BY DEF Kind
<1>2. l.name \notin {"pending", "blog", "feed", "posts", "comments", "replies", "reputations"}
  BY DEF RankedSorts, CondenserSorts, PayoutSorts
<1>3. l.api = "condenser" => Rows(l, x) = CondenserRows(l.name, l.tag)
  BY <1>1, <1>2 DEF Rows
<1>4. l.api = "bridge" => Rows(l, x) = RankedRows(l.name, l.tag)
  BY <1>1, <1>2 DEF Rows
<1>5. Sought(l) = DOMAIN cache
  BY <1>1, <1>2 DEF Sought
<1>6. ASSUME NEW p PROVE SeekValue(l, p) = Field(l.name, p)
  BY <1>1, <1>2 DEF SeekValue
<1>7. ASSUME NEW p PROVE Value(l, p) = SeekValue(l, p)
  BY <1>2 DEF Value
<1> QED BY <1>3, <1>4, <1>5, <1>6, <1>7

LEMMA PendingAre ==
  ASSUME NEW l, Kind(l, FALSE, FALSE, FALSE, TRUE), l.name = "pending", NEW x
  PROVE  /\ Rows(l, x) = PendingRows(l.account)
         /\ Sought(l) = DOMAIN cache
         /\ \A p : SeekValue(l, p) = Field("payout", p) /\ Value(l, p) = SeekValue(l, p)
<1>1. /\ ~Ranked(l) /\ ~OfAccounts(l) /\ ~ById(l) /\ ByCache(l)
  BY DEF Kind
<1>2. Rows(l, x) = PendingRows(l.account)
  BY <1>1 DEF Rows
<1>3. Sought(l) = DOMAIN cache
  BY <1>1 DEF Sought
<1>4. ASSUME NEW p PROVE SeekValue(l, p) = Field("payout", p)
  BY <1>1 DEF SeekValue
<1>5. ASSUME NEW p PROVE Value(l, p) = SeekValue(l, p)
  BY DEF Value
<1> QED BY <1>2, <1>3, <1>4, <1>5

LEMMA DatedAre ==
  ASSUME NEW l, Kind(l, FALSE, FALSE, FALSE, FALSE), NEW x
  PROVE  /\ l.name = "blog" =>
               /\ Rows(l, x) = BlogRows(l.account)
               /\ Sought(l) = BlogRows(l.account)
               /\ \A p : SeekValue(l, p) = EntryDate(l.account, p) /\ Value(l, p) = SeekValue(l, p)
         /\ l.name = "feed" =>
               /\ Rows(l, x) = FeedRows(l.account)
               /\ Sought(l) = {p \in Ids : EntriesFor(l.account, p) # {}}
               /\ \A p : /\ SeekValue(l, p) = FeedSeekDate(l.account, p)
                         /\ Value(l, p) = FeedDate(l.account, p)
<1>1. /\ ~Ranked(l) /\ ~OfAccounts(l) /\ ~ById(l) /\ ~ByCache(l)
  BY DEF Kind
<1>2. ASSUME l.name = "blog", NEW p
      PROVE  /\ Rows(l, x) = BlogRows(l.account) /\ Sought(l) = BlogRows(l.account)
             /\ SeekValue(l, p) = EntryDate(l.account, p) /\ Value(l, p) = SeekValue(l, p)
  <2>1. Rows(l, x) = BlogRows(l.account)
    BY <1>1, <1>2 DEF Rows
  <2>2. Sought(l) = BlogRows(l.account)
    BY <1>1, <1>2 DEF Sought
  <2>3. SeekValue(l, p) = EntryDate(l.account, p)
    BY <1>1, <1>2 DEF SeekValue
  <2>4. Value(l, p) = SeekValue(l, p)
    BY <1>2 DEF Value
  <2> QED BY <2>1, <2>2, <2>3, <2>4
<1>3. ASSUME l.name = "feed", NEW p
      PROVE  /\ Rows(l, x) = FeedRows(l.account)
             /\ Sought(l) = {q \in Ids : EntriesFor(l.account, q) # {}}
             /\ SeekValue(l, p) = FeedSeekDate(l.account, p)
             /\ Value(l, p) = FeedDate(l.account, p)
  <2>1. Rows(l, x) = FeedRows(l.account)
    BY <1>1, <1>3 DEF Rows
  <2>2. Sought(l) = {q \in Ids : EntriesFor(l.account, q) # {}}
    BY <1>1, <1>3 DEF Sought
  <2>3. SeekValue(l, p) = FeedSeekDate(l.account, p)
    BY <1>1, <1>3 DEF SeekValue
  <2>4. Value(l, p) = FeedDate(l.account, p)
    BY <1>3 DEF Value
  <2> QED BY <2>1, <2>2, <2>3, <2>4
<1> QED BY <1>2, <1>3

LEMMA IdListsAre ==
  ASSUME NEW l, Kind(l, FALSE, FALSE, TRUE, FALSE), l.name \in IdLists, NEW x
  PROVE  /\ Sought(l) = Ids
         /\ \A p : SeekValue(l, p) = p /\ Value(l, p) = p
         /\ l.name = "posts" => Rows(l, x) = TopPostRows(l.account)
         /\ l.name = "comments" => Rows(l, x) = CommentRows(l.account)
         /\ l.name = "replies" => Rows(l, x) = UNION {ReplyRows(a) : a \in Replied(l.account, x)}
<1>1. /\ ~Ranked(l) /\ ~OfAccounts(l) /\ ById(l) /\ ~ByCache(l)
  BY DEF Kind
<1>2. l.name \notin {"pending", "blog", "feed", "reputations"}
  BY DEF IdLists
<1>3. Sought(l) = Ids
  BY <1>1, <1>2 DEF Sought
<1>4. ASSUME NEW p PROVE SeekValue(l, p) = p
  BY <1>1, <1>2 DEF SeekValue
<1>5. ASSUME NEW p PROVE Value(l, p) = p
  BY <1>2, <1>4 DEF Value
<1>6. l.name = "posts" => Rows(l, x) = TopPostRows(l.account)
  BY <1>1, <1>2 DEF Rows
<1>7. l.name = "comments" => Rows(l, x) = CommentRows(l.account)
  BY <1>1, <1>2 DEF Rows
<1>8. l.name = "replies" => Rows(l, x) = UNION {ReplyRows(a) : a \in Replied(l.account, x)}
  BY <1>1, <1>2 DEF Rows
<1> QED BY <1>3, <1>4, <1>5, <1>6, <1>7, <1>8

LEMMA AccountListsAre ==
  ASSUME NEW l, Kind(l, FALSE, TRUE, FALSE, FALSE), NEW x,
         l.name \in FollowLists \cup {"reputations"}
  PROVE  /\ \A p : Value(l, p) = SeekValue(l, p)
         /\ l.name = "reputations" =>
               Rows(l, x) = Accounts /\ Sought(l) = Accounts /\ \A p : SeekValue(l, p) = -p
         /\ l.name # "reputations" =>
               /\ Rows(l, x) = RelationRows(l)
               /\ Sought(l) = {b \in Accounts : Pair(l, b) \in DOMAIN follows}
               /\ \A p : SeekValue(l, p) = follows[Pair(l, p)].at
<1>1. /\ ~Ranked(l) /\ OfAccounts(l) /\ ~ById(l) /\ ~ByCache(l)
  BY DEF Kind
<1>2. l.name \notin {"pending", "blog", "feed", "posts", "comments", "replies"}
  BY DEF FollowLists
<1>3. ASSUME NEW p PROVE Value(l, p) = SeekValue(l, p)
  BY <1>2 DEF Value
<1>4. ASSUME l.name = "reputations", NEW p
      PROVE  Rows(l, x) = Accounts /\ Sought(l) = Accounts /\ SeekValue(l, p) = -p
  <2>1. Rows(l, x) = Accounts
    BY <1>1, <1>4 DEF Rows
  <2>2. Sought(l) = Accounts
    BY <1>1, <1>4 DEF Sought
  <2>3. SeekValue(l, p) = -p
    BY <1>1, <1>4 DEF SeekValue
  <2> QED BY <2>1, <2>2, <2>3
<1>5. ASSUME l.name # "reputations", NEW p
      PROVE  /\ Rows(l, x) = RelationRows(l)
             /\ Sought(l) = {b \in Accounts : Pair(l, b) \in DOMAIN follows}
             /\ SeekValue(l, p) = follows[Pair(l, p)].at
  <2>1. Rows(l, x) = RelationRows(l)
    BY <1>1, <1>2, <1>5 DEF Rows
  <2>2. Sought(l) = {b \in Accounts : Pair(l, b) \in DOMAIN follows}
    BY <1>1, <1>2, <1>5 DEF Sought
  <2>3. SeekValue(l, p) = follows[Pair(l, p)].at
    BY <1>1, <1>2, <1>5 DEF SeekValue
  <2> QED BY <2>1, <2>2, <2>3
<1> QED BY <1>3, <1>4, <1>5

LEMMA EntryDateIs ==
  ASSUME TablesFit, NEW a, NEW p \in BlogRows(a)
  PROVE  p \in Ids /\ EntryDate(a, p) \in Nat
<1>1. \E e \in feed : e.account = a /\ e.post = p
  BY DEF BlogRows, BlogEntries
<1> DEFINE entry == CHOOSE e \in feed : e.account = a /\ e.post = p
<1>2. entry \in feed /\ entry.post = p
  BY <1>1
<1>3. EntryDate(a, p) = entry.at
  BY DEF EntryDate
<1> HIDE DEF entry
<1> QED BY <1>2, <1>3 DEF TablesFit

LEMMA FeedDatesAre ==
  ASSUME TablesFit, NEW a, NEW p, EntriesFor(a, p) # {}
  PROVE  /\ p \in Ids /\ FeedSeekDate(a, p) \in Nat
         /\ Recent(a, p) # {} => FeedDate(a, p) \in Nat
<1> DEFINE S == {e.at : e \in EntriesFor(a, p)}
           R == {e.at : e \in Recent(a, p)}
<1>1. S \subseteq Nat /\ S # {} /\ R \subseteq Nat /\ p \in Ids
  BY DEF EntriesFor, Recent, TablesFit
<1>2. FeedSeekDate(a, p) = Smallest(S) /\ FeedDate(a, p) = Smallest(R)
  BY DEF FeedSeekDate, FeedDate
<1>3. Recent(a, p) # {} => R # {}
  OBVIOUS
<1> HIDE DEF S, R
<1>4. Smallest(S) \in S /\ (R # {} => Smallest(R) \in R)
  BY <1>1, LeastExists
<1> QED BY <1>1, <1>2, <1>3, <1>4

LEMMA SoughtFit ==
  ASSUME TablesFit, NEW l, Known(l), NEW p \in Sought(l)
  PROVE  p \in Nat \ {NoItem} /\ SeekValue(l, p) \in Int
<1>1. Ids \subseteq Nat \ {NoItem} /\ Accounts \subseteq Nat \ {NoItem}
  BY IdsAre, TablesAssumption DEF TablesFit, NoItem, NoAccount
<1>2. CASE Kind(l, TRUE, FALSE, FALSE, TRUE) /\ l.name \in RankedSorts
  BY <1>1, <1>2, RankedAre, FieldIs DEF TablesFit
<1>3. CASE Kind(l, FALSE, FALSE, FALSE, TRUE) /\ l.name = "pending"
  <2>1. "payout" \in RankedSorts
    BY DEF RankedSorts, CondenserSorts, PayoutSorts
  <2> QED BY <1>1, <1>3, <2>1, PendingAre, FieldIs DEF TablesFit
<1>4. CASE Kind(l, FALSE, FALSE, FALSE, FALSE) /\ l.name = "blog"
  <2>1. p \in BlogRows(l.account) /\ SeekValue(l, p) = EntryDate(l.account, p)
    BY <1>4, DatedAre
  <2>2. p \in Ids /\ EntryDate(l.account, p) \in Nat
    BY <2>1, EntryDateIs
  <2> QED BY <1>1, <2>1, <2>2
<1>5. CASE Kind(l, FALSE, FALSE, FALSE, FALSE) /\ l.name = "feed"
  <2>1. EntriesFor(l.account, p) # {} /\ SeekValue(l, p) = FeedSeekDate(l.account, p)
    BY <1>5, DatedAre
  <2>2. p \in Ids /\ FeedSeekDate(l.account, p) \in Nat
    BY <2>1, FeedDatesAre
  <2> QED BY <1>1, <2>1, <2>2
<1>6. CASE Kind(l, FALSE, FALSE, TRUE, FALSE) /\ l.name \in IdLists
  <2>1. p \in Ids /\ SeekValue(l, p) = p
    BY <1>6, IdListsAre
  <2> QED BY <1>1, <2>1
<1>7. CASE Kind(l, FALSE, TRUE, FALSE, FALSE) /\ l.name = "reputations"
  <2>1. p \in Accounts /\ SeekValue(l, p) = -p
    BY <1>7, AccountListsAre
  <2> QED BY <1>1, <2>1
<1>8. CASE Kind(l, FALSE, TRUE, FALSE, FALSE) /\ l.name \in FollowLists \ {"reputations"}
  <2>1. p \in Accounts /\ Pair(l, p) \in DOMAIN follows /\ SeekValue(l, p) = follows[Pair(l, p)].at
    BY <1>8, AccountListsAre
  <2> QED BY <1>1, <2>1 DEF TablesFit
<1> QED BY <1>2, <1>3, <1>4, <1>5, <1>6, <1>7, <1>8, KindsAre DEF DatedLists, RankedSorts

LEMMA RowsFit ==
  ASSUME TablesFit, NEW l, Known(l), NEW x, NEW p \in Rows(l, x)
  PROVE  /\ p \in Sought(l) /\ Value(l, p) \in Int
         /\ OfAccounts(l) => p \in Accounts
         /\ ~OfAccounts(l) => p \in Ids
<1>1. CASE /\ Kind(l, TRUE, FALSE, FALSE, TRUE) /\ l.name \in RankedSorts
           /\ l.api \in {"condenser", "bridge"}
  <2>1. p \in DOMAIN cache
    BY ZenonT(30), <1>1, RankedAre DEF CondenserRows, RankedRows
  <2>2. p \in Sought(l) /\ Value(l, p) = SeekValue(l, p) /\ ~OfAccounts(l) /\ p \in Ids
    BY <1>1, <2>1, RankedAre DEF TablesFit, Kind
  <2> QED BY <2>2, SoughtFit
<1>2. CASE Kind(l, FALSE, FALSE, FALSE, TRUE) /\ l.name = "pending"
  <2>1. p \in DOMAIN cache
    BY <1>2, PendingAre DEF PendingRows
  <2>2. p \in Sought(l) /\ Value(l, p) = SeekValue(l, p) /\ ~OfAccounts(l) /\ p \in Ids
    BY <1>2, <2>1, PendingAre DEF TablesFit, Kind
  <2> QED BY <2>2, SoughtFit
<1>3. CASE Kind(l, FALSE, FALSE, FALSE, FALSE) /\ l.name = "blog"
  <2>1. p \in BlogRows(l.account) /\ p \in Sought(l) /\ Value(l, p) = SeekValue(l, p) /\ ~OfAccounts(l)
    BY <1>3, DatedAre DEF Kind
  <2> QED BY <2>1, EntryDateIs, SoughtFit
<1>4. CASE Kind(l, FALSE, FALSE, FALSE, FALSE) /\ l.name = "feed"
  <2>1. p \in Ids /\ Recent(l.account, p) # {} /\ Value(l, p) = FeedDate(l.account, p)
    BY <1>4, DatedAre DEF FeedRows
  <2>2. EntriesFor(l.account, p) # {}
    BY <2>1 DEF Recent
  <2>3. p \in Sought(l)
    BY <1>4, <2>1, <2>2, DatedAre
  <2> QED BY <1>4, <2>1, <2>2, <2>3, FeedDatesAre DEF Kind
<1>5. CASE Kind(l, FALSE, FALSE, TRUE, FALSE) /\ l.name \in IdLists
  <2>1. p \in Ids
    <3>1. CASE l.name = "posts"
      BY <1>5, <3>1, IdListsAre DEF TopPostRows
    <3>2. CASE l.name = "comments"
      BY <1>5, <3>2, IdListsAre DEF CommentRows
    <3>3. CASE l.name = "replies"
      <4>1. p \in UNION {ReplyRows(a) : a \in Replied(l.account, x)}
        BY <1>5, <3>3, IdListsAre
      <4>2. PICK a : p \in ReplyRows(a)
        BY <4>1
      <4> QED BY <4>2 DEF ReplyRows
    <3> QED BY <1>5, <3>1, <3>2, <3>3 DEF IdLists
  <2>2. p \in Sought(l) /\ Value(l, p) = SeekValue(l, p) /\ ~OfAccounts(l)
    BY <1>5, <2>1, IdListsAre DEF Kind
  <2> QED BY <2>1, <2>2, SoughtFit
<1>6. CASE Kind(l, FALSE, TRUE, FALSE, FALSE) /\ l.name = "reputations"
  <2>1. p \in Accounts /\ p \in Sought(l) /\ Value(l, p) = SeekValue(l, p) /\ OfAccounts(l)
    BY <1>6, AccountListsAre DEF Kind
  <2> QED BY <2>1, SoughtFit
<1>7. CASE Kind(l, FALSE, TRUE, FALSE, FALSE) /\ l.name \in FollowLists \ {"reputations"}
  <2>1. p \in RelationRows(l) /\ Value(l, p) = SeekValue(l, p) /\ OfAccounts(l)
    BY <1>7, AccountListsAre DEF Kind
  <2>2. p \in Accounts /\ p \in Sought(l)
    BY <1>7, <2>1, AccountListsAre DEF RelationRows
  <2> QED BY <2>1, <2>2, SoughtFit
<1> QED BY <1>1, <1>2, <1>3, <1>4, <1>5, <1>6, <1>7, KindsAre DEF DatedLists, RankedSorts

LEMMA RowsFinite ==
  ASSUME TablesFit, NEW l, Known(l), NEW x
  PROVE  IsFiniteSet(Rows(l, x))
<1>1. CASE OfAccounts(l)
  BY <1>1, RowsFit, TablesAssumption, FS_Subset
<1>2. CASE ~OfAccounts(l)
  <2>1. Rows(l, x) \subseteq 1 .. Len(posts) /\ Len(posts) \in Nat
    BY <1>2, RowsFit, IdsAre DEF TablesFit
  <2>2. IsFiniteSet(1 .. Len(posts))
    BY <2>1, FS_Interval
  <2> QED BY <2>1, <2>2, FS_Subset
<1> QED BY <1>1, <1>2

-----------------------------------------------------------------------------
(* Pages: a page is cut from the rows sought, put in order.                 *)

LEMMA SetToSeqsIs ==
  ASSUME NEW S, IsFiniteSet(S), NEW s \in SetToSeqs(S)
  PROVE  /\ Cardinality(S) \in Nat
         /\ s \in [1 .. Cardinality(S) -> S] /\ s \in Seq(S) /\ Len(s) = Cardinality(S)
         /\ \A i, j \in 1 .. Cardinality(S) : i # j => s[i] # s[j]
         /\ \A x \in S : \E i \in 1 .. Cardinality(S) : s[i] = x
<1> DEFINE N == Cardinality(S)
<1>1. N \in Nat
  BY FS_CardinalityType
<1>2. s \in [1 .. N -> S] /\ \A i, j \in 1 .. N : i # j => s[i] # s[j]
  BY DEF SetToSeqs
<1> HIDE DEF N
<1>3. s \in Injection(1 .. N, S)
  BY <1>2, Fun_IsInj
<1>4. IsFiniteSet(1 .. N) /\ Cardinality(1 .. N) = N
  BY <1>1, FS_Interval
<1>5. s \in Surjection(1 .. N, S)
  BY <1>3, <1>4, FS_Injection DEF N
<1>6. \A x \in S : \E i \in 1 .. N : s[i] = x
  BY <1>5 DEF Surjection
<1>7. s \in Seq(S) /\ Len(s) = N
  BY <1>1, <1>2
<1> QED BY <1>1, <1>2, <1>6, <1>7 DEF N

Offset(l, k, n) == IF ByOffset(l) THEN k * n ELSE 0

\* A page of n rows from the o-th on, of rows s in order.
PageOf(l, S, s, rows, o, n) ==
    LET N == Cardinality(S)
    IN  /\ N \in Nat /\ s \in [1 .. N -> S]
        /\ \A i, j \in 1 .. N : i # j => s[i] # s[j]
        /\ \A p \in S : \E i \in 1 .. N : s[i] = p
        /\ \A i, j \in 1 .. N : i < j => ~Before(l, s[j], s[i])
        /\ rows \in Seq(S)
        /\ Len(rows) = IF N <= o THEN 0 ELSE Least(N - o, n)
        /\ \A i \in 1 .. Len(rows) : o + i \in 1 .. N /\ rows[i] = s[o + i]

LEMMA PagesAre ==
  ASSUME NEW l, NEW x, IsFiniteSet(Seek(l, x)), NEW k \in Nat, NEW n \in Nat \ {0},
         NEW rows \in Pages(l, x, k, n)
  PROVE  Offset(l, k, n) \in Nat
         /\ \E s : PageOf(l, Seek(l, x), s, rows, Offset(l, k, n), n)
<1> DEFINE S == Seek(l, x)
           N == Cardinality(S)
           o == Offset(l, k, n)
<1>1. o \in Nat
  BY DEF Offset
<1>2. PICK s \in Sorted(l, S) : rows = Cut(s, o, n)
  BY DEF Pages, Offset
<1>3. s \in SetToSeqs(S) /\ \A i, j \in DOMAIN s : i < j => ~Before(l, s[j], s[i])
  BY <1>2 DEF Sorted
<1> HIDE DEF S, o
<1>4. /\ N \in Nat
      /\ s \in [1 .. N -> S] /\ s \in Seq(S) /\ Len(s) = N
      /\ \A i, j \in 1 .. N : i # j => s[i] # s[j]
      /\ \A p \in S : \E i \in 1 .. N : s[i] = p
  BY <1>3, SetToSeqsIs DEF S
<1>5. \A i, j \in 1 .. N : i < j => ~Before(l, s[j], s[i])
  BY <1>3, <1>4
<1> HIDE DEF N
<1> DEFINE m == Least(N, o + n)
<1>6. rows = SubSeq(s, o + 1, m) /\ m \in Nat /\ m <= N /\ m <= o + n /\ (m = N \/ m = o + n)
  BY <1>1, <1>2, <1>4 DEF Cut, Least
<1> HIDE DEF m
<1>7. \A i \in o + 1 .. m : i \in 1 .. N /\ s[i] \in S
  BY <1>1, <1>4, <1>6
<1>8. /\ rows \in Seq(S)
      /\ Len(rows) = IF o + 1 <= m THEN m - (o + 1) + 1 ELSE 0
      /\ \A i \in 1 .. m - (o + 1) + 1 : rows[i] = s[o + 1 + i - 1]
  BY <1>1, <1>6, <1>7, SubSeqProperties
<1>9. Len(rows) = IF N <= o THEN 0 ELSE Least(N - o, n)
  BY <1>1, <1>4, <1>6, <1>8 DEF Least
<1>10. ASSUME NEW i \in 1 .. Len(rows) PROVE o + i \in 1 .. N /\ rows[i] = s[o + i]
  <2>1. o + 1 <= m /\ i \in 1 .. m - o /\ i \in Nat
    BY <1>1, <1>6, <1>8
  <2>2. rows[i] = s[o + 1 + i - 1] /\ o + 1 + i - 1 = o + i
    BY <1>1, <1>6, <1>8, <2>1
  <2>3. o + i \in 1 .. N
    BY <1>1, <1>4, <1>6, <2>1
  <2> QED BY <2>2, <2>3
<1>11. PageOf(l, S, s, rows, o, n)
  BY <1>4, <1>5, <1>8, <1>9, <1>10 DEF PageOf, N
<1> QED BY <1>1, <1>11 DEF S, o

LEMMA SeekFit ==
  ASSUME TablesFit, NEW l, Known(l), NEW x
  PROVE  Seek(l, x) \subseteq Rows(l, x) /\ IsFiniteSet(Seek(l, x))
<1>1. Seek(l, x) \subseteq Rows(l, x)
  BY DEF Seek
<1> QED BY <1>1, RowsFinite, FS_Subset

LEMMA FirstAre ==
  ASSUME TablesFit, NEW l, NEW x, NEW first \in SetToSeqs(FirstPosts(l, x))
  PROVE  /\ FirstPosts(l, x) \subseteq Ids
         /\ first \in Seq(FirstPosts(l, x))
         /\ FirstPosts(l, x) # {} => Exact(l) /\ ~ByOffset(l) /\ x = NoItem
<1>1. FirstPosts(l, x) \subseteq Ids
  BY DEF FirstPosts
<1>2. IsFiniteSet(FirstPosts(l, x))
  <2>1. IsFiniteSet(1 .. Len(posts)) /\ FirstPosts(l, x) \subseteq 1 .. Len(posts)
    BY <1>1, IdsAre, FS_Interval DEF TablesFit
  <2> QED BY <2>1, FS_Subset
<1>3. first \in Seq(FirstPosts(l, x))
  BY <1>2, SetToSeqsIs
<1>4. FirstPosts(l, x) # {} => Exact(l) /\ ~ByOffset(l) /\ x = NoItem
  BY DEF FirstPosts, Exact, ByOffset, ByCache
<1> QED BY <1>1, <1>3, <1>4

-----------------------------------------------------------------------------
(* Steps that leave the tables alone leave the lists alone. *)

LEMMA SameLists ==
  ASSUME UNCHANGED <<tableVars, list>>
  PROVE  /\ \A p : Value(list, p)' = Value(list, p) /\ SeekValue(list, p)' = SeekValue(list, p)
         /\ Sought(list)' = Sought(list) /\ Visible(list)' = Visible(list)
         /\ \A p : Replied(list.account, p)' = Replied(list.account, p)
         /\ Closed(list)' <=> Closed(list)
         /\ Exact(list)' <=> Exact(list)
         /\ ByOffset(list)' <=> ByOffset(list)
<1>1. ASSUME NEW p PROVE SeekValue(list, p)' = SeekValue(list, p)
  BY DEF tableVars, tables, SeekValue, Field, EntryDate, FeedSeekDate, EntriesFor, Follows,
         Smallest, Pair, ById, OfAccounts, Ranked
<1>2. ASSUME NEW p PROVE Value(list, p)' = Value(list, p)
  BY <1>1 DEF tableVars, tables, Value, FeedDate, EntriesFor, Recent, Follows, Smallest
<1>3. Rows(list, NoItem)' = Rows(list, NoItem)
  BY DEF Rows, tableVars, tables, CondenserRows, RankedRows, PendingRows, BlogRows, BlogEntries,
         FeedRows, Recent, EntriesFor, Follows, TopPostRows, CommentRows, ReplyRows, Replied,
         RelationRows, Pair, Relations, Ids, Live, HiddenAuthors, Ranked, OfAccounts
<1>4. ASSUME NEW p PROVE Shown(list, p)' <=> Shown(list, p)
  BY DEF tableVars, tables, Shown, Has, Filtered, OfAccounts
<1>5. Visible(list)' = Visible(list)
  BY <1>3, <1>4 DEF Visible
<1>6. Sought(list)' = Sought(list)
  BY DEF tableVars, tables, Sought, BlogRows, BlogEntries, EntriesFor, Follows, Pair, Ids,
         ById, ByCache, Ranked, OfAccounts
<1>7. ASSUME NEW p PROVE Replied(list.account, p)' = Replied(list.account, p)
  BY DEF tableVars, tables, Replied
<1>8. /\ Closed(list)' <=> Closed(list)
      /\ Exact(list)' <=> Exact(list)
      /\ ByOffset(list)' <=> ByOffset(list)
  BY DEF tableVars, tables, Closed, Exact, ByOffset, ByCache, Ranked
<1> QED BY <1>1, <1>2, <1>5, <1>6, <1>7, <1>8

-----------------------------------------------------------------------------
(* The walk. *)

V(p) == Value(list, p)
SV(p) == SeekValue(list, p)

\* Where p, which stays, stands to q, which a page may go on from.
Beyond(p, q) == V(p) < SV(q) \/ (V(p) = SV(q) /\ (Exact(list) => p > q))
UpTo(p, q) == V(p) > SV(q) \/ (V(p) = SV(q) /\ (Exact(list) => p <= q))

Typed ==
    /\ TablesFit
    /\ phase \in {"idle", "ask", "load", "done"}
    /\ list \in Walks /\ limit \in Limits /\ start \in Nat /\ number \in Nat
    /\ page \in Seq(Nat \ {NoItem})
    /\ seen \subseteq Nat /\ IsFiniteSet(seen)
    /\ full \in BOOLEAN /\ lost \in BOOLEAN

\* What is watched is in the list, and where it was.
WatchInv ==
    /\ phase = "idle" => calm = {} /\ seen = {} /\ again = {} /\ number = 0
    /\ steady \subseteq Visible(list)
    /\ Closed(list) => steady = {}
    /\ calm \subseteq Sought(list)
    /\ \A p \in steady \cap calm : V(p) = SV(p)
    /\ list.name = "replies" /\ ~lost =>
          \A q \in calm : Replied(list.account, q) = {list.account}

Fresh == phase \in {"ask", "load"} /\ start = NoItem

\* Before a page is asked for, what has been given ends with its start.
AskInv ==
    phase = "ask" /\ start \in calm =>
        \A p \in steady : IF p \in seen THEN p \in ahead \/ UpTo(p, start)
                                        ELSE Beyond(p, start)

\* A page goes on where what has been given ends, is in order, and leaves out
\* nothing before its rows.
LoadInv ==
    phase = "load" =>
        /\ full => page # <<>>
        /\ \A p \in steady \ (seen \cup ToSet(page)) :
              full /\ \A q \in ToSet(page) \cap calm : Beyond(p, q)
        /\ \A p \in (steady \cap seen) \ ahead :
              \A q \in ToSet(page) \cap calm : UpTo(p, q)
        /\ \A i, j \in DOMAIN page :
              i < j /\ page[i] \in steady \ ahead /\ page[j] \in calm => UpTo(page[i], page[j])
        /\ Exact(list) => \A p \in steady : p \in ToSet(page) /\ p \in seen => p \in ahead
        /\ ~Exact(list) /\ start \in steady =>
              \A p \in steady : /\ p \in ToSet(page) => V(p) <= V(start)
                                /\ p \in seen => V(p) >= V(start)

SeekInv ==
    ~ByOffset(list) /\ ~lost =>
        /\ Fresh => seen = {}
        /\ AskInv
        /\ LoadInv
        /\ Exact(list) => again \cap steady \subseteq ahead
        /\ ~Exact(list) => ahead = {}

\* Offsets: what has been given is what comes first, and as much as the offset
\* says, or all.
First(S) == \A p \in S \cap steady, q \in steady \ S : V(p) > V(q)

OffsetInv ==
    ByOffset(list) /\ ~lost =>
        /\ phase = "ask" =>
              /\ First(seen)
              /\ \/ Cardinality(seen) = number * limit
                 \/ Cardinality(seen) <= number * limit /\ steady \subseteq seen
        /\ phase = "load" =>
              /\ ToSet(page) \cap seen = {}
              /\ full => page # <<>>
              /\ First(seen \cup ToSet(page))
              /\ IF full
                 THEN Cardinality(seen \cup ToSet(page)) = (number + 1) * limit
                 ELSE /\ Cardinality(seen \cup ToSet(page)) <= (number + 1) * limit
                      /\ steady \subseteq seen \cup ToSet(page)

PageInv ==
    /\ Typed
    /\ WatchInv
    /\ SeekInv
    /\ OffsetInv
    /\ WalkComplete

LEMMA ListKnown ==
  ASSUME Typed
  PROVE  /\ Known(list) /\ limit \in Nat \ {0}
         /\ Exact(list) => ~ByOffset(list)
         /\ ByOffset(list) => OfAccounts(list)
<1>1. Known(list)
  BY PagingAssumption DEF Typed, Known
<1>2. limit \in Nat \ {0}
  BY PagingAssumption DEF Typed
<1>3. ByOffset(list) => OfAccounts(list)
  BY DEF ByOffset, OfAccounts, FollowLists
<1>4. Exact(list) => ~ByOffset(list)
  BY <1>1, <1>3, KindsAre DEF Exact, Kind
<1> QED BY <1>1, <1>2, <1>3, <1>4

\* What is compared is a number.
LEMMA Numbers ==
  ASSUME Typed, WatchInv
  PROVE  /\ \A p \in steady : V(p) \in Int /\ p \in Nat \ {NoItem} /\ p \in Rows(list, NoItem) /\ Shown(list, p)
         /\ \A q \in calm : SV(q) \in Int /\ q \in Nat \ {NoItem}
<1>1. TablesFit /\ Known(list)
  BY ListKnown DEF Typed
<1>2. ASSUME NEW p \in steady
      PROVE  V(p) \in Int /\ p \in Nat \ {NoItem} /\ p \in Rows(list, NoItem) /\ Shown(list, p)
  <2>1. p \in Rows(list, NoItem) /\ Shown(list, p)
    BY DEF WatchInv, Visible
  <2>2. p \in Sought(list) /\ Value(list, p) \in Int
    BY <1>1, <2>1, RowsFit
  <2> QED BY <1>1, <2>1, <2>2, SoughtFit DEF V
<1>3. ASSUME NEW q \in calm PROVE SV(q) \in Int /\ q \in Nat \ {NoItem}
  <2>1. q \in Sought(list)
    BY DEF WatchInv
  <2> QED BY <1>1, <2>1, SoughtFit DEF SV
<1> QED BY <1>2, <1>3

LEMMA InitOK == Init => PageInv
<1> SUFFICES ASSUME Init PROVE PageInv
  OBVIOUS
<1>1. TablesFit
  <2>1. Sequence(<<>>)
    <3>1. <<>> \in Seq(Nat)
      OBVIOUS
    <3> QED BY <3>1 DEF Sequence
  <2> QED BY <2>1 DEF Init, TablesInit, TablesFit
<1>2. Typed
  <2>1. <<>> \in Seq(Nat \ {NoItem}) /\ {} \subseteq Nat /\ IsFiniteSet({}) /\ 0 \in Nat
    BY FS_EmptySet
  <2> QED BY <1>1, <2>1 DEF Init, Typed, NoItem
<1>3. WatchInv
  BY DEF Init, WatchInv
<1>4. SeekInv
  BY DEF Init, SeekInv, AskInv, LoadInv
<1>5. OffsetInv
  BY DEF Init, OffsetInv
<1>6. WalkComplete
  BY DEF Init, WalkComplete
<1> QED BY <1>2, <1>3, <1>4, <1>5, <1>6 DEF PageInv

\* Steps that change neither the tables nor what is watched.
LEMMA SameValues ==
  ASSUME UNCHANGED <<tableVars, list>>
  PROVE  /\ \A p : V(p)' = V(p) /\ SV(p)' = SV(p)
         /\ \A p, q : (Beyond(p, q)' <=> Beyond(p, q)) /\ (UpTo(p, q)' <=> UpTo(p, q))
<1>1. \A p : V(p)' = V(p) /\ SV(p)' = SV(p)
  BY SameLists DEF V, SV
<1>2. Exact(list)' <=> Exact(list)
  BY SameLists
<1> QED BY <1>1, <1>2 DEF Beyond, UpTo

LEMMA SameWatch ==
  ASSUME WatchInv, UNCHANGED <<tableVars, list, steady, calm>>, lost => lost',
         phase' # "idle"
  PROVE  WatchInv'
BY SameLists, SameValues DEF WatchInv

LEMMA SameFit ==
  ASSUME TablesFit, UNCHANGED tableVars
  PROVE  TablesFit'
BY DEF TablesFit, tableVars, tables, Ids, Sequence

LEMMA BeginOK ==
  ASSUME PageInv, Begin
  PROVE  PageInv'
<1>1. Typed'
  BY SameFit DEF PageInv, Begin, Typed
<1>2. WatchInv'
  <2>1. UNCHANGED <<tableVars, list, calm, lost>>
    BY DEF Begin
  <2>2. steady' = IF Closed(list) THEN {} ELSE Visible(list)
    BY DEF Begin
  <2>3. calm = {}
    BY DEF PageInv, WatchInv, Begin
  <2>4. calm' = {} /\ phase' = "ask"
    BY <2>1, <2>3 DEF Begin
  <2>5. steady' \subseteq Visible(list)' /\ (Closed(list)' => steady' = {})
    BY <2>1, <2>2, SameLists
  <2> QED BY <2>4, <2>5 DEF WatchInv
<1>3. /\ phase' = "ask" /\ seen' = {} /\ again' = {} /\ calm' = {} /\ number' = 0
      /\ UNCHANGED <<tableVars, list, limit, ahead, full, lost>>
  BY DEF PageInv, WatchInv, Begin
<1>4. SeekInv'
  <2>1. (Exact(list)' <=> Exact(list)) /\ (ByOffset(list)' <=> ByOffset(list))
    BY <1>3, SameLists
  <2> QED BY <1>3, <2>1 DEF PageInv, SeekInv, AskInv, LoadInv, Fresh
<1>5. OffsetInv'
  <2>1. limit \in Nat /\ 0 * limit = 0
    BY ListKnown DEF PageInv
  <2>2. Cardinality(seen') = number' * limit'
    BY <1>3, <2>1, FS_EmptySet
  <2>3. First(seen)'
    BY <1>3 DEF First
  <2> QED BY <1>3, <2>2, <2>3 DEF OffsetInv
<1>6. WalkComplete'
  BY <1>3 DEF WalkComplete
<1> QED BY <1>1, <1>2, <1>4, <1>5, <1>6 DEF PageInv

LEMMA TablesOK ==
  ASSUME PageInv, TablesStep
  PROVE  PageInv'
<1>1. /\ phase # "done" /\ UNCHANGED walk
      /\ steady' = {p \in steady : /\ p \in Visible(list)' /\ Value(list, p)' = Value(list, p)
                                   /\ ~Closed(list)'}
      /\ calm' = {p \in calm : /\ p \in Sought(list)' /\ SeekValue(list, p)' = SeekValue(list, p)
                               /\ list.name = "replies" => Replied(list.account, p)'
                                                            = Replied(list.account, p)}
  BY DEF TablesStep
<1>2. /\ UNCHANGED <<phase, list, limit, start, number, page, seen, again, ahead, full, lost>>
      /\ steady' \subseteq steady /\ calm' \subseteq calm
      /\ \A p \in steady' : V(p)' = V(p)
      /\ \A p \in calm' : SV(p)' = SV(p)
  BY <1>1 DEF walk, V, SV
<1>3. /\ Exact(list)' <=> Exact(list)
      /\ ByOffset(list)' <=> ByOffset(list)
  BY <1>2 DEF Exact, ByOffset, ByCache, Ranked
<1>4. Typed'
  BY <1>2, TablesStayFit DEF TablesStep, PageInv, Typed
<1>5. WatchInv'
  <2>1. steady' \subseteq Visible(list)' /\ (Closed(list)' => steady' = {}) /\ calm' \subseteq Sought(list)'
    BY <1>1
  <2>2. \A p \in steady' \cap calm' : V(p)' = SV(p)'
    BY <1>2 DEF PageInv, WatchInv
  <2>3. list'.name = "replies" /\ ~lost' =>
          \A q \in calm' : Replied(list.account, q)' = {list'.account}
    BY <1>1, <1>2 DEF PageInv, WatchInv
  <2>4. phase' = "idle" => calm' = {} /\ seen' = {} /\ again' = {} /\ number' = 0
    BY <1>2 DEF PageInv, WatchInv
  <2> QED BY <1>2, <2>1, <2>2, <2>3, <2>4 DEF WatchInv
<1>6. \A p \in steady', q \in calm' :
        (Beyond(p, q)' <=> Beyond(p, q)) /\ (UpTo(p, q)' <=> UpTo(p, q))
  BY <1>2, <1>3 DEF Beyond, UpTo
<1>7. SeekInv'
  <2>1. SUFFICES ASSUME ~ByOffset(list)', ~lost'
                 PROVE  /\ Fresh' => seen' = {}
                        /\ AskInv' /\ LoadInv'
                        /\ Exact(list)' => again' \cap steady' \subseteq ahead'
                        /\ ~Exact(list)' => ahead' = {}
    BY DEF SeekInv
  <2>2. /\ Fresh => seen = {}
        /\ AskInv /\ LoadInv
        /\ Exact(list) => again \cap steady \subseteq ahead
        /\ ~Exact(list) => ahead = {}
    BY <1>2, <1>3, <2>1 DEF PageInv, SeekInv
  <2>3. AskInv'
    BY <1>2, <1>6, <2>2 DEF AskInv
  <2>4. LoadInv'
    <3>1. SUFFICES ASSUME phase = "load" PROVE LoadInv'
      BY <1>2 DEF LoadInv
    <3>2. full' => page' # <<>>
      BY <1>2, <2>2, <3>1 DEF LoadInv
    <3>3. \A p \in steady' \ (seen' \cup ToSet(page)') :
              full' /\ \A q \in ToSet(page)' \cap calm' : Beyond(p, q)'
      BY <1>2, <1>6, <2>2, <3>1 DEF LoadInv
    <3>4. \A p \in (steady' \cap seen') \ ahead' :
              \A q \in ToSet(page)' \cap calm' : UpTo(p, q)'
      BY <1>2, <1>6, <2>2, <3>1 DEF LoadInv
    <3>5. ASSUME NEW i \in DOMAIN page', NEW j \in DOMAIN page',
                 i < j /\ page'[i] \in steady' \ ahead' /\ page'[j] \in calm'
          PROVE  UpTo(page[i], page[j])'
      <4>1. UpTo(page[i], page[j])
        BY <1>2, <2>2, <3>1, <3>5 DEF LoadInv
      <4>2. V(page[i])' = V(page[i]) /\ SV(page[j])' = SV(page[j])
        BY <1>1, <1>2, <3>5 DEF V, SV
      <4> QED BY <1>2, <1>3, <4>1, <4>2 DEF UpTo
    <3>6. Exact(list)' => \A p \in steady' : p \in ToSet(page)' /\ p \in seen' => p \in ahead'
      BY <1>2, <1>3, <2>2, <3>1 DEF LoadInv
    <3>7. ASSUME ~Exact(list)', start' \in steady', NEW p \in steady'
          PROVE  /\ p \in ToSet(page)' => V(p)' <= V(start)'
                 /\ p \in seen' => V(p)' >= V(start)'
      <4>1. V(start)' = V(start)
        BY <1>1, <1>2, <3>7 DEF V
      <4> QED BY <1>2, <1>3, <2>2, <3>1, <3>7, <4>1 DEF LoadInv
    <3> QED BY <3>1, <3>2, <3>3, <3>4, <3>5, <3>6, <3>7 DEF LoadInv
  <2> QED BY <1>2, <1>3, <2>2, <2>3, <2>4 DEF Fresh
<1>8. OffsetInv'
  <2>1. (First(seen) => First(seen)') /\ (First(seen \cup ToSet(page)) => First(seen \cup ToSet(page))')
    BY <1>2 DEF First
  <2> QED BY <1>2, <1>3, <2>1 DEF PageInv, OffsetInv
<1>9. WalkComplete'
  BY <1>1, <1>2 DEF WalkComplete
<1> QED BY <1>4, <1>5, <1>7, <1>8, <1>9 DEF PageInv

\* The posts given of the page loaded.
Places == {i \in DOMAIN page : /\ Shown(list, page[i])
                               /\ \A j \in 1 .. i - 1 : page[j] # page[i]}
Given == {page[i] : i \in Places}

LEMMA GivenIs ==
  ASSUME Typed, WatchInv
  PROVE  /\ Len(page) \in Nat /\ DOMAIN page = 1 .. Len(page)
         /\ \A i \in DOMAIN page : page[i] \in Nat \ {NoItem} /\ page[i] \in ToSet(page)
         /\ Given \subseteq ToSet(page) /\ IsFiniteSet(ToSet(page)) /\ ToSet(page) \subseteq Nat
         /\ \A p \in steady : p \in ToSet(page) => p \in Given
         /\ Given # {} => /\ Max(Places) \in Places
                          /\ \A i \in Places : i <= Max(Places)
         /\ OfAccounts(list) => Given = ToSet(page)
<1>1. Len(page) \in Nat /\ DOMAIN page = 1 .. Len(page) /\ page \in Seq(Nat \ {NoItem})
  BY DEF Typed
<1>2. \A i \in DOMAIN page : page[i] \in Nat \ {NoItem} /\ page[i] \in ToSet(page)
  BY <1>1, ElementOfSeq DEF ToSet
<1>3. Given \subseteq ToSet(page) /\ ToSet(page) \subseteq Nat
  BY <1>2 DEF Given, Places, ToSet
<1>4. ASSUME NEW p \in ToSet(page), Shown(list, p) PROVE p \in Given
  <2> DEFINE at == {i \in DOMAIN page : page[i] = p}
  <2>1. at \subseteq Nat /\ at # {}
    BY <1>1 DEF ToSet
  <2>2. PICK i \in at : \A j \in at : i <= j
    BY <2>1, LeastExists
  <2>3. \A j \in 1 .. i - 1 : page[j] # page[i]
    BY <1>1, <2>2
  <2> QED BY <1>4, <2>2, <2>3 DEF Given, Places
<1>5. \A p \in steady : p \in ToSet(page) => p \in Given
  BY <1>4, Numbers
<1>6. Given # {} => Max(Places) \in Places /\ \A i \in Places : i <= Max(Places)
  <2>1. Places \in SUBSET (1 .. Len(page)) /\ (Given # {} => Places # {})
    BY <1>1 DEF Given, Places
  <2> QED BY <1>1, <2>1, MaxExists
<1>7. OfAccounts(list) => Given = ToSet(page)
  BY <1>3, <1>4 DEF Shown
<1>8. IsFiniteSet(ToSet(page))
  <2>1. page \in [1 .. Len(page) -> ToSet(page)] /\ \A t \in ToSet(page) : \E i \in 1 .. Len(page) : page[i] = t
    BY <1>1, <1>2 DEF ToSet
  <2>2. page \in Surjection(1 .. Len(page), ToSet(page))
    BY <2>1 DEF Surjection
  <2> QED BY <1>1, <2>2, FS_Interval, FS_Surjection
<1> QED BY <1>1, <1>2, <1>3, <1>5, <1>6, <1>7, <1>8

LEMMA LoadIs ==
  ASSUME Load
  PROVE  /\ phase = "load" /\ seen' = seen \cup Given
         /\ again' = again \cup (Given \cap seen)
         /\ IF Given \subseteq seen
            THEN phase' = "done" /\ UNCHANGED <<start, number>>
            ELSE phase' = "ask" /\ start' = page[Max(Places)] /\ number' = number + 1
         /\ page' = <<>>
         /\ UNCHANGED <<tableVars, list, limit, ahead, full, lost, steady, calm>>
BY DEF Load, Places, Given

LEMMA LoadSeek ==
  ASSUME PageInv, Load, ~ByOffset(list), ~lost
  PROVE  /\ phase' = "ask" => /\ start' # NoItem
                              /\ start' \in calm => \A p \in steady :
                                    IF p \in seen' THEN p \in ahead \/ UpTo(p, start')
                                                   ELSE Beyond(p, start')
         /\ phase' = "done" /\ ~full => steady \subseteq seen'
         /\ Exact(list) => again' \cap steady \subseteq ahead
         /\ phase' = "done" /\ full /\ ToSet(page) \cup ({start} \ {NoItem}) \subseteq steady =>
               IF Exact(list) THEN ToSet(page) \subseteq ahead
               ELSE start # NoItem /\ \A p \in ToSet(page) : V(p) = V(start)
<1>1. /\ Fresh => seen = {}
      /\ LoadInv
      /\ Exact(list) => again \cap steady \subseteq ahead
      /\ ~Exact(list) => ahead = {}
      /\ Typed /\ WatchInv
  BY DEF PageInv, SeekInv
<1>2. /\ phase = "load" /\ seen' = seen \cup Given
      /\ again' = again \cup (Given \cap seen)
      /\ IF Given \subseteq seen
         THEN phase' = "done" /\ UNCHANGED <<start, number>>
         ELSE phase' = "ask" /\ start' = page[Max(Places)] /\ number' = number + 1
  BY LoadIs
<1>3. /\ Len(page) \in Nat /\ DOMAIN page = 1 .. Len(page)
      /\ \A i \in DOMAIN page : page[i] \in Nat \ {NoItem} /\ page[i] \in ToSet(page)
      /\ Given \subseteq ToSet(page)
      /\ \A p \in steady : p \in ToSet(page) => p \in Given
      /\ Given # {} => /\ Max(Places) \in Places
                       /\ \A i \in Places : i <= Max(Places)
  BY <1>1, GivenIs
<1>4. /\ full => page # <<>>
      /\ \A p \in steady \ (seen \cup ToSet(page)) :
            full /\ \A q \in ToSet(page) \cap calm : Beyond(p, q)
      /\ \A p \in (steady \cap seen) \ ahead :
            \A q \in ToSet(page) \cap calm : UpTo(p, q)
      /\ \A i, j \in DOMAIN page :
            i < j /\ page[i] \in steady \ ahead /\ page[j] \in calm => UpTo(page[i], page[j])
      /\ Exact(list) => \A p \in steady : p \in ToSet(page) /\ p \in seen => p \in ahead
      /\ ~Exact(list) /\ start \in steady =>
            \A p \in steady : /\ p \in ToSet(page) => V(p) <= V(start)
                              /\ p \in seen => V(p) >= V(start)
  BY <1>1, <1>2 DEF LoadInv
<1>5. ASSUME phase' = "ask", start' \in calm, NEW p \in steady
      PROVE  IF p \in seen' THEN p \in ahead \/ UpTo(p, start') ELSE Beyond(p, start')
  <2> DEFINE m == Max(Places)
             q == page[m]
  <2>1. /\ m \in Places /\ (\A i \in Places : i <= m) /\ start' = q
    BY <1>2, <1>3, <1>5
  <2>2. m \in DOMAIN page /\ q \in ToSet(page) \cap calm
    BY <1>3, <1>5, <2>1 DEF Places
  <2> HIDE DEF m
  <2>3. CASE p \notin seen'
    <3>1. p \notin seen \cup ToSet(page)
      BY <1>2, <1>3, <2>3
    <3> QED BY <1>4, <2>1, <2>2, <2>3, <3>1
  <2>4. CASE p \in seen /\ p \notin ahead
    BY <1>2, <1>4, <2>1, <2>2, <2>4
  <2>5. CASE p \in Given /\ p \notin ahead
    <3>1. PICK i \in Places : page[i] = p
      BY <2>5 DEF Given
    <3>2. i \in DOMAIN page /\ i <= m /\ i \in Nat /\ m \in Nat
      BY <1>3, <2>1, <2>2, <3>1 DEF Places
    <3>3. CASE i < m
      BY <1>2, <1>4, <2>1, <2>2, <2>5, <3>1, <3>2, <3>3
    <3>4. CASE i = m
      <4>1. p = start' /\ V(p) = SV(p) /\ p \in Nat
        BY <1>1, <1>5, <2>1, <3>1, <3>4, Numbers DEF WatchInv
      <4> QED BY <1>2, <2>5, <4>1 DEF UpTo
    <3> QED BY <3>2, <3>3, <3>4
  <2> QED BY <1>2, <2>3, <2>4, <2>5
<1>6. phase' = "ask" => start' # NoItem
  <2>1. Given # {} => Max(Places) \in DOMAIN page
    BY <1>3 DEF Places
  <2> QED BY <1>2, <1>3, <2>1
<1>7. phase' = "done" /\ ~full => steady \subseteq seen'
  BY <1>2, <1>3, <1>4
<1>8. Exact(list) => again' \cap steady \subseteq ahead
  BY <1>1, <1>2, <1>3, <1>4
<1>9. ASSUME phase' = "done", full, ToSet(page) \cup ({start} \ {NoItem}) \subseteq steady
      PROVE  IF Exact(list) THEN ToSet(page) \subseteq ahead
             ELSE start # NoItem /\ \A p \in ToSet(page) : V(p) = V(start)
  <2>1. Given \subseteq seen /\ ToSet(page) \subseteq seen
    BY <1>2, <1>3, <1>9
  <2>2. ToSet(page) # {}
    <3>1. Len(page) # 0
      BY <1>1, <1>4, <1>9 DEF Typed
    <3> QED BY <1>3, <3>1
  <2>3. CASE Exact(list)
    BY <1>4, <1>9, <2>1, <2>3
  <2>4. CASE ~Exact(list)
    <3>1. start # NoItem
      BY <1>1, <1>2, <2>1, <2>2 DEF Fresh
    <3>2. start \in steady /\ V(start) \in Int
      BY <1>1, <1>9, <3>1, Numbers
    <3>3. ASSUME NEW p \in ToSet(page) PROVE V(p) = V(start)
      <4>1. p \in steady /\ p \in seen /\ V(p) \in Int
        BY <1>1, <1>9, <2>1, Numbers
      <4> QED BY <1>4, <2>4, <3>2, <4>1
    <3> QED BY <2>4, <3>1, <3>3
  <2> QED BY <2>3, <2>4
<1> QED BY <1>5, <1>6, <1>7, <1>8, <1>9

LEMMA LoadOffset ==
  ASSUME PageInv, Load, ByOffset(list), ~lost
  PROVE  /\ phase' = "ask" =>
               /\ First(seen')
               /\ \/ Cardinality(seen') = number' * limit
                  \/ Cardinality(seen') <= number' * limit /\ steady \subseteq seen'
         /\ phase' = "done" => ~full /\ steady \subseteq seen'
<1>1. Typed /\ WatchInv /\ OffsetInv /\ OfAccounts(list)
  BY ListKnown DEF PageInv
<1>2. /\ phase = "load" /\ seen' = seen \cup Given
      /\ IF Given \subseteq seen
         THEN phase' = "done" /\ UNCHANGED <<start, number>>
         ELSE phase' = "ask" /\ number' = number + 1
  BY LoadIs
<1>3. Given = ToSet(page) /\ (page # <<>> => ToSet(page) # {})
  <2>1. Given = ToSet(page)
    BY <1>1, GivenIs
  <2>2. page # <<>> => Len(page) # 0
    BY <1>1 DEF Typed
  <2> QED BY <1>1, <2>1, <2>2, GivenIs
<1>4. /\ ToSet(page) \cap seen = {}
      /\ full => page # <<>>
      /\ First(seen \cup ToSet(page))
      /\ IF full
         THEN Cardinality(seen \cup ToSet(page)) = (number + 1) * limit
         ELSE /\ Cardinality(seen \cup ToSet(page)) <= (number + 1) * limit
              /\ steady \subseteq seen \cup ToSet(page)
  BY <1>1, <1>2 DEF OffsetInv
<1>5. phase' = "done" => ToSet(page) = {}
  BY <1>2, <1>3, <1>4
<1>6. seen' = seen \cup ToSet(page)
  BY <1>2, <1>3
<1>7. CASE phase' = "ask"
  BY <1>2, <1>4, <1>6, <1>7 DEF First
<1>8. CASE phase' = "done"
  BY <1>3, <1>4, <1>5, <1>6, <1>8
<1> QED BY <1>2, <1>7, <1>8

LEMMA LoadOK ==
  ASSUME PageInv, Load
  PROVE  PageInv'
<1>1. /\ phase = "load" /\ seen' = seen \cup Given
      /\ again' = again \cup (Given \cap seen)
      /\ phase' \in {"ask", "done"}
      /\ IF Given \subseteq seen
         THEN phase' = "done" /\ UNCHANGED <<start, number>>
         ELSE phase' = "ask" /\ start' = page[Max(Places)] /\ number' = number + 1
      /\ page' = <<>>
      /\ UNCHANGED <<tableVars, list, limit, ahead, full, lost, steady, calm>>
  BY LoadIs
<1>2. Typed'
  <2>1. TablesFit'
    BY <1>1, SameFit DEF PageInv, Typed
  <2>2. Typed /\ WatchInv
    BY DEF PageInv
  <2>3. seen' \subseteq Nat /\ IsFiniteSet(seen')
    <3>1. Given \subseteq Nat /\ IsFiniteSet(Given) /\ seen \subseteq Nat /\ IsFiniteSet(seen)
      BY <2>2, GivenIs, FS_Subset DEF Typed
    <3> QED BY <1>1, <3>1, FS_Union
  <2>4. start' \in Nat /\ number' \in Nat
    <3>1. start \in Nat /\ number \in Nat
      BY <2>2 DEF Typed
    <3>2. Given # {} => page[Max(Places)] \in Nat
      BY <2>2, GivenIs DEF Places
    <3> QED BY <1>1, <3>1, <3>2
  <2>5. page' \in Seq(Nat \ {NoItem})
    BY <1>1
  <2> QED BY <1>1, <2>1, <2>2, <2>3, <2>4, <2>5 DEF Typed
<1>3. WatchInv'
  BY <1>1, SameWatch DEF PageInv
<1>4. (Exact(list)' <=> Exact(list)) /\ (ByOffset(list)' <=> ByOffset(list))
  BY <1>1, SameLists
<1>5. SeekInv'
  <2>1. SUFFICES ASSUME ~ByOffset(list), ~lost
                 PROVE  /\ Fresh' => seen' = {}
                        /\ AskInv' /\ LoadInv'
                        /\ Exact(list)' => again' \cap steady' \subseteq ahead'
                        /\ ~Exact(list)' => ahead' = {}
    BY <1>1, <1>4 DEF SeekInv
  <2>2. /\ phase' = "ask" => /\ start' # NoItem
                             /\ start' \in calm => \A p \in steady :
                                   IF p \in seen' THEN p \in ahead \/ UpTo(p, start')
                                                  ELSE Beyond(p, start')
        /\ Exact(list) => again' \cap steady \subseteq ahead
    BY <2>1, LoadSeek
  <2>3. ~Exact(list) => ahead = {}
    BY <2>1 DEF PageInv, SeekInv
  <2>4. LoadInv'
    BY <1>1 DEF LoadInv
  <2>5. ~Fresh'
    BY <1>1, <2>2 DEF Fresh
  <2>6. ASSUME phase' = "ask", start' \in calm', NEW p \in steady'
        PROVE  IF p \in seen' THEN p \in ahead' \/ UpTo(p, start)' ELSE Beyond(p, start)'
    <3>1. (UpTo(p, start)' <=> UpTo(p, start')) /\ (Beyond(p, start)' <=> Beyond(p, start'))
      BY <1>1, SameValues
    <3> QED BY <1>1, <2>2, <2>6, <3>1
  <2>7. AskInv'
    BY <2>6 DEF AskInv
  <2> QED BY <1>1, <1>4, <2>2, <2>3, <2>4, <2>5, <2>7
<1>6. OffsetInv'
  <2>1. SUFFICES ASSUME ByOffset(list), ~lost, phase' = "ask"
                 PROVE  /\ First(seen)'
                        /\ \/ Cardinality(seen') = number' * limit'
                           \/ Cardinality(seen') <= number' * limit' /\ steady' \subseteq seen'
    BY <1>1, <1>4 DEF OffsetInv
  <2>2. /\ First(seen')
        /\ \/ Cardinality(seen') = number' * limit
           \/ Cardinality(seen') <= number' * limit /\ steady \subseteq seen'
    BY <2>1, LoadOffset
  <2>3. First(seen)' <=> First(seen')
    BY <1>1, SameValues DEF First
  <2> QED BY <1>1, <2>2, <2>3
<1>7. WalkComplete'
  BY <1>1, LoadSeek, LoadOffset DEF WalkComplete
<1> QED BY <1>2, <1>3, <1>5, <1>6, <1>7 DEF PageInv

\* The rows of a list are those of its first page, unless a page of replies
\* starts at a reply to another account.
LEMMA RowsSame ==
  ASSUME NEW l, Known(l), NEW x,
         l.name = "replies" => Replied(l.account, x) = {l.account}
  PROVE  Rows(l, x) = Rows(l, NoItem)
<1>1. CASE /\ Kind(l, TRUE, FALSE, FALSE, TRUE) /\ l.name \in RankedSorts
           /\ l.api \in {"condenser", "bridge"}
  BY <1>1, RankedAre
<1>2. CASE Kind(l, FALSE, FALSE, FALSE, TRUE) /\ l.name = "pending"
  BY <1>2, PendingAre
<1>3. CASE Kind(l, FALSE, FALSE, FALSE, FALSE) /\ l.name \in DatedLists
  BY <1>3, DatedAre DEF DatedLists
<1>4. CASE Kind(l, FALSE, FALSE, TRUE, FALSE) /\ l.name \in IdLists
  <2>1. CASE l.name = "replies"
    <3>1. Replied(l.account, NoItem) = {l.account}
      BY DEF Replied
    <3>2. /\ Rows(l, x) = UNION {ReplyRows(a) : a \in Replied(l.account, x)}
          /\ Rows(l, NoItem) = UNION {ReplyRows(a) : a \in Replied(l.account, NoItem)}
      BY <1>4, <2>1, IdListsAre
    <3> QED BY <2>1, <3>1, <3>2
  <2>2. CASE l.name \in {"posts", "comments"}
    BY <1>4, <2>2, IdListsAre
  <2> QED BY <1>4, <2>1, <2>2 DEF IdLists
<1>5. CASE Kind(l, FALSE, TRUE, FALSE, FALSE) /\ l.name \in FollowLists \cup {"reputations"}
  BY <1>5, AccountListsAre
<1> QED BY <1>1, <1>2, <1>3, <1>4, <1>5, KindsAre DEF RankedSorts

LEMMA RepliesAre ==
  ASSUME TablesFit, NEW a, NEW q \in ReplyRows(a), NEW b
  PROVE  Replied(b, q) = {a}
<1>1. posts[q].parent \in Ids /\ posts[posts[q].parent].author = a /\ q \in Ids
  BY DEF ReplyRows
<1>2. posts[q].parent # NoPost /\ q # NoItem
  BY <1>1, IdsAre DEF TablesFit, NoPost, NoItem
<1>3. {posts[q].parent} \ {NoPost} = {posts[q].parent}
  BY <1>2
<1> QED BY <1>1, <1>2, <1>3 DEF Replied

LEMMA AskIs ==
  ASSUME Ask
  PROVE  /\ phase = "ask" /\ phase' = "load"
         /\ lost' = (lost \/ IF ByOffset(list) THEN ~Quiet(list)
                             ELSE start # NoItem /\ start \notin calm)
         /\ ahead' = ahead \cup FirstPosts(list, start)
         /\ calm' = {p \in Rows(list, start) \ FirstPosts(list, start) : V(p) = SV(p)}
         /\ UNCHANGED <<tableVars, list, limit, start, number, seen, again, steady>>
BY DEF Ask, V, SV

\* The page asked for: what is put first, then a page of the rows sought.
AskedPage(first, rows, s) ==
    /\ full' = (Len(rows) = limit)
    /\ PageOf(list, Seek(list, start), s, rows, Offset(list, number, limit), limit)
    /\ Len(rows) \in Nat
    /\ \A i \in 1 .. Len(rows) : rows[i] \in Seek(list, start) /\ rows[i] \in ToSet(page')
    /\ Len(first) \in Nat /\ Len(page') = Len(first) + Len(rows)
    /\ page' \in Seq(Nat \ {NoItem}) /\ DOMAIN page' = 1 .. Len(first) + Len(rows)
    /\ \A i \in DOMAIN page' :
          IF i <= Len(first) THEN page'[i] \in FirstPosts(list, start)
          ELSE i - Len(first) \in 1 .. Len(rows) /\ page'[i] = rows[i - Len(first)]

LEMMA AskPage ==
  ASSUME PageInv, Ask
  PROVE  /\ FirstPosts(list, start) # {} => Exact(list) /\ ~ByOffset(list) /\ start = NoItem
         /\ Offset(list, number, limit) \in Nat
         /\ \/ Closed(list) /\ page' = <<>> /\ full' = FALSE
            \/ \E first, rows, s : AskedPage(first, rows, s)
<1>1. TablesFit /\ Known(list) /\ limit \in Nat \ {0} /\ number \in Nat /\ Typed
  BY ListKnown DEF PageInv, Typed
<1>2. PICK rows \in Pages(list, start, number, limit),
           first \in SetToSeqs(FirstPosts(list, start)) :
        IF Closed(list) THEN page' = <<>> /\ full' = FALSE
        ELSE page' = first \o rows /\ full' = (Len(rows) = limit)
  BY DEF Ask
<1>3. /\ FirstPosts(list, start) # {} => Exact(list) /\ ~ByOffset(list) /\ start = NoItem
      /\ FirstPosts(list, start) \subseteq Ids /\ first \in Seq(FirstPosts(list, start))
  BY <1>1, <1>2, FirstAre
<1>4. Seek(list, start) \subseteq Rows(list, start) /\ IsFiniteSet(Seek(list, start))
  BY <1>1, SeekFit
<1>5. PICK s : PageOf(list, Seek(list, start), s, rows, Offset(list, number, limit), limit)
  BY <1>1, <1>2, <1>4, PagesAre
<1>6. Offset(list, number, limit) \in Nat
  BY <1>1, <1>2, <1>4, PagesAre
<1>7. CASE ~Closed(list)
  <2> DEFINE F == FirstPosts(list, start)
             S == Seek(list, start)
             U == Nat \ {NoItem}
  <2>1. F \subseteq U
    BY <1>1, <1>3, IdsAre DEF TablesFit, NoItem
  <2>2. S \subseteq U
    BY <1>1, <1>4, RowsFit, SoughtFit
  <2>3. first \in Seq(F) /\ rows \in Seq(S)
    BY <1>3, <1>5 DEF PageOf
  <2>4. page' = first \o rows /\ full' = (Len(rows) = limit)
    BY <1>2, <1>7
  <2>5. PageOf(list, S, s, rows, Offset(list, number, limit), limit)
    BY <1>5
  <2> HIDE DEF F, S, U
  <2>6. first \in Seq(U) /\ rows \in Seq(U)
    BY <2>1, <2>2, <2>3, SeqMonotonic
  <2>7. /\ page' \in Seq(U) /\ Len(page') = Len(first) + Len(rows)
        /\ \A i \in 1 .. Len(first) + Len(rows) :
              page'[i] = IF i <= Len(first) THEN first[i] ELSE rows[i - Len(first)]
    BY <2>4, <2>6, ConcatProperties
  <2>8. /\ Len(first) \in Nat /\ Len(rows) \in Nat
        /\ \A i \in 1 .. Len(first) : first[i] \in F
        /\ \A i \in 1 .. Len(rows) : rows[i] \in S
    BY <2>3, ElementOfSeq
  <2>9. DOMAIN page' = 1 .. Len(first) + Len(rows)
    BY <2>7
  <2>10. ASSUME NEW i \in 1 .. Len(rows) PROVE rows[i] \in ToSet(page')
    <3>1. Len(first) + i \in DOMAIN page' /\ ~(Len(first) + i <= Len(first)) /\ Len(first) + i - Len(first) = i
      BY <2>8, <2>9
    <3>2. page'[Len(first) + i] = rows[i]
      BY <2>7, <2>9, <3>1
    <3> QED BY <3>1, <3>2 DEF ToSet
  <2>11. ASSUME NEW i \in DOMAIN page'
         PROVE  IF i <= Len(first) THEN page'[i] \in F
                ELSE i - Len(first) \in 1 .. Len(rows) /\ page'[i] = rows[i - Len(first)]
    <3>1. i \in 1 .. Len(first) + Len(rows) /\ i \in Nat
      BY <2>8, <2>9, <2>11
    <3>2. page'[i] = IF i <= Len(first) THEN first[i] ELSE rows[i - Len(first)]
      BY <2>7, <3>1
    <3>3. CASE i <= Len(first)
      <4>1. i \in 1 .. Len(first)
        BY <2>8, <3>1, <3>3
      <4> QED BY <2>8, <3>2, <3>3, <4>1
    <3>4. CASE ~(i <= Len(first))
      <4>1. i - Len(first) \in 1 .. Len(rows)
        BY <2>8, <3>1, <3>4
      <4> QED BY <3>2, <3>4, <4>1
    <3> QED BY <3>3, <3>4
  <2>12. AskedPage(first, rows, s)
    BY <2>4, <2>5, <2>7, <2>8, <2>9, <2>10, <2>11 DEF AskedPage, F, S, U
  <2> QED BY <1>3, <1>6, <2>12
<1> QED BY <1>2, <1>3, <1>6, <1>7

\* Where a page goes on, what is sought is what is beyond.
LEMMA AskSeeks ==
  ASSUME PageInv, Ask, ~ByOffset(list), ~lost'
  PROVE  /\ ~lost /\ Rows(list, start) = Rows(list, NoItem)
         /\ start = NoItem => seen = {}
         /\ start # NoItem =>
               /\ start \in calm /\ SV(start) \in Int /\ start \in Nat
               /\ \A p \in steady : IF p \in seen THEN p \in ahead \/ UpTo(p, start)
                                                  ELSE Beyond(p, start)
               /\ \A p \in Seek(list, start) : Beyond(p, start)
         /\ \A p \in steady \ seen : p \in Seek(list, start)
<1>1. /\ phase = "ask"
      /\ lost' = (lost \/ (start # NoItem /\ start \notin calm))
  BY AskIs
<1>2. Typed /\ WatchInv /\ SeekInv
  BY DEF PageInv
<1>3. ~lost /\ (start # NoItem => start \in calm)
  BY <1>1, <1>2 DEF Typed
<1>4. (Fresh => seen = {}) /\ AskInv
  BY <1>2, <1>3 DEF SeekInv
<1>5. start = NoItem => seen = {}
  BY <1>1, <1>4 DEF Fresh
<1>6. Rows(list, start) = Rows(list, NoItem)
  <2>1. start # NoItem /\ list.name = "replies" => Replied(list.account, start) = {list.account}
    BY <1>2, <1>3 DEF WatchInv
  <2>2. Known(list)
    BY <1>2, ListKnown
  <2> QED BY <2>1, <2>2, RowsSame
<1>7. ASSUME start # NoItem
      PROVE  /\ start \in calm /\ SV(start) \in Int /\ start \in Nat
             /\ \A p \in steady : IF p \in seen THEN p \in ahead \/ UpTo(p, start)
                                                ELSE Beyond(p, start)
             /\ \A p : p \in Seek(list, start) <=> p \in Rows(list, start) /\ Beyond(p, start)
  <2>1. start \in calm /\ start \in Sought(list)
    BY <1>2, <1>3, <1>7 DEF WatchInv
  <2>2. SV(start) \in Int /\ start \in Nat
    BY <1>2, <2>1, Numbers
  <2>3. \A p : p \in Seek(list, start) <=> p \in Rows(list, start) /\ Beyond(p, start)
    BY <1>7, <2>1 DEF Seek, Beyond, V, SV
  <2> QED BY <1>1, <1>4, <2>1, <2>2, <2>3 DEF AskInv
<1>8. ASSUME NEW p \in steady \ seen PROVE p \in Seek(list, start)
  <2>1. p \in Rows(list, start)
    BY <1>2, <1>6, Numbers
  <2>2. CASE start = NoItem
    BY <2>1, <2>2 DEF Seek
  <2>3. CASE start # NoItem
    BY <1>7, <2>1, <2>3
  <2> QED BY <2>2, <2>3
<1> QED BY <1>3, <1>5, <1>6, <1>7, <1>8

LEMMA AskSeek ==
  ASSUME PageInv, Ask, ~ByOffset(list), ~lost',
         NEW first, NEW rows, NEW s, AskedPage(first, rows, s)
  PROVE  /\ full' => page' # <<>>
         /\ \A p \in steady \ (seen \cup ToSet(page')) :
               full' /\ \A q \in ToSet(page') \cap calm' : Beyond(p, q)
         /\ \A p \in (steady \cap seen) \ ahead' :
               \A q \in ToSet(page') \cap calm' : UpTo(p, q)
         /\ \A i, j \in DOMAIN page' :
               i < j /\ page'[i] \in steady \ ahead' /\ page'[j] \in calm' => UpTo(page'[i], page'[j])
         /\ Exact(list) => \A p \in steady : p \in ToSet(page') /\ p \in seen => p \in ahead'
         /\ ~Exact(list) /\ start \in steady =>
               \A p \in steady : /\ p \in ToSet(page') => V(p) <= V(start)
                                 /\ p \in seen => V(p) >= V(start)
<1> DEFINE S == Seek(list, start)
           N == Cardinality(S)
           F == FirstPosts(list, start)
<1>1. /\ Typed /\ WatchInv /\ SeekInv /\ TablesFit /\ Known(list) /\ limit \in Nat \ {0}
  BY ListKnown DEF PageInv, Typed
<1>2. /\ ~lost /\ Rows(list, start) = Rows(list, NoItem)
      /\ start = NoItem => seen = {}
      /\ start # NoItem =>
            /\ start \in calm /\ SV(start) \in Int /\ start \in Nat
            /\ \A p \in steady : IF p \in seen THEN p \in ahead \/ UpTo(p, start)
                                               ELSE Beyond(p, start)
            /\ \A p \in S : Beyond(p, start)
      /\ \A p \in steady \ seen : p \in S
  BY AskSeeks
<1>3. /\ ahead' = ahead \cup F
      /\ calm' = {p \in Rows(list, start) \ F : V(p) = SV(p)}
      /\ F # {} => Exact(list)
  BY AskIs, AskPage
<1>4. /\ \A p \in S : V(p) \in Int /\ p \in Nat
      /\ \A p \in steady : V(p) \in Int /\ p \in Nat
      /\ \A p \in calm' : V(p) \in Int /\ p \in Nat /\ SV(p) = V(p)
  <2>1. ASSUME NEW p \in Rows(list, start) PROVE V(p) \in Int /\ p \in Nat
    <3>1. p \in Sought(list) /\ Value(list, p) \in Int
      BY <1>1, <2>1, RowsFit
    <3> QED BY <1>1, <3>1, SoughtFit DEF V
  <2>2. S \subseteq Rows(list, start)
    BY <1>1, SeekFit
  <2> QED BY <1>1, <1>3, <2>1, <2>2, Numbers
<1>5. /\ full' = (Len(rows) = limit)
      /\ N \in Nat
      /\ \A i, j \in 1 .. N : i # j => s[i] # s[j]
      /\ \A p \in S : \E i \in 1 .. N : s[i] = p
      /\ \A i, j \in 1 .. N : i < j => ~Before(list, s[j], s[i])
      /\ Len(rows) = IF N <= 0 THEN 0 ELSE Least(N, limit)
      /\ \A i \in 1 .. Len(rows) : i \in 1 .. N /\ rows[i] = s[i]
      /\ \A i \in 1 .. N : s[i] \in S
      /\ Len(rows) \in Nat /\ Len(first) \in Nat
      /\ \A i \in 1 .. Len(rows) : rows[i] \in S /\ rows[i] \in ToSet(page')
      /\ Len(page') = Len(first) + Len(rows)
      /\ DOMAIN page' = 1 .. Len(first) + Len(rows)
      /\ \A i \in DOMAIN page' :
            IF i <= Len(first) THEN page'[i] \in F
            ELSE i - Len(first) \in 1 .. Len(rows) /\ page'[i] = rows[i - Len(first)]
  <2>1. Offset(list, number, limit) = 0
    BY DEF Offset
  <2>2. PageOf(list, S, s, rows, 0, limit)
    BY <2>1 DEF AskedPage
  <2>3. N - 0 = N
    BY <2>2 DEF PageOf
  <2>4. \A i \in 1 .. Len(rows) : 0 + i = i
    BY DEF AskedPage
  <2> HIDE DEF S, N, F
  <2>5. /\ N \in Nat
        /\ \A i, j \in 1 .. N : i # j => s[i] # s[j]
        /\ \A p \in S : \E i \in 1 .. N : s[i] = p
        /\ \A i, j \in 1 .. N : i < j => ~Before(list, s[j], s[i])
        /\ \A i \in 1 .. N : s[i] \in S
    BY <2>2 DEF PageOf, N
  <2>6. /\ Len(rows) = IF N <= 0 THEN 0 ELSE Least(N, limit)
        /\ \A i \in 1 .. Len(rows) : i \in 1 .. N /\ rows[i] = s[i]
    BY <2>2, <2>3, <2>4 DEF PageOf, N
  <2> QED BY <2>5, <2>6 DEF AskedPage, S, F
<1> HIDE DEF S, N, F
\* Of two rows of the list, the one that comes later stands beyond.
<1>6. ASSUME NEW i \in 1 .. N, NEW j \in 1 .. N, i < j
      PROVE  /\ V(s[i]) = SV(s[i]) => Beyond(s[j], s[i])
             /\ V(s[j]) = SV(s[j]) => UpTo(s[i], s[j])
  <2>1. /\ ~Before(list, s[j], s[i]) /\ s[i] # s[j]
        /\ V(s[i]) \in Int /\ V(s[j]) \in Int /\ s[i] \in Nat /\ s[j] \in Nat
    BY <1>4, <1>5, <1>6
  <2>2. /\ V(s[j]) <= V(s[i])
        /\ Exact(list) /\ V(s[j]) = V(s[i]) => s[i] < s[j]
    BY <2>1 DEF Before, V
  <2> QED BY <2>1, <2>2 DEF Beyond, UpTo
<1>7. \A q \in ToSet(page') : q \in F \/ \E i \in 1 .. Len(rows) : q = rows[i]
  BY <1>5 DEF ToSet
<1>8. \A q \in ToSet(page') \cap calm' : \E i \in 1 .. Len(rows) : q = s[i] /\ q \in S
  BY <1>3, <1>5, <1>7
<1>9. full' => page' # <<>>
  <2>1. full' => Len(rows) = limit
    BY <1>5
  <2>2. Len(first) \in Nat /\ Len(rows) \in Nat /\ Len(page') = Len(first) + Len(rows)
    BY <1>5
  <2>3. full' => Len(page') # 0
    BY <1>1, <2>1, <2>2
  <2> QED BY <2>3
<1>10. ASSUME NEW p \in steady \ (seen \cup ToSet(page'))
       PROVE  full' /\ \A q \in ToSet(page') \cap calm' : Beyond(p, q)
  <2>1. PICK k \in 1 .. N : s[k] = p
    BY <1>2, <1>5
  <2>2. k \notin 1 .. Len(rows)
    BY <1>5, <2>1
  <2>3. Len(rows) = limit /\ Len(rows) < k /\ k \in Nat
    BY <1>1, <1>5, <2>1, <2>2 DEF Least
  <2>4. ASSUME NEW q \in ToSet(page') \cap calm' PROVE Beyond(p, q)
    <3>1. PICK i \in 1 .. Len(rows) : q = s[i]
      BY <1>8
    <3>2. i \in 1 .. N /\ i < k /\ V(s[i]) = SV(s[i])
      BY <1>4, <1>5, <2>3, <3>1
    <3> QED BY <1>6, <2>1, <3>1, <3>2
  <2> QED BY <1>5, <2>3, <2>4
<1>11. ASSUME NEW p \in (steady \cap seen) \ ahead', NEW q \in ToSet(page') \cap calm'
       PROVE  UpTo(p, q)
  <2>1. start # NoItem /\ UpTo(p, start) /\ SV(start) \in Int /\ start \in Nat
    BY <1>2, <1>3
  <2>2. q \in S /\ Beyond(q, start) /\ SV(q) = V(q)
    BY <1>2, <1>4, <1>8, <2>1
  <2> QED BY <1>4, <2>1, <2>2 DEF Beyond, UpTo
<1>12. ASSUME NEW i \in DOMAIN page', NEW j \in DOMAIN page',
              i < j, page'[i] \in steady \ ahead', page'[j] \in calm'
       PROVE  UpTo(page'[i], page'[j])
  <2> DEFINE n == Len(first)
  <2>1. ~(i <= n) /\ ~(j <= n)
    BY <1>3, <1>5, <1>12
  <2> HIDE DEF n
  <2>2. /\ i - n \in 1 .. Len(rows) /\ page'[i] = s[i - n]
        /\ j - n \in 1 .. Len(rows) /\ page'[j] = s[j - n]
    BY <1>5, <2>1 DEF n
  <2>3. i - n < j - n /\ i - n \in 1 .. N /\ j - n \in 1 .. N
    BY <1>5, <1>12, <2>2 DEF n
  <2>4. V(s[j - n]) = SV(s[j - n])
    BY <1>4, <1>12, <2>2
  <2> QED BY <1>6, <2>2, <2>3, <2>4
<1>13. ASSUME Exact(list), NEW p \in steady, p \in ToSet(page'), p \in seen
       PROVE  p \in ahead'
  <2>1. SUFFICES ASSUME p \notin ahead' PROVE FALSE
    OBVIOUS
  <2>2. start # NoItem /\ UpTo(p, start) /\ SV(start) \in Int /\ start \in Nat
    BY <1>2, <1>3, <1>13, <2>1
  <2>3. p \in S
    BY <1>3, <1>5, <1>7, <1>13, <2>1
  <2>4. Beyond(p, start)
    BY <1>2, <2>2, <2>3
  <2> QED BY <1>4, <1>13, <2>2, <2>4 DEF Beyond, UpTo
<1>14. ASSUME ~Exact(list), start \in steady, NEW p \in steady
       PROVE  /\ p \in ToSet(page') => V(p) <= V(start)
              /\ p \in seen => V(p) >= V(start)
  <2>1. start # NoItem
    BY <1>1, <1>14, Numbers
  <2>2. V(start) = SV(start) /\ ahead = {} /\ F = {}
    BY <1>1, <1>2, <1>3, <1>14, <2>1 DEF WatchInv, SeekInv
  <2>3. p \in ToSet(page') => p \in S
    BY <1>5, <1>7, <2>2
  <2> QED BY <1>2, <1>4, <1>14, <2>1, <2>2, <2>3 DEF Beyond, UpTo
<1> QED BY <1>9, <1>10, <1>11, <1>12, <1>13, <1>14


-----------------------------------------------------------------------------
(* Offsets.                                                                 *)

\* What comes first in a sequence of distinct rows is as long as it has members.
Prefix(s, m) == {s[i] : i \in 1 .. m}

LEMMA PrefixLength ==
  ASSUME NEW N \in Nat, NEW S, NEW s \in [1 .. N -> S],
         \A i, j \in 1 .. N : i # j => s[i] # s[j],
         NEW m \in 0 .. N
  PROVE  Cardinality(Prefix(s, m)) = m /\ IsFiniteSet(Prefix(s, m))
<1> DEFINE f == [i \in 1 .. m |-> s[i]]
<1>1. m \in Nat /\ 1 .. m \subseteq 1 .. N
  OBVIOUS
<1>2. f \in [1 .. m -> Prefix(s, m)] /\ \A i, j \in 1 .. m : f[i] = f[j] => i = j
  BY <1>1 DEF Prefix
<1>3. \A p \in Prefix(s, m) : \E i \in 1 .. m : f[i] = p
  BY DEF Prefix
<1> HIDE DEF f
<1>4. f \in Bijection(1 .. m, Prefix(s, m))
  BY <1>2, <1>3 DEF Bijection, Injection, Surjection, IsInjective
<1>5. IsFiniteSet(1 .. m) /\ Cardinality(1 .. m) = m
  BY <1>1, FS_Interval
<1> QED BY <1>4, <1>5, FS_Bijection DEF ExistsBijection

\* s lists the N rows of S, each once; T takes no row of s without those before.
Lists(s, N, S) ==
    /\ N \in Nat /\ s \in [1 .. N -> S]
    /\ \A i, j \in 1 .. N : i # j => s[i] # s[j]
    /\ \A p \in S : \E i \in 1 .. N : s[i] = p
Initial(s, N, T) == \A i, j \in 1 .. N : i < j /\ s[j] \in T => s[i] \in T

LEMMA PrefixIs ==
  ASSUME NEW N, NEW S, NEW s, Lists(s, N, S), NEW T \in SUBSET S, Initial(s, N, T)
  PROVE  Cardinality(T) \in 0 .. N /\ T = Prefix(s, Cardinality(T))
<1> USE DEF Lists, Initial
<1> DEFINE I == {i \in 1 .. N : s[i] \in T}
<1>1. PICK m \in 0 .. N : I = 1 .. m
  <2>1. CASE I = {}
    <3>1. I = 1 .. 0 /\ 0 \in 0 .. N
      BY <2>1
    <3> QED BY <3>1
  <2>2. CASE I # {}
    <3>1. Max(I) \in I /\ \A i \in I : i <= Max(I)
      BY <2>2, MaxExists
    <3>2. \A i \in 1 .. Max(I) : i \in I
      BY <3>1
    <3>3. I = 1 .. Max(I) /\ Max(I) \in 0 .. N
      BY <3>1, <3>2
    <3> QED BY <3>3
  <2> QED BY <2>1, <2>2
<1>2. T = Prefix(s, m)
  <2>1. ASSUME NEW p \in T PROVE p \in Prefix(s, m)
    <3>1. PICK i \in 1 .. N : s[i] = p
      OBVIOUS
    <3>2. i \in 1 .. m
      BY <1>1, <2>1, <3>1
    <3> QED BY <3>1, <3>2 DEF Prefix
  <2>2. ASSUME NEW p \in Prefix(s, m) PROVE p \in T
    BY <1>1, <2>2 DEF Prefix
  <2> QED BY <2>1, <2>2
<1>3. Cardinality(Prefix(s, m)) = m
  BY PrefixLength
<1> QED BY <1>2, <1>3

LEMMA AskOffset ==
  ASSUME PageInv, Ask, ByOffset(list), ~lost',
         NEW first, NEW rows, NEW s, AskedPage(first, rows, s)
  PROVE  /\ ToSet(page') \cap seen = {}
         /\ full' => page' # <<>>
         /\ First(seen \cup ToSet(page'))
         /\ IF full'
            THEN Cardinality(seen \cup ToSet(page')) = (number + 1) * limit
            ELSE /\ Cardinality(seen \cup ToSet(page')) <= (number + 1) * limit
                 /\ steady \subseteq seen \cup ToSet(page')
<1> DEFINE S == Seek(list, start)
           N == Cardinality(S)
           o == number * limit
<1>1. /\ Typed /\ WatchInv /\ OffsetInv /\ TablesFit /\ Known(list) /\ OfAccounts(list)
      /\ ~Exact(list) /\ limit \in Nat \ {0} /\ number \in Nat /\ o \in Nat
  BY ListKnown DEF PageInv, Typed
<1>2. ~lost /\ Quiet(list) /\ phase = "ask"
  BY <1>1, AskIs DEF Typed
<1>3. S = steady
  <2>1. list.name # "replies"
    BY DEF ByOffset
  <2>2. Rows(list, start) = Rows(list, NoItem)
    BY <1>1, <2>1, RowsSame
  <2>3. S = Rows(list, start)
    BY DEF Seek
  <2>4. \A p : Shown(list, p)
    BY <1>1 DEF Shown
  <2> QED BY <1>2, <2>2, <2>3, <2>4 DEF Quiet, Visible
<1>4. PageOf(list, S, s, rows, o, limit)
  BY DEF AskedPage, Offset
<1>5. ToSet(page') = {rows[i] : i \in 1 .. Len(rows)}
  <2>1. FirstPosts(list, start) = {}
    BY AskPage
  <2>2. /\ Len(first) \in Nat /\ Len(rows) \in Nat /\ DOMAIN page' = 1 .. Len(first) + Len(rows)
        /\ \A i \in DOMAIN page' :
              IF i <= Len(first) THEN page'[i] \in FirstPosts(list, start)
              ELSE i - Len(first) \in 1 .. Len(rows) /\ page'[i] = rows[i - Len(first)]
        /\ \A i \in 1 .. Len(rows) : rows[i] \in ToSet(page')
    BY DEF AskedPage
  <2>3. \A i \in DOMAIN page' : \E j \in 1 .. Len(rows) : page'[i] = rows[j]
    BY <2>1, <2>2
  <2>4. ToSet(page') \subseteq {rows[i] : i \in 1 .. Len(rows)}
    BY <2>3 DEF ToSet
  <2>5. {rows[i] : i \in 1 .. Len(rows)} \subseteq ToSet(page')
    BY <2>2
  <2> QED BY <2>4, <2>5
<1>6. full' = (Len(rows) = limit) /\ page' \in Seq(Nat \ {NoItem})
  BY DEF AskedPage
<1> HIDE DEF S, o
<1>7. /\ N \in Nat /\ s \in [1 .. N -> S]
      /\ \A i, j \in 1 .. N : i # j => s[i] # s[j]
      /\ \A p \in S : \E i \in 1 .. N : s[i] = p
      /\ \A i, j \in 1 .. N : i < j => ~Before(list, s[j], s[i])
      /\ Len(rows) = IF N <= o THEN 0 ELSE Least(N - o, limit)
      /\ \A i \in 1 .. Len(rows) : o + i \in 1 .. N /\ rows[i] = s[o + i]
  BY <1>4 DEF PageOf
<1> HIDE DEF N
<1>8. ASSUME NEW i \in 1 .. N, NEW j \in 1 .. N, i < j PROVE V(s[i]) > V(s[j])
  <2>1. s[i] # s[j] /\ s[i] \in steady /\ s[j] \in steady /\ ~Before(list, s[j], s[i])
    BY <1>3, <1>7, <1>8
  <2>2. V(s[i]) \in Int /\ V(s[j]) \in Int /\ V(s[i]) # V(s[j])
    BY <1>1, <1>2, <2>1, Numbers DEF Quiet, V
  <2> QED BY <2>1, <2>2 DEF Before, V
<1> DEFINE m == Cardinality(seen)
           k == Len(rows)
<1>9. m \in 0 .. N /\ seen = Prefix(s, m)
  <2>1. seen \subseteq S /\ First(seen)
    BY <1>1, <1>2, <1>3 DEF Quiet, OffsetInv
  <2>2. ASSUME NEW i \in 1 .. N, NEW j \in 1 .. N, i < j, s[j] \in seen PROVE s[i] \in seen
    <3>1. SUFFICES ASSUME s[i] \notin seen PROVE FALSE
      OBVIOUS
    <3>2. s[i] \in steady \ seen /\ s[j] \in seen \cap steady
      BY <1>3, <1>7, <2>2, <3>1
    <3>3. V(s[j]) > V(s[i]) /\ V(s[i]) > V(s[j]) /\ V(s[i]) \in Int /\ V(s[j]) \in Int
      BY <1>1, <1>8, <2>1, <2>2, <3>2, Numbers DEF First
    <3> QED BY <3>3
  <2>3. seen \in SUBSET S
    BY <2>1
  <2>4. Initial(s, N, seen)
    BY <2>2 DEF Initial
  <2>5. Lists(s, N, S)
    BY <1>7 DEF Lists
  <2> HIDE DEF m
  <2>6. Cardinality(seen) \in 0 .. N /\ seen = Prefix(s, Cardinality(seen))
    BY <2>3, <2>4, <2>5, PrefixIs
  <2> QED BY <2>6 DEF m
<1>10. m = o \/ (m <= o /\ m = N)
  <2>1. Cardinality(seen) = o \/ (Cardinality(seen) <= o /\ steady \subseteq seen)
    BY <1>1, <1>2 DEF OffsetInv, o
  <2>2. steady \subseteq seen => steady = seen
    BY <1>2 DEF Quiet
  <2> QED BY <1>3, <2>1, <2>2 DEF N
<1> HIDE DEF m, k
<1>11. /\ k = IF N <= o THEN 0 ELSE Least(N - o, limit)
       /\ k \in Nat /\ m + k \in 0 .. N /\ (k > 0 => m = o)
  <2>1. k = IF N <= o THEN 0 ELSE Least(N - o, limit)
    BY <1>7 DEF k
  <2> QED BY <1>1, <1>7, <1>9, <1>10, <2>1 DEF Least
<1>12. ToSet(page') = {s[m + i] : i \in 1 .. k}
  <2>1. ToSet(page') = {rows[i] : i \in 1 .. k}
    BY <1>5 DEF k
  <2>2. \A i \in 1 .. k : k > 0 /\ rows[i] = s[o + i]
    BY <1>7, <1>11 DEF k
  <2>3. \A i \in 1 .. k : rows[i] = s[m + i]
    BY <1>11, <2>2
  <2> QED BY <2>1, <2>3
<1>13. seen \cup ToSet(page') = Prefix(s, m + k)
  <2>1. Prefix(s, m) \subseteq Prefix(s, m + k)
    BY <1>9, <1>11 DEF Prefix
  <2>2. \A i \in 1 .. k : m + i \in 1 .. m + k
    BY <1>9, <1>11
  <2>3. {s[m + i] : i \in 1 .. k} \subseteq Prefix(s, m + k)
    BY <2>2 DEF Prefix
  <2>4. ASSUME NEW p \in Prefix(s, m + k) PROVE p \in Prefix(s, m) \cup {s[m + i] : i \in 1 .. k}
    <3>1. PICK i \in 1 .. m + k : p = s[i]
      BY <2>4 DEF Prefix
    <3>2. CASE i <= m
      BY <1>9, <1>11, <3>1, <3>2 DEF Prefix
    <3>3. CASE i > m
      <4>1. i - m \in 1 .. k /\ m + (i - m) = i
        BY <1>9, <1>11, <3>1, <3>3
      <4> QED BY <3>1, <4>1
    <3> QED BY <1>9, <1>11, <3>1, <3>2, <3>3
  <2> QED BY <1>9, <1>12, <2>1, <2>3, <2>4
<1>14. ToSet(page') \cap seen = {}
  <2>1. ASSUME NEW i \in 1 .. k, NEW j \in 1 .. m PROVE s[m + i] # s[j]
    <3>1. m \in Nat /\ i \in Nat /\ j \in Nat /\ 1 <= i /\ i <= k /\ 1 <= j /\ j <= m
      BY <1>9, <1>11, <2>1
    <3>2. m + k <= N /\ N \in Nat /\ k \in Nat
      BY <1>7, <1>11
    <3>3. m + i \in 1 .. N /\ j \in 1 .. N /\ m + i # j
      BY <3>1, <3>2
    <3> QED BY <1>7, <3>3
  <2> QED BY <1>9, <1>12, <2>1 DEF Prefix
<1>15. full' => page' # <<>>
  <2>1. full' => 1 \in 1 .. k
    <3>1. full' => k = limit
      BY <1>6 DEF k
    <3> QED BY <1>1, <3>1
  <2>2. full' => ToSet(page') # {}
    BY <1>12, <2>1
  <2>3. ToSet(<<>>) = {}
    BY DEF ToSet
  <2> QED BY <2>2, <2>3
<1>16. First(seen \cup ToSet(page'))
  <2>1. SUFFICES ASSUME NEW p \in Prefix(s, m + k), NEW q \in steady \ Prefix(s, m + k)
                 PROVE  V(p) > V(q)
    BY <1>13 DEF First
  <2>2. PICK i \in 1 .. m + k : p = s[i]
    BY DEF Prefix
  <2>3. PICK j \in 1 .. N : q = s[j]
    BY <1>3, <1>7
  <2>4. j \notin 1 .. m + k
    BY <2>1, <2>3 DEF Prefix
  <2>5. i < j /\ i \in 1 .. N
    BY <1>7, <1>9, <1>11, <2>2, <2>3, <2>4
  <2> QED BY <1>8, <2>2, <2>3, <2>5
<1>17. Cardinality(seen \cup ToSet(page')) = m + k
  <2>1. \A i \in 0 .. N : Cardinality(Prefix(s, i)) = i
    BY <1>7, PrefixLength
  <2> QED BY <1>11, <1>13, <2>1
<1>18. (number + 1) * limit = o + limit
  BY <1>1 DEF o
<1>19. full' => m + k = (number + 1) * limit
  <2>1. full' => k = limit
    BY <1>6 DEF k
  <2> QED BY <1>1, <1>11, <1>18, <2>1
<1>20. ~full' => m + k = N /\ m + k <= (number + 1) * limit
  <2>1. ~full' => k # limit
    BY <1>6 DEF k
  <2>2. N \in Nat /\ m \in 0 .. N
    BY <1>7, <1>9
  <2>3. SUFFICES ASSUME k # limit PROVE m + k = N /\ m + k <= o + limit
    BY <1>18, <2>1
  <2>4. k = IF N <= o THEN 0 ELSE IF N - o < limit THEN N - o ELSE limit
    BY <1>11 DEF Least
  <2> QED BY <1>1, <1>10, <1>11, <2>2, <2>3, <2>4
<1>21. m + k = N => steady \subseteq seen \cup ToSet(page')
  <2>1. \A p \in S : p \in Prefix(s, N)
    BY <1>7 DEF Prefix
  <2> QED BY <1>3, <1>13, <2>1
<1> QED BY <1>14, <1>15, <1>16, <1>17, <1>19, <1>20, <1>21

LEMMA RepliesOf ==
  ASSUME TablesFit, NEW l, Known(l), l.name = "replies", NEW q \in Rows(l, NoItem)
  PROVE  Replied(l.account, q) = {l.account}
<1>1. Kind(l, FALSE, FALSE, TRUE, FALSE) /\ l.name \in IdLists
  BY KindsAre DEF RankedSorts, CondenserSorts, PayoutSorts, DatedLists, FollowLists, IdLists
<1>2. Replied(l.account, NoItem) = {l.account}
  BY DEF Replied
<1>3. Rows(l, NoItem) = UNION {ReplyRows(a) : a \in Replied(l.account, NoItem)}
  BY <1>1, IdListsAre
<1>4. q \in ReplyRows(l.account)
  BY <1>2, <1>3
<1> QED BY <1>4, RepliesAre

LEMMA AskOK ==
  ASSUME PageInv, Ask
  PROVE  PageInv'
<1>1. /\ phase = "ask" /\ phase' = "load"
      /\ lost' = (lost \/ IF ByOffset(list) THEN ~Quiet(list)
                          ELSE start # NoItem /\ start \notin calm)
      /\ ahead' = ahead \cup FirstPosts(list, start)
      /\ calm' = {p \in Rows(list, start) \ FirstPosts(list, start) : V(p) = SV(p)}
      /\ UNCHANGED <<tableVars, list, limit, start, number, seen, again, steady>>
  BY AskIs
<1>2. /\ FirstPosts(list, start) # {} => Exact(list) /\ ~ByOffset(list) /\ start = NoItem
      /\ \/ Closed(list) /\ page' = <<>> /\ full' = FALSE
         \/ \E first, rows, s : AskedPage(first, rows, s)
  BY AskPage
<1>3. /\ Typed /\ WatchInv /\ SeekInv /\ OffsetInv /\ TablesFit /\ Known(list)
      /\ limit \in Nat \ {0} /\ number \in Nat
  BY ListKnown DEF PageInv, Typed
<1>4. (lost => lost') /\ lost' \in BOOLEAN
  BY <1>1, <1>3 DEF Typed, Quiet
<1>5. Typed'
  <2>1. TablesFit'
    BY <1>1, <1>3, SameFit
  <2>2. page' \in Seq(Nat \ {NoItem}) /\ full' \in BOOLEAN
    <3>1. CASE page' = <<>> /\ full' = FALSE
      <4>1. <<>> \in Seq(Nat \ {NoItem})
        OBVIOUS
      <4> QED BY <3>1, <4>1
    <3>2. CASE \E first, rows, s : AskedPage(first, rows, s)
      BY <3>2 DEF AskedPage
    <3> QED BY <1>2, <3>1, <3>2
  <2> QED BY <1>1, <1>3, <1>4, <2>1, <2>2 DEF Typed
<1>6. WatchInv'
  <2>1. steady' \subseteq Visible(list)' /\ (Closed(list)' => steady' = {})
    BY <1>1, <1>3, SameLists DEF WatchInv
  <2>2. calm' \subseteq Sought(list)'
    <3>1. Sought(list)' = Sought(list)
      BY <1>1, SameLists
    <3> QED BY <1>1, <1>3, <3>1, RowsFit
  <2>3. \A p \in steady' \cap calm' : V(p)' = SV(p)'
    BY <1>1, SameValues
  <2>4. ASSUME list'.name = "replies", ~lost', NEW q \in calm'
        PROVE  Replied(list.account, q)' = {list'.account}
    <3>1. list.name = "replies" /\ ~ByOffset(list)
      BY <1>1, <2>4 DEF ByOffset
    <3>2. Rows(list, start) = Rows(list, NoItem)
      BY <2>4, <3>1, AskSeeks
    <3>3. Replied(list.account, q) = {list.account}
      BY <1>1, <1>3, <3>1, <3>2, RepliesOf
    <3> QED BY <1>1, <3>3, SameLists
  <2> QED BY <1>1, <2>1, <2>2, <2>3, <2>4 DEF WatchInv
<1>7. (Exact(list)' <=> Exact(list)) /\ (ByOffset(list)' <=> ByOffset(list))
  BY <1>1, SameLists
<1>8. SeekInv'
  <2>1. SUFFICES ASSUME ~ByOffset(list), ~lost'
                 PROVE  /\ Fresh' => seen' = {}
                        /\ AskInv' /\ LoadInv'
                        /\ Exact(list)' => again' \cap steady' \subseteq ahead'
                        /\ ~Exact(list)' => ahead' = {}
    BY <1>7 DEF SeekInv
  <2>2. /\ Fresh => seen = {}
        /\ Exact(list) => again \cap steady \subseteq ahead
        /\ ~Exact(list) => ahead = {}
    BY <1>3, <1>4, <2>1 DEF SeekInv
  <2>3. Fresh' => seen' = {}
    BY <1>1, <2>2 DEF Fresh
  <2>4. AskInv'
    BY <1>1 DEF AskInv
  <2>5. (Exact(list)' => again' \cap steady' \subseteq ahead') /\ (~Exact(list)' => ahead' = {})
    BY <1>1, <1>2, <1>7, <2>2
  <2>6. \A p, q : (Beyond(p, q)' <=> Beyond(p, q)) /\ (UpTo(p, q)' <=> UpTo(p, q)) /\ V(p)' = V(p)
    BY <1>1, SameValues
  <2>7. /\ full' => page' # <<>>
        /\ \A p \in steady \ (seen \cup ToSet(page')) :
              full' /\ \A q \in ToSet(page') \cap calm' : Beyond(p, q)
        /\ \A p \in (steady \cap seen) \ ahead' :
              \A q \in ToSet(page') \cap calm' : UpTo(p, q)
        /\ \A i, j \in DOMAIN page' :
              i < j /\ page'[i] \in steady \ ahead' /\ page'[j] \in calm' => UpTo(page'[i], page'[j])
        /\ Exact(list) => \A p \in steady : p \in ToSet(page') /\ p \in seen => p \in ahead'
        /\ ~Exact(list) /\ start \in steady =>
              \A p \in steady : /\ p \in ToSet(page') => V(p) <= V(start)
                                /\ p \in seen => V(p) >= V(start)
    <3>1. CASE Closed(list) /\ page' = <<>> /\ full' = FALSE
      <4>1. steady = {} /\ ToSet(page') = {} /\ DOMAIN page' = {}
        BY <1>3, <3>1 DEF WatchInv, ToSet
      <4> QED BY <3>1, <4>1
    <3>2. ASSUME NEW first, NEW rows, NEW s, AskedPage(first, rows, s)
          PROVE  /\ full' => page' # <<>>
                 /\ \A p \in steady \ (seen \cup ToSet(page')) :
                       full' /\ \A q \in ToSet(page') \cap calm' : Beyond(p, q)
                 /\ \A p \in (steady \cap seen) \ ahead' :
                       \A q \in ToSet(page') \cap calm' : UpTo(p, q)
                 /\ \A i, j \in DOMAIN page' :
                       i < j /\ page'[i] \in steady \ ahead' /\ page'[j] \in calm'
                         => UpTo(page'[i], page'[j])
                 /\ Exact(list) => \A p \in steady : p \in ToSet(page') /\ p \in seen => p \in ahead'
                 /\ ~Exact(list) /\ start \in steady =>
                       \A p \in steady : /\ p \in ToSet(page') => V(p) <= V(start)
                                         /\ p \in seen => V(p) >= V(start)
      BY <2>1, <3>2, AskSeek
    <3> QED BY <1>2, <3>1, <3>2
  <2>8. LoadInv'
    <3>1. \A p \in steady' \ (seen' \cup ToSet(page)') :
              full' /\ \A q \in ToSet(page)' \cap calm' : Beyond(p, q)'
      BY <1>1, <2>6, <2>7
    <3>2. \A p \in (steady' \cap seen') \ ahead' :
              \A q \in ToSet(page)' \cap calm' : UpTo(p, q)'
      BY <1>1, <2>6, <2>7
    <3>3. ASSUME NEW i \in DOMAIN page', NEW j \in DOMAIN page',
                 i < j, page'[i] \in steady' \ ahead', page'[j] \in calm'
          PROVE  UpTo(page[i], page[j])'
      <4>1. UpTo(page'[i], page'[j])
        BY <1>1, <2>7, <3>3
      <4>2. UpTo(page[i], page[j])' <=> UpTo(page'[i], page'[j])
        BY <1>1, SameValues DEF UpTo
      <4> QED BY <4>1, <4>2
    <3>4. Exact(list)' => \A p \in steady' : p \in ToSet(page)' /\ p \in seen' => p \in ahead'
      BY <1>1, <1>7, <2>7
    <3>5. ASSUME ~Exact(list)', start' \in steady', NEW p \in steady'
          PROVE  /\ p \in ToSet(page)' => V(p)' <= V(start)'
                 /\ p \in seen' => V(p)' >= V(start)'
      <4>1. V(start)' = V(start)
        BY <1>1, SameValues DEF V
      <4> QED BY <1>1, <1>7, <2>6, <2>7, <3>5, <4>1
    <3> QED BY <2>7, <3>1, <3>2, <3>3, <3>4, <3>5 DEF LoadInv
  <2> QED BY <2>3, <2>4, <2>5, <2>8
<1>9. OffsetInv'
  <2>1. SUFFICES ASSUME ByOffset(list), ~lost'
                 PROVE  /\ ToSet(page') \cap seen = {}
                        /\ full' => page' # <<>>
                        /\ First(seen \cup ToSet(page'))
                        /\ IF full'
                           THEN Cardinality(seen \cup ToSet(page')) = (number + 1) * limit
                           ELSE /\ Cardinality(seen \cup ToSet(page')) <= (number + 1) * limit
                                /\ steady \subseteq seen \cup ToSet(page')
    <3>1. First(seen \cup ToSet(page))' <=> First(seen \cup ToSet(page'))
      BY <1>1, SameValues DEF First
    <3> QED BY <1>1, <1>7, <3>1 DEF OffsetInv
  <2>2. CASE \E first, rows, s : AskedPage(first, rows, s)
    BY <2>1, <2>2, AskOffset
  <2>3. CASE Closed(list) /\ page' = <<>> /\ full' = FALSE
    <3>1. OfAccounts(list)
      BY <1>3, <2>1, ListKnown
    <3>2. list.api = "condenser"
      BY <1>3, <3>1, KindsAre DEF Kind
    <3>3. ~Closed(list)
      BY <3>2 DEF Closed
    <3> QED BY <2>3, <3>3
  <2> QED BY <1>2, <2>2, <2>3
<1>10. WalkComplete'
  BY <1>1 DEF WalkComplete
<1> QED BY <1>5, <1>6, <1>8, <1>9, <1>10 DEF PageInv

LEMMA SameOK ==
  ASSUME PageInv, UNCHANGED vars
  PROVE  PageInv'
<1>1. /\ UNCHANGED <<tableVars, list>>
      /\ UNCHANGED <<phase, limit, start, number, page, seen, again, ahead, full, lost, steady, calm>>
  BY DEF vars, walk
<1>2. Typed'
  BY <1>1, SameFit DEF PageInv, Typed
<1>3. WatchInv'
  BY <1>1, SameLists, SameValues DEF PageInv, WatchInv
<1>4. /\ Exact(list)' <=> Exact(list)
      /\ ByOffset(list)' <=> ByOffset(list)
      /\ \A p, q : (Beyond(p, q)' <=> Beyond(p, q)) /\ (UpTo(p, q)' <=> UpTo(p, q)) /\ V(p)' = V(p)
  BY <1>1, SameLists, SameValues
<1>5. V(start)' = V(start) /\ \A i, j : UpTo(page[i], page[j])' <=> UpTo(page[i], page[j])
  BY <1>1, <1>4, SameValues DEF V, UpTo, SV
<1>6. SeekInv'
  <2>1. (AskInv => AskInv') /\ (LoadInv => LoadInv') /\ (Fresh' <=> Fresh)
    BY <1>1, <1>4, <1>5 DEF AskInv, LoadInv, Fresh
  <2> QED BY <1>1, <1>4, <2>1 DEF PageInv, SeekInv
<1>7. OffsetInv'
  <2>1. (First(seen)' <=> First(seen)) /\ (First(seen \cup ToSet(page))' <=> First(seen \cup ToSet(page)))
    BY <1>1, <1>4 DEF First
  <2> QED BY <1>1, <1>4, <2>1 DEF PageInv, OffsetInv
<1>8. WalkComplete'
  BY <1>1 DEF PageInv, WalkComplete
<1> QED BY <1>2, <1>3, <1>6, <1>7, <1>8 DEF PageInv

LEMMA StepOK == PageInv /\ [Next]_vars => PageInv'
BY BeginOK, TablesOK, AskOK, LoadOK, SameOK DEF Next, Rest

\* A walk that ended on a short page, and never went on from a row, or at an
\* offset, that had moved, was given every row that was there all along: for
\* every list of the API, any limit and any changes of the tables meanwhile.
THEOREM WalksComplete == Spec => []WalkComplete
<1>1. PageInv => WalkComplete
  BY DEF PageInv
<1> QED BY <1>1, InitOK, StepOK, PTL DEF Spec

\* No row that stays is given twice in the lists of bridge_api that tell rows
\* of one field apart by the id, but for those the operators put first.
THEOREM GivenOnceAlways == Spec => []GivenOnce
<1>1. PageInv => GivenOnce
  BY ListKnown DEF PageInv, SeekInv, GivenOnce
<1> QED BY <1>1, InitOK, StepOK, PTL DEF Spec

\* A walk among rows that stay ends on a full page only where nothing tells
\* them apart from the start, or where all had been put first.
THEOREM StopsAtTies == Spec => StopsOnlyAtTies
<1> DEFINE Stop == phase = "load" /\ phase' = "done" /\ full /\ ~lost
                   /\ ToSet(page) \cup ({start} \ {NoItem}) \subseteq steady =>
                     IF Exact(list) THEN ToSet(page) \subseteq ahead
                     ELSE start # NoItem /\ \A p \in ToSet(page) : Value(list, p) = Value(list, start)
<1>1. ASSUME PageInv, [Next]_vars PROVE [Stop]_vars
  <2>1. CASE Load
    <3>1. CASE ByOffset(list)
      BY <1>1, <2>1, <3>1, LoadOffset
    <3>2. CASE ~ByOffset(list)
      BY <1>1, <2>1, <3>2, LoadSeek DEF V
    <3> QED BY <3>1, <3>2
  <2>2. CASE Begin \/ Ask \/ TablesStep \/ Rest \/ UNCHANGED vars
    <3>1. Begin \/ Ask => phase # "load"
      BY DEF Begin, Ask
    <3>2. TablesStep \/ Rest \/ UNCHANGED vars => phase' = phase
      BY DEF TablesStep, Rest, vars, walk
    <3> QED BY <2>2, <3>1, <3>2
  <2> QED BY <1>1, <2>1, <2>2 DEF Next
<1>2. [Stop]_vars <=> [phase = "load" /\ phase' = "done" /\ full /\ ~lost
       /\ ToSet(page) \cup ({start} \ {NoItem}) \subseteq steady =>
         IF Exact(list) THEN ToSet(page) \subseteq ahead
         ELSE start # NoItem /\ \A p \in ToSet(page) : Value(list, p) = Value(list, start)]_vars
  OBVIOUS
<1> HIDE DEF Stop
<1> QED BY <1>1, <1>2, InitOK, StepOK, PTL DEF Spec, StopsOnlyAtTies
=============================================================================
