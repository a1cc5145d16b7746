--------------------------- MODULE NoticesProofs ---------------------------
(* Proofs about Notices, for any posts, accounts, pages and crashes. *)
EXTENDS Notices, SequenceTheorems, FiniteSetTheorems, WellFoundedInduction, TLAPS

-----------------------------------------------------------------------------
(* Sets put in order. *)

Arranged(s, place) ==
  \A i, j \in DOMAIN s : i < j => s[i] # s[j] /\ place[s[i]] <= place[s[j]]
Orders(S, place) == {s \in [1 .. Cardinality(S) -> S] : Arranged(s, place)}

\* A set of numbers that is not empty has a least one.
LEMMA LeastExists ==
  ASSUME NEW S, S \subseteq Nat, S # {}
  PROVE  \E k \in S : \A j \in S : k <= j
<1>1. PICK n \in S : TRUE
  OBVIOUS
<1>2. PICK k \in S : \A j \in S : <<j, k>> \notin OpToRel(<, Nat)
  <2>1. IsWellFoundedOn(OpToRel(<, Nat), Nat)
    BY NatLessThanWellFounded
  <2> HIDE DEF OpToRel
  <2> QED BY <1>1, <2>1, WFMin
<1>3. ASSUME NEW j \in S PROVE k <= j
  <2>1. <<j, k>> \in Nat \X Nat /\ <<j, k>>[1] = j /\ <<j, k>>[2] = k
    OBVIOUS
  <2>2. ~(j < k)
    BY <1>2, <2>1 DEF OpToRel
  <2> QED BY <2>2
<1> QED BY <1>3

\* A set that can be put in order without its first member can be put in order.
LEMMA FirstThenRest ==
  ASSUME NEW S, IsFiniteSet(S), NEW place, \A x \in S : place[x] \in Nat,
         NEW m \in S, \A x \in S : place[m] <= place[x],
         Orders(S \ {m}, place) # {}
  PROVE  Orders(S, place) # {}
<1> DEFINE T == S \ {m}
           k == Cardinality(S)
<1>1. k \in Nat /\ k > 0 /\ Cardinality(T) = k - 1
  <2>1. k \in Nat /\ Cardinality(T) = k - 1
    BY FS_RemoveElement, FS_CardinalityType
  <2>2. k # 0
    BY FS_EmptySet
  <2> QED BY <2>1, <2>2
<1>2. PICK t \in [1 .. (k - 1) -> T] : Arranged(t, place)
  BY <1>1 DEF Orders
<1> DEFINE s == [i \in 1 .. k |-> IF i = 1 THEN m ELSE t[i - 1]]
<1> HIDE DEF T, k
<1>3. \A i \in 1 .. k : i # 1 => i - 1 \in 1 .. (k - 1) /\ t[i - 1] \in T
  BY <1>1
<1>4. T \subseteq S /\ m \notin T
  BY DEF T
<1>5. s \in [1 .. k -> S]
  BY <1>3, <1>4
<1>6. ASSUME NEW i \in 1 .. k, NEW j \in 1 .. k, i < j
      PROVE  s[i] # s[j] /\ place[s[i]] <= place[s[j]]
  <2>1. j # 1 /\ j - 1 \in 1 .. (k - 1) /\ s[j] = t[j - 1] /\ s[j] \in T
    BY <1>1, <1>3, <1>6
  <2>2. CASE i = 1
    BY <1>4, <2>1, <2>2
  <2>3. CASE i # 1
    <3>1. i - 1 \in 1 .. (k - 1) /\ s[i] = t[i - 1] /\ i - 1 < j - 1
      BY <1>1, <1>3, <1>6, <2>3
    <3> QED BY <1>2, <2>1, <3>1 DEF Arranged
  <2> QED BY <2>2, <2>3
<1>7. Arranged(s, place)
  BY <1>5, <1>6 DEF Arranged
<1> HIDE DEF s
<1> QED BY <1>5, <1>7 DEF Orders, k

\* Every finite set can be put in order.
LEMMA OrderExists ==
  ASSUME NEW S, IsFiniteSet(S), NEW place, \A x \in S : place[x] \in Nat
  PROVE  Orders(S, place) # {}
<1> DEFINE Stuck(U) == IsFiniteSet(U) /\ Orders(U, place) = {}
           Sizes == {n \in Nat : \E U \in SUBSET S : Stuck(U) /\ Cardinality(U) = n}
<1> SUFFICES ASSUME Stuck(S) PROVE FALSE
  OBVIOUS
<1>1. Cardinality(S) \in Sizes
  BY FS_CardinalityType
<1>2. PICK n \in Sizes : \A k \in Sizes : n <= k
  <2>1. Sizes \subseteq Nat /\ Sizes # {}
    BY <1>1
  <2> HIDE DEF Sizes
  <2> QED BY <2>1, LeastExists
<1>3. PICK U \in SUBSET S : Stuck(U) /\ Cardinality(U) = n
  OBVIOUS
<1>4. U # {}
  <2> SUFFICES ASSUME U = {} PROVE FALSE
    OBVIOUS
  <2>1. 1 .. Cardinality(U) = {}
    BY FS_EmptySet
  <2>2. [i \in 1 .. Cardinality(U) |-> 0] \in Orders(U, place)
    BY <2>1 DEF Orders, Arranged
  <2> QED BY <1>3, <2>2
<1>5. PICK m \in U : \A u \in U : place[m] <= place[u]
  <2> DEFINE V == {place[u] : u \in U}
  <2>1. V \subseteq Nat /\ V # {}
    BY <1>4
  <2> HIDE DEF V
  <2>2. PICK v \in V : \A w \in V : v <= w
    BY <2>1, LeastExists
  <2> QED BY <2>2 DEF V
<1>6. IsFiniteSet(U \ {m}) /\ Cardinality(U \ {m}) = n - 1 /\ n \in Nat /\ U \ {m} \in SUBSET S
  BY <1>3, FS_RemoveElement
<1>7. Orders(U \ {m}, place) # {}
  <2> SUFFICES ASSUME Orders(U \ {m}, place) = {} PROVE FALSE
    OBVIOUS
  <2>1. n - 1 \in Nat
    BY <1>6, FS_CardinalityType
  <2>2. n - 1 \in Sizes
    BY <1>6, <2>1
  <2> HIDE DEF Sizes
  <2>3. n <= n - 1
    BY <1>2, <2>2
  <2> QED BY <1>6, <2>3
<1>8. Orders(U, place) # {}
  <2>1. IsFiniteSet(U) /\ \A x \in U : place[x] \in Nat
    BY <1>3
  <2> QED BY <1>5, <1>7, <2>1, FirstThenRest
<1> QED BY <1>3, <1>8

\* Ordered gives each member of a finite set once, by its place.
LEMMA OrderedIs ==
  ASSUME NEW S, IsFiniteSet(S), NEW place, \A x \in S : place[x] \in Nat
  PROVE  LET s == Ordered(S, place) IN
         /\ Cardinality(S) \in Nat
         /\ s \in [1 .. Cardinality(S) -> S]
         /\ s \in Seq(S) /\ Len(s) = Cardinality(S)
         /\ \A i, j \in 1 .. Cardinality(S) : i # j => s[i] # s[j]
         /\ \A i, j \in 1 .. Cardinality(S) : i < j => place[s[i]] <= place[s[j]]
         /\ \A x \in S : \E i \in 1 .. Cardinality(S) : s[i] = x
<1> DEFINE s == Ordered(S, place)
           k == Cardinality(S)
<1>1. s \in [1 .. k -> S] /\ Arranged(s, place)
  <2>1. \E t \in [1 .. k -> S] : Arranged(t, place)
    BY OrderExists DEF Orders
  <2> QED BY <2>1 DEF Ordered, Arranged
<1>2. k \in Nat
  BY FS_CardinalityType
<1>3. IsFiniteSet(1 .. k) /\ Cardinality(1 .. k) = k
  BY <1>2, FS_Interval
<1> HIDE DEF s
<1>4. ASSUME NEW i \in 1 .. k, NEW j \in 1 .. k, i # j PROVE s[i] # s[j]
  <2>1. i < j \/ j < i
    BY <1>2, <1>4
  <2> QED BY <1>1, <2>1 DEF Arranged
<1>5. s \in Injection(1 .. k, S)
  BY <1>1, <1>4 DEF Injection, IsInjective
<1>6. s \in Surjection(1 .. k, S)
  BY <1>3, <1>5, FS_Injection
<1>7. \A x \in S : \E i \in 1 .. k : s[i] = x
  BY <1>6 DEF Surjection
<1>8. s \in Seq(S) /\ Len(s) = k
  BY <1>1, <1>2
<1> QED BY <1>1, <1>2, <1>4, <1>7, <1>8 DEF s, k, Arranged

\* LastOf is the greatest of a bounded set of numbers.
LEMMA LastOfIs ==
  ASSUME NEW b \in Nat, NEW S, S \subseteq 0 .. b
  PROVE  /\ LastOf(S) \in 0 .. b
         /\ S # {} => LastOf(S) \in S
         /\ \A p \in S : p <= LastOf(S)
<1>1. CASE S = {}
  BY <1>1 DEF LastOf
<1>2. CASE S # {}
  <2> DEFINE D == {b - p : p \in S}
  <2>1. D \subseteq Nat /\ D # {}
    <3>1. \A p \in S : b - p \in Nat
      OBVIOUS
    <3> QED BY <1>2, <3>1
  <2> HIDE DEF D
  <2>2. PICK d \in D : \A c \in D : d <= c
    BY <2>1, LeastExists
  <2>3. PICK p \in S : d = b - p
    BY DEF D
  <2>4. \A q \in S : q <= p
    <3> SUFFICES ASSUME NEW q \in S PROVE q <= p
      OBVIOUS
    <3>1. b - q \in D /\ p \in Nat /\ q \in Nat
      BY DEF D
    <3> QED BY <2>2, <2>3, <3>1
  <2>5. LastOf(S) \in S /\ \A q \in S : q <= LastOf(S)
    BY <1>2, <2>4 DEF LastOf
  <2> QED BY <2>5
<1> QED BY <1>1, <1>2

-----------------------------------------------------------------------------
(* Types and marks. *)

LEMMA IdsAre ==
  /\ Len(Posts) \in Nat /\ Ids = 1 .. Len(Posts) /\ IsFiniteSet(Ids)
  /\ \A p \in Ids : /\ Author(p) \in Accounts
                    /\ IsReply(p) => ParentAuthor(p) \in Accounts
<1>1. Posts \in Seq([author : Accounts, parent : Nat])
  BY NoticesAssumption
<1>2. Len(Posts) \in Nat /\ Ids = 1 .. Len(Posts)
  BY <1>1 DEF Ids
<1>3. IsFiniteSet(1 .. Len(Posts))
  BY <1>2, FS_Interval
<1>4. ASSUME NEW p \in Ids
      PROVE  Author(p) \in Accounts /\ (IsReply(p) => ParentAuthor(p) \in Accounts)
  <2>1. Posts[p] \in [author : Accounts, parent : Nat] /\ Posts[p].parent < p
    <3>1. \A q \in 1 .. Len(Posts) : Posts[q] \in [author : Accounts, parent : Nat]
      BY <1>1, ElementOfSeq
    <3> QED BY <1>2, <3>1, NoticesAssumption
  <2>2. IsReply(p) => Posts[p].parent \in Ids
    BY <1>2, <2>1 DEF IsReply, NoParent
  <2>3. \A q \in Ids : Posts[q].author \in Accounts
    <3>1. \A q \in 1 .. Len(Posts) : Posts[q] \in [author : Accounts, parent : Nat]
      BY <1>1, ElementOfSeq
    <3> QED BY <1>2, <3>1
  <2> QED BY <2>1, <2>2, <2>3 DEF Author, ParentAuthor
<1> QED BY <1>2, <1>3, <1>4

Types == {"reply", "mention", "vote", "follow", "reblog", "error"}
Note == [type : Types, src : Accounts \cup {NoAccount}, dst : Accounts, post : Nat]
FlushNote == [type : {"reply", "mention", "vote"}, src : Accounts, dst : Accounts, post : Ids]

Typed ==
  /\ state \in [Ids -> {"none", "live", "deleted"}]
  /\ cache \subseteq Ids
  /\ follows \in [Pairs -> 0 .. 3]
  /\ notifs \in Seq(Note)
  /\ mode \in {"sync", "flush", "live"}
  /\ queue \in [Ids -> Levels \cup {"clean"}]
  /\ votes \in [Ids -> SUBSET Voters]
  /\ lastId \in 0 .. Len(Posts)
  /\ batch \in Seq(Ids \X Levels)
  /\ writing \in Seq(FlushNote)
  /\ storing \subseteq Ids /\ excused \subseteq Ids
  /\ crashes \in Nat

\* What holds of the posts, the rows stored or about to be, the marks and the
\* last id: rows and marks are of live posts, rows are not past the last id, and
\* what has a row is not to be inserted again.
Marked(s, c, q, l) ==
  /\ \A p \in c : s[p] = "live" /\ p <= l
  /\ \A p \in Ids : q[p] # "clean" => s[p] = "live"
  /\ \A p \in Ids : q[p] = "insert" => p \notin c

\* A live post past the last id is to be inserted.
Due(s, q, l) == \A p \in Ids : s[p] = "live" /\ p > l => q[p] = "insert"

-----------------------------------------------------------------------------
(* What an operation of a block makes of them. *)

EffectOK(e) ==
  /\ e.state \in [Ids -> {"none", "live", "deleted"}]
  /\ e.cache \subseteq Ids /\ e.excused \subseteq Ids
  /\ e.follows \in [Pairs -> 0 .. 3]
  /\ e.queue \in [Ids -> Levels \cup {"clean"}]
  /\ e.votes \in [Ids -> SUBSET Voters]
  /\ \/ e.notifs = notifs
     \/ \E n \in Note : e.notifs = Append(notifs, n) /\ n.type \in {"follow", "reblog", "error"}
  /\ Marked(e.state, e.cache, e.queue, lastId)
  /\ Due(e.state, e.queue, lastId)
  /\ e.cache \ e.excused \subseteq cache \ excused
  /\ \A p \in Ids : p <= lastId /\ state[p] # "none" /\ queue[p] # "insert"
        => e.state[p] # "none" /\ e.queue[p] # "insert"

LEMMA DirtyIs ==
  ASSUME NEW q \in [Ids -> Levels \cup {"clean"}], NEW p \in Ids, NEW level \in Levels
  PROVE  /\ Dirty(q, p, level) \in [Ids -> Levels \cup {"clean"}]
         /\ \A r \in Ids : r # p => Dirty(q, p, level)[r] = q[r]
         /\ Dirty(q, p, level)[p] # "clean"
         /\ Dirty(q, p, level)[p] = "insert" <=> level = "insert" \/ q[p] = "insert"
BY DEF Dirty, Rank, Levels

\* A live post that is marked to be updated or voted on.
LEMMA RemarkOK ==
  ASSUME Typed, Marked(state, cache, queue, lastId), Due(state, queue, lastId),
         NEW p \in Ids, state[p] = "live", NEW e, NEW level \in {"update", "upvote"},
         /\ e.state = state /\ e.cache = cache /\ e.follows = follows /\ e.notifs = notifs
         /\ e.queue = Dirty(queue, p, level) /\ e.excused = excused,
         e.votes \in [Ids -> SUBSET Voters]
  PROVE  EffectOK(e)
<1>1. level \in Levels /\ level # "insert" /\ queue \in [Ids -> Levels \cup {"clean"}]
  BY DEF Levels, Typed
<1>2. /\ e.queue \in [Ids -> Levels \cup {"clean"}]
      /\ \A r \in Ids : r # p => e.queue[r] = queue[r]
      /\ e.queue[p] = "insert" <=> queue[p] = "insert"
  BY <1>1, DirtyIs
<1>3. \A r \in Ids : e.queue[r] = "insert" <=> queue[r] = "insert"
  BY <1>2
<1>4. Marked(e.state, e.cache, e.queue, lastId)
  BY <1>2, <1>3 DEF Marked
<1>5. Due(e.state, e.queue, lastId)
  BY <1>3 DEF Due
<1>6. \A r \in Ids : r <= lastId /\ state[r] # "none" /\ queue[r] # "insert"
          => e.state[r] # "none" /\ e.queue[r] # "insert"
  BY <1>3
<1> QED BY <1>2, <1>4, <1>5, <1>6 DEF EffectOK, Typed

LEMMA CommentOK ==
  ASSUME Typed, Marked(state, cache, queue, lastId), Due(state, queue, lastId), NEW p \in Ids
  PROVE  EffectOK(Comment(p))
<1> DEFINE e == Comment(p)
<1> USE IdsAre
<1>1. CASE state[p] = "live"
  <2>1. /\ e.state = state /\ e.cache = cache /\ e.follows = follows /\ e.notifs = notifs
        /\ e.queue = Dirty(queue, p, "update") /\ e.votes = votes /\ e.excused = excused
    BY <1>1 DEF Comment, Now
  <2> HIDE DEF e
  <2>2. EffectOK(e)
    BY <1>1, <2>1, RemarkOK DEF Typed
  <2> QED BY <2>2 DEF e
<1>2. CASE state[p] # "live" /\ (state[p] = "none" \/ p > lastId)
  <2>1. /\ e.state = [state EXCEPT ![p] = "live"] /\ e.cache = cache /\ e.follows = follows
        /\ e.notifs = notifs
        /\ e.queue = Dirty(queue, p, "insert") /\ e.votes = votes /\ e.excused = excused
    BY <1>2 DEF Comment, Now
  <2> HIDE DEF e
  <2>2. queue \in [Ids -> Levels \cup {"clean"}] /\ "insert" \in Levels
    BY DEF Typed, Levels
  <2>3. /\ e.queue \in [Ids -> Levels \cup {"clean"}] /\ e.queue[p] = "insert"
        /\ \A r \in Ids : r # p => e.queue[r] = queue[r]
    BY <2>1, <2>2, DirtyIs
  <2>4. /\ e.state \in [Ids -> {"none", "live", "deleted"}] /\ e.state[p] = "live"
        /\ \A r \in Ids : r # p => e.state[r] = state[r]
    BY <2>1 DEF Typed
  <2>5. p \notin cache /\ cache \subseteq Ids
    BY <1>2 DEF Marked, Typed
  <2>6. Marked(e.state, e.cache, e.queue, lastId)
    BY ZenonT(30), <2>1, <2>3, <2>4, <2>5 DEF Marked
  <2>7. Due(e.state, e.queue, lastId)
    BY <2>3, <2>4 DEF Due
  <2>8. ~(p <= lastId /\ state[p] # "none")
    BY <1>2 DEF Typed
  <2>9. \A r \in Ids : r <= lastId /\ state[r] # "none" /\ queue[r] # "insert"
            => e.state[r] # "none" /\ e.queue[r] # "insert"
    BY <2>3, <2>4, <2>8
  <2>10. EffectOK(e)
    BY <2>1, <2>3, <2>4, <2>6, <2>7, <2>9 DEF EffectOK, Typed
  <2> QED BY <2>10 DEF e
<1>3. CASE state[p] # "live" /\ ~(state[p] = "none" \/ p > lastId)
  <2>1. /\ e.state = [state EXCEPT ![p] = "live"] /\ e.cache = cache \cup {p}
        /\ e.follows = follows /\ e.notifs = notifs
        /\ e.queue = Dirty(queue, p, "update") /\ e.votes = votes
        /\ e.excused = excused \cup {p}
    BY <1>3 DEF Comment, Now
  <2> DEFINE q == Dirty(queue, p, "update")
  <2>2. /\ q \in [Ids -> Levels \cup {"clean"}]
        /\ \A r \in Ids : r # p => q[r] = queue[r]
        /\ q[p] # "clean" /\ (q[p] = "insert" <=> queue[p] = "insert")
    BY DirtyIs DEF Typed, Levels
  <2> HIDE DEF e, q
  <2>s. p <= lastId /\ queue[p] = "clean" /\ e.queue = q
    BY <1>3, <2>1 DEF Typed, Marked, q
  <2>v. e.state[p] = "live" /\ \A r \in Ids : r # p => e.state[r] = state[r]
    BY <2>1 DEF Typed
  <2>t. Marked(e.state, e.cache, e.queue, lastId) /\ Due(e.state, e.queue, lastId)
    <3>1. \A r \in e.cache : e.state[r] = "live" /\ r <= lastId
      BY <2>1, <2>s, <2>v DEF Typed, Marked
    <3>2. \A r \in Ids : e.queue[r] # "clean" => e.state[r] = "live"
      BY <2>2, <2>s, <2>v DEF Marked
    <3>3. \A r \in Ids : e.queue[r] = "insert" => r \notin e.cache
      BY <2>1, <2>2, <2>s DEF Marked
    <3>4. \A r \in Ids : e.state[r] = "live" /\ r > lastId => e.queue[r] = "insert"
      <4> SUFFICES ASSUME NEW r \in Ids, e.state[r] = "live", r > lastId PROVE e.queue[r] = "insert"
        OBVIOUS
      <4>1. r \in Int /\ lastId \in Int
        BY IdsAre DEF Typed
      <4>2. r # p
        BY <2>s, <4>1
      <4> QED BY <2>2, <2>s, <2>v, <4>2 DEF Due
    <3> QED BY <3>1, <3>2, <3>3, <3>4 DEF Marked, Due
  <2>u. \A r \in Ids : r <= lastId /\ state[r] # "none" /\ queue[r] # "insert"
            => e.state[r] # "none" /\ e.queue[r] # "insert"
    BY <2>1, <2>2, <2>s DEF Typed
  <2>3. EffectOK(e)
    BY <2>1, <2>2, <2>s, <2>t, <2>u DEF EffectOK, Typed
  <2> QED BY <2>3 DEF e
<1> QED BY <1>1, <1>2, <1>3

LEMMA DeleteOK ==
  ASSUME Typed, Marked(state, cache, queue, lastId), Due(state, queue, lastId),
         NEW p \in Ids, state[p] = "live"
  PROVE  EffectOK(Delete(p))
<1> DEFINE e == Delete(p)
<1>1. /\ e.state = [state EXCEPT ![p] = "deleted"] /\ e.cache = cache \ {p}
      /\ e.follows = follows /\ e.notifs = notifs
      /\ e.queue = [queue EXCEPT ![p] = "clean"] /\ e.votes = votes /\ e.excused = excused
  BY DEF Delete, Now
<1> HIDE DEF e
<1>2. /\ e.state[p] = "deleted" /\ e.queue[p] = "clean"
      /\ \A r \in Ids : r # p => e.state[r] = state[r] /\ e.queue[r] = queue[r]
      /\ e.state \in [Ids -> {"none", "live", "deleted"}]
      /\ e.queue \in [Ids -> Levels \cup {"clean"}]
  BY <1>1 DEF Typed
<1>3. Marked(e.state, e.cache, e.queue, lastId) /\ Due(e.state, e.queue, lastId)
  <2>1. cache \subseteq Ids
    BY DEF Typed
  <2> QED BY <1>1, <1>2, <2>1 DEF Marked, Due
<1>4. \A r \in Ids : r <= lastId /\ state[r] # "none" /\ queue[r] # "insert"
          => e.state[r] # "none" /\ e.queue[r] # "insert"
  BY <1>2
<1>5. EffectOK(e)
  BY <1>1, <1>2, <1>3, <1>4 DEF EffectOK, Typed
<1> QED BY <1>5 DEF e

LEMMA VoteOK ==
  ASSUME Typed, Marked(state, cache, queue, lastId), Due(state, queue, lastId),
         NEW p \in Ids, state[p] = "live", NEW v \in Voters
  PROVE  EffectOK(Vote(p, v))
<1> DEFINE e == Vote(p, v)
<1>1. /\ e.state = state /\ e.cache = cache /\ e.follows = follows /\ e.notifs = notifs
      /\ e.queue = Dirty(queue, p, "upvote") /\ e.votes = [votes EXCEPT ![p] = @ \cup {v}]
      /\ e.excused = excused
  BY DEF Vote, Now
<1> HIDE DEF e
<1>2. e.votes \in [Ids -> SUBSET Voters]
  BY <1>1 DEF Typed
<1>3. EffectOK(e)
  BY <1>1, <1>2, RemarkOK
<1> QED BY <1>3 DEF e

\* The operations that only follow or notify.
LEMMA OtherOK ==
  ASSUME Typed, Marked(state, cache, queue, lastId), Due(state, queue, lastId), NEW e,
         /\ e.state = state /\ e.cache = cache
         /\ e.queue = queue /\ e.votes = votes /\ e.excused = excused,
         e.follows \in [Pairs -> 0 .. 3],
         \/ e.notifs = notifs
         \/ \E n \in Note : e.notifs = Append(notifs, n) /\ n.type \in {"follow", "reblog", "error"}
  PROVE  EffectOK(e)
BY DEF EffectOK, Typed, Marked, Due

LEMMA EffectsOK ==
  ASSUME Typed, Marked(state, cache, queue, lastId), Due(state, queue, lastId), NEW e \in Effects
  PROVE  EffectOK(e)
<1>1. CASE \E p \in Ids : e = Comment(p)
  BY <1>1, CommentOK
<1>2. CASE \E p \in Ids : state[p] = "live" /\ e = Delete(p)
  BY <1>2, DeleteOK
<1>3. CASE \E p \in Ids, v \in Voters : state[p] = "live" /\ e = Vote(p, v)
  BY <1>3, VoteOK
<1>4. CASE \E pair \in Pairs, new \in 0 .. 3 : e = FollowOp(pair, new)
  <2>1. PICK pair \in Pairs, new \in 0 .. 3 : e = FollowOp(pair, new)
    BY <1>4
  <2>2. /\ e.state = state /\ e.cache = cache
        /\ e.queue = queue /\ e.votes = votes /\ e.excused = excused
        /\ e.follows = [follows EXCEPT ![pair] = new]
        /\ e.notifs = IF follows[pair] = 0 /\ new = 1
                      THEN Append(notifs, Notif("follow", pair[1], pair[2], NoPost)) ELSE notifs
    BY <2>1 DEF FollowOp, Now
  <2>3. Notif("follow", pair[1], pair[2], NoPost) \in Note
    <3>1. pair[1] \in Accounts /\ pair[2] \in Accounts
      BY NoticesAssumption
    <3> QED BY <3>1 DEF Notif, Note, Types, NoPost
  <2>4. Notif("follow", pair[1], pair[2], NoPost).type = "follow"
    BY DEF Notif
  <2>5. e.follows \in [Pairs -> 0 .. 3]
    BY <2>2 DEF Typed
  <2> HIDE DEF Note
  <2> QED BY <2>2, <2>3, <2>4, <2>5, OtherOK
<1>5. CASE \E a \in Rebloggers, p \in Ids : e = Reblog(a, p)
  <2>1. PICK a \in Rebloggers, p \in Ids : e = Reblog(a, p)
    BY <1>5
  <2>2. /\ e.state = state /\ e.cache = cache
        /\ e.queue = queue /\ e.votes = votes /\ e.excused = excused
        /\ e.follows = follows
        /\ e.notifs = Append(notifs, Notif("reblog", a, Author(p), p))
    BY <2>1 DEF Reblog, Now
  <2>3. Notif("reblog", a, Author(p), p) \in Note
    <3>1. a \in Accounts /\ Author(p) \in Accounts /\ p \in Nat
      BY NoticesAssumption, IdsAre
    <3> QED BY <3>1 DEF Notif, Note, Types
  <2>4. Notif("reblog", a, Author(p), p).type = "reblog"
    BY DEF Notif
  <2>5. e.follows \in [Pairs -> 0 .. 3]
    BY <2>2 DEF Typed
  <2> QED BY <2>2, <2>3, <2>4, <2>5, OtherOK
<1>6. CASE \E a \in Moderators : e = CommunityOp(a)
  <2>1. PICK a \in Moderators : e = CommunityOp(a)
    BY <1>6
  <2>2. /\ e.state = state /\ e.cache = cache
        /\ e.queue = queue /\ e.votes = votes /\ e.excused = excused
        /\ e.follows = follows
        /\ e.notifs = Append(notifs, Notif("error", NoAccount, a, NoPost))
    BY <2>1 DEF CommunityOp, Now, ValidatedId
  <2>3. Notif("error", NoAccount, a, NoPost) \in Note
    BY NoticesAssumption DEF Notif, Note, Types, NoPost
  <2>4. Notif("error", NoAccount, a, NoPost).type = "error"
    BY DEF Notif
  <2>5. e.follows \in [Pairs -> 0 .. 3]
    BY <2>2 DEF Typed
  <2> QED BY <2>2, <2>3, <2>4, <2>5, OtherOK
<1> QED BY <1>1, <1>2, <1>3, <1>4, <1>5, <1>6 DEF Effects

-----------------------------------------------------------------------------
(* What a flush tells. *)

\* A flush can only tell of finitely many things.
LEMMA FlushNotesFinite == IsFiniteSet(FlushNote)
<1> DEFINE K == {"reply", "mention", "vote"}
           D == (K \X Accounts) \X (Accounts \X Ids)
           f == [d \in D |-> [type |-> d[1][1], src |-> d[1][2], dst |-> d[2][1], post |-> d[2][2]]]
<1>1. IsFiniteSet(K)
  <2>1. IsFiniteSet({"reply"}) /\ IsFiniteSet({"mention"}) /\ IsFiniteSet({"vote"})
    BY FS_Singleton
  <2>2. IsFiniteSet({"reply"} \cup {"mention"})
    BY <2>1, FS_Union
  <2>3. IsFiniteSet(({"reply"} \cup {"mention"}) \cup {"vote"})
    BY <2>1, <2>2, FS_Union
  <2>4. K = ({"reply"} \cup {"mention"}) \cup {"vote"}
    OBVIOUS
  <2> QED BY <2>3, <2>4
<1>2. IsFiniteSet(Accounts) /\ IsFiniteSet(Ids)
  BY NoticesAssumption, IdsAre
<1> HIDE DEF K
<1>3. IsFiniteSet(K \X Accounts) /\ IsFiniteSet(Accounts \X Ids)
  BY <1>1, <1>2, FS_Product
<1>4. IsFiniteSet(D)
  BY <1>3, FS_Product
<1>5. f \in Surjection(D, FlushNote)
  <2>1. f \in [D -> FlushNote]
    <3> SUFFICES ASSUME NEW d \in D
                 PROVE  [type |-> d[1][1], src |-> d[1][2], dst |-> d[2][1], post |-> d[2][2]]
                            \in FlushNote
      OBVIOUS
    <3>1. d[1][1] \in K /\ d[1][2] \in Accounts /\ d[2][1] \in Accounts /\ d[2][2] \in Ids
      OBVIOUS
    <3> QED BY <3>1 DEF FlushNote, K
  <2>2. ASSUME NEW n \in FlushNote PROVE \E d \in D : f[d] = n
    <3> DEFINE d == <<<<n.type, n.src>>, <<n.dst, n.post>>>>
    <3>1. d \in D
      BY DEF FlushNote, K
    <3>2. d[1][1] = n.type /\ d[1][2] = n.src /\ d[2][1] = n.dst /\ d[2][2] = n.post
      OBVIOUS
    <3>3. [type |-> n.type, src |-> n.src, dst |-> n.dst, post |-> n.post] = n
      BY DEF FlushNote
    <3>4. f[d] = [type |-> n.type, src |-> n.src, dst |-> n.dst, post |-> n.post]
      BY <3>1, <3>2
    <3> QED BY <3>1, <3>3, <3>4
  <2> QED BY <2>1, <2>2 DEF Surjection
<1> HIDE DEF D, f
<1> QED BY <1>4, <1>5, FS_Surjection

\* What is told of a post: a reply only when it is inserted, and nothing but
\* replies that has been told before.
LEMMA TellsIs ==
  ASSUME Typed, NEW f, NEW p \in Ids, NEW level, NEW names \in SUBSET Mentionable,
         NEW big \in SUBSET Voters
  PROVE  LET told == Tells(f, p, level, names, big) IN
         /\ told \subseteq FlushNote
         /\ \A n \in told : /\ n.post = p
                            /\ n.type = "reply" => level = "insert"
                            /\ n.type # "reply" => n \notin Written
         /\ TellsReply(f, p, level) => \E n \in told : n.type = "reply" /\ n.post = p
<1>1. names \subseteq Accounts /\ big \subseteq Accounts /\ Author(p) \in Accounts
      /\ (IsReply(p) => ParentAuthor(p) \in Accounts)
  BY NoticesAssumption, IdsAre
<1>2. ASSUME NEW n \in Replies(f, p, level)
      PROVE  n \in FlushNote /\ n.post = p /\ n.type = "reply" /\ level = "insert"
  <2>1. n = Notif("reply", Author(p), ParentAuthor(p), p) /\ TellsReply(f, p, level)
    BY <1>2 DEF Replies
  <2>2. IsReply(p) /\ level = "insert"
    BY <2>1 DEF TellsReply
  <2> QED BY <1>1, <2>1, <2>2 DEF Notif, FlushNote
<1>3. ASSUME NEW n \in Mentions(f, p, level, names)
      PROVE  n \in FlushNote /\ n.post = p /\ n.type = "mention" /\ n \notin Written
  <2>1. PICK a \in names : n = Notif("mention", Author(p), a, p)
    BY DEF Mentions, MentionNotifs, Mentioned
  <2>2. ~ToldBefore(n)
    BY DEF Mentions
  <2>3. n \notin Written
    BY <2>2 DEF ToldBefore
  <2> QED BY <1>1, <2>1, <2>3 DEF Notif, FlushNote
<1>4. ASSUME NEW n \in Votes(p, big)
      PROVE  n \in FlushNote /\ n.post = p /\ n.type = "vote" /\ n \notin Written
  <2>1. PICK v \in big : n = Notif("vote", v, Author(p), p)
    BY DEF Votes
  <2>2. ~ToldBefore(n)
    BY DEF Votes
  <2>3. n \notin Written
    BY <2>2 DEF ToldBefore
  <2> QED BY <1>1, <2>1, <2>3 DEF Notif, FlushNote
<1>5. ASSUME TellsReply(f, p, level)
      PROVE  \E n \in Replies(f, p, level) : n.type = "reply" /\ n.post = p
  BY <1>5 DEF Replies, Notif
<1> QED BY <1>2, <1>3, <1>4, <1>5 DEF Tells

\* They are told once each.
LEMMA InOrderIs ==
  ASSUME NEW told \in SUBSET FlushNote
  PROVE  LET s == InOrder(told) IN
         /\ s \in Seq(told) /\ s \in Seq(FlushNote) /\ Len(s) \in Nat
         /\ \A i, j \in 1 .. Len(s) : i # j => s[i] # s[j]
         /\ \A n \in told : \E i \in 1 .. Len(s) : s[i] = n
<1> DEFINE place == [n \in told |-> Place(n)]
<1>1. IsFiniteSet(told)
  BY FlushNotesFinite, FS_Subset
<1>2. \A n \in told : place[n] \in Nat
  <2> SUFFICES ASSUME NEW n \in told PROVE Place(n) \in Nat
    OBVIOUS
  <2>1. n.post \in Nat /\ n.type \in {"reply", "mention", "vote"}
    BY IdsAre DEF FlushNote
  <2> QED BY <2>1 DEF Place
<1>3. InOrder(told) = Ordered(told, place)
  BY DEF InOrder
<1> HIDE DEF place
<1>4. LET s == Ordered(told, place) IN
      /\ Cardinality(told) \in Nat
      /\ s \in Seq(told) /\ Len(s) = Cardinality(told)
      /\ \A i, j \in 1 .. Cardinality(told) : i # j => s[i] # s[j]
      /\ \A x \in told : \E i \in 1 .. Cardinality(told) : s[i] = x
  BY <1>1, <1>2, OrderedIs
<1>5. InOrder(told) \in Seq(FlushNote)
  <2> DEFINE s == InOrder(told)
  <2>1. s \in Seq(told) /\ Len(s) \in Nat
    BY <1>3, <1>4
  <2> HIDE DEF s
  <2>2. s = [i \in 1 .. Len(s) |-> s[i]] /\ \A i \in 1 .. Len(s) : s[i] \in told
    BY <2>1
  <2>3. s \in Seq(FlushNote)
    BY <2>1, <2>2
  <2> QED BY <2>3 DEF s
<1> QED BY <1>3, <1>4, <1>5

\* The posts to flush: all that are marked, each once, with their marks.
LEMMA TuplesAre ==
  ASSUME NEW q \in [Ids -> Levels \cup {"clean"}]
  PROVE  LET b == Tuples(q) IN
         /\ b \in Seq(Ids \X Levels) /\ Len(b) \in Nat
         /\ \A i \in 1 .. Len(b) : q[b[i][1]] = b[i][2] /\ q[b[i][1]] # "clean"
         /\ \A i, j \in 1 .. Len(b) : i # j => b[i][1] # b[j][1]
         /\ \A p \in Ids : q[p] # "clean" => \E i \in 1 .. Len(b) : b[i] = <<p, q[p]>>
<1> DEFINE marked == {p \in Ids : q[p] # "clean"}
           place == [p \in marked |-> p]
           ids == Ordered(marked, place)
           n == Cardinality(marked)
           b == [i \in 1 .. n |-> <<ids[i], q[ids[i]]>>]
<1>1. IsFiniteSet(marked)
  BY IdsAre, FS_Subset
<1>2. \A p \in marked : place[p] \in Nat
  BY IdsAre
<1>3. /\ n \in Nat /\ ids \in [1 .. n -> marked]
      /\ \A i, j \in 1 .. n : i # j => ids[i] # ids[j]
      /\ \A x \in marked : \E i \in 1 .. n : ids[i] = x
  <2> HIDE DEF marked, place
  <2> QED BY <1>1, <1>2, OrderedIs
<1>4. Tuples(q) = b
  <2>1. DOMAIN ids = 1 .. n
    BY <1>3
  <2>2. Tuples(q) = [i \in DOMAIN ids |-> <<ids[i], q[ids[i]]>>]
    BY DEF Tuples
  <2> QED BY <2>1, <2>2
<1> HIDE DEF ids, n, place
<1>5. \A i \in 1 .. n : ids[i] \in Ids /\ q[ids[i]] \in Levels /\ q[ids[i]] # "clean"
  BY <1>3
<1>6. \A i \in 1 .. n : b[i] \in Ids \X Levels /\ b[i][1] = ids[i] /\ b[i][2] = q[ids[i]]
                        /\ b[i] = <<ids[i], q[ids[i]]>>
  BY <1>5
<1>7. b \in Seq(Ids \X Levels) /\ Len(b) = n
  BY <1>3, <1>6
<1>8. ASSUME NEW p \in Ids, q[p] # "clean" PROVE \E i \in 1 .. n : b[i] = <<p, q[p]>>
  <2>1. PICK i \in 1 .. n : ids[i] = p
    BY <1>3, <1>8
  <2> QED BY <1>6, <2>1
<1> HIDE DEF b
<1> QED BY <1>3, <1>4, <1>5, <1>6, <1>7, <1>8

-----------------------------------------------------------------------------
(* Each thing is told once. *)

Given(s) == {s[i] : i \in DOMAIN s}
Loose == {"follow", "reblog", "error"}

\* A notification may be given more than once.
Free(n, c) == n.type \in Loose \/ (n.type = "reply" /\ c > 0)

Once(s, c) == \A i, j \in DOMAIN s : i # j => Free(s[i], c) \/ s[i] # s[j]

LEMMA OnceEachIs == OnceEach <=> Once(notifs, crashes)
BY DEF OnceEach, Once, Free, Loose

LEMMA OnceAppend ==
  ASSUME NEW s \in Seq(Note), NEW n \in Note, NEW c, Once(s, c), Free(n, c) \/ n \notin Given(s)
  PROVE  /\ Append(s, n) \in Seq(Note)
         /\ Once(Append(s, n), c)
         /\ Given(Append(s, n)) = Given(s) \cup {n}
<1> DEFINE t == Append(s, n)
           k == Len(s)
<1>1. /\ t \in Seq(Note) /\ Len(t) = k + 1 /\ k \in Nat
      /\ \A i \in 1 .. k : t[i] = s[i]
      /\ t[k + 1] = n
  BY AppendProperties
<1>2. DOMAIN s = 1 .. k /\ DOMAIN t = 1 .. (k + 1)
  <2> HIDE DEF t
  <2> QED BY <1>1
<1> HIDE DEF t, k
<1>3. \A i \in DOMAIN t : (i \in DOMAIN s /\ t[i] = s[i]) \/ (i = k + 1 /\ t[i] = n)
  BY <1>1, <1>2
<1>4. \A i \in DOMAIN s : i \in DOMAIN t /\ i # k + 1 /\ t[i] = s[i]
  BY <1>1, <1>2
<1>5. k + 1 \in DOMAIN t
  BY <1>1, <1>2
<1>6. Given(t) = Given(s) \cup {n}
  BY <1>1, <1>3, <1>4, <1>5 DEF Given
<1>7. ASSUME NEW i \in DOMAIN t, NEW j \in DOMAIN t, i # j PROVE Free(t[i], c) \/ t[i] # t[j]
  <2>1. CASE i \in DOMAIN s /\ j \in DOMAIN s
    BY <1>4, <1>7, <2>1 DEF Once
  <2>2. CASE i \in DOMAIN s /\ j = k + 1
    <3>1. t[i] \in Given(s) /\ t[j] = n
      BY <1>1, <1>4, <2>2 DEF Given
    <3> QED BY <3>1
  <2>3. CASE i = k + 1 /\ j \in DOMAIN s
    <3>1. t[j] \in Given(s) /\ t[i] = n
      BY <1>1, <1>4, <2>3 DEF Given
    <3> QED BY <3>1
  <2> QED BY <1>3, <1>7, <2>1, <2>2, <2>3
<1>8. Once(t, c)
  BY <1>7 DEF Once
<1> QED BY <1>1, <1>6, <1>8 DEF t

LEMMA OnceConcat ==
  ASSUME NEW s \in Seq(Note), NEW u \in Seq(Note), NEW c, Once(s, c), Once(u, c),
         \A n \in Given(u) : Free(n, c) \/ n \notin Given(s)
  PROVE  /\ s \o u \in Seq(Note)
         /\ Once(s \o u, c)
         /\ Given(s \o u) = Given(s) \cup Given(u)
<1> DEFINE t == s \o u
           k == Len(s)
           m == Len(u)
<1>1. /\ t \in Seq(Note) /\ Len(t) = k + m /\ k \in Nat /\ m \in Nat
      /\ \A i \in 1 .. (k + m) : t[i] = IF i <= k THEN s[i] ELSE u[i - k]
  BY ConcatProperties
<1>2. DOMAIN s = 1 .. k /\ DOMAIN u = 1 .. m /\ DOMAIN t = 1 .. (k + m)
  <2> HIDE DEF t
  <2> QED BY <1>1
<1> HIDE DEF t, k, m
<1>3. \A i \in DOMAIN t : \/ i \in DOMAIN s /\ t[i] = s[i]
                          \/ i - k \in DOMAIN u /\ t[i] = u[i - k]
  BY <1>1, <1>2
<1>4. \A i \in DOMAIN s : i \in DOMAIN t /\ t[i] = s[i]
  BY <1>1, <1>2
<1>5. \A i \in DOMAIN u : k + i \in DOMAIN t /\ t[k + i] = u[i]
  <2> SUFFICES ASSUME NEW i \in DOMAIN u PROVE k + i \in DOMAIN t /\ t[k + i] = u[i]
    OBVIOUS
  <2>1. i \in Nat /\ i > 0 /\ i <= m
    BY <1>1, <1>2
  <2>2. k + i \in 1 .. (k + m) /\ ~(k + i <= k) /\ k + i - k = i
    BY <1>1, <2>1
  <2> QED BY <1>1, <1>2, <2>2
<1>6. Given(t) = Given(s) \cup Given(u)
  <2>1. Given(t) \subseteq Given(s) \cup Given(u)
    BY <1>3 DEF Given
  <2>2. Given(s) \subseteq Given(t)
    BY <1>4 DEF Given
  <2>3. Given(u) \subseteq Given(t)
    BY <1>5 DEF Given
  <2> QED BY <2>1, <2>2, <2>3
<1>7. ASSUME NEW i \in DOMAIN t, NEW j \in DOMAIN t, i # j PROVE Free(t[i], c) \/ t[i] # t[j]
  <2>1. CASE (i \in DOMAIN s /\ t[i] = s[i]) /\ (j \in DOMAIN s /\ t[j] = s[j])
    BY <1>7, <2>1 DEF Once
  <2>2. CASE (i \in DOMAIN s /\ t[i] = s[i]) /\ (j - k \in DOMAIN u /\ t[j] = u[j - k])
    <3>1. t[i] \in Given(s) /\ t[j] \in Given(u)
      BY <2>2 DEF Given
    <3> QED BY <3>1
  <2>3. CASE (i - k \in DOMAIN u /\ t[i] = u[i - k]) /\ (j \in DOMAIN s /\ t[j] = s[j])
    <3>1. t[j] \in Given(s) /\ t[i] \in Given(u)
      BY <2>3 DEF Given
    <3> QED BY <3>1
  <2>4. CASE (i - k \in DOMAIN u /\ t[i] = u[i - k]) /\ (j - k \in DOMAIN u /\ t[j] = u[j - k])
    <3>1. i \in Int /\ j \in Int
      BY <1>1, <1>2
    <3>2. i - k # j - k
      BY <1>1, <1>7, <3>1
    <3> QED BY <2>4, <3>2 DEF Once
  <2> QED BY <1>3, <2>1, <2>2, <2>3, <2>4
<1>8. Once(t, c)
  BY <1>7 DEF Once
<1> QED BY <1>1, <1>6, <1>8 DEF t

-----------------------------------------------------------------------------
(* The inductive invariant of the indexer. *)

Pending == Given(writing)
Answered(p, told) == \E n \in told : n.type = "reply" /\ n.post = p

MarkInv ==
  /\ mode # "flush" => batch = <<>> /\ writing = <<>> /\ storing = {}
  /\ Marked(state, cache \cup storing, queue, lastId)
  /\ \A i \in 1 .. Len(batch) :
        /\ state[batch[i][1]] = "live" /\ queue[batch[i][1]] = "clean"
        /\ batch[i][2] = "insert" => batch[i][1] \notin cache \cup storing
  /\ \A i, j \in 1 .. Len(batch) : i # j => batch[i][1] # batch[j][1]
  /\ \A p \in Ids : state[p] = "live" /\ p > lastId
        => queue[p] = "insert" \/ \E i \in 1 .. Len(batch) : batch[i] = <<p, "insert">>

\* What has been told in reply to is not to be inserted again.
Past(p) ==
  /\ p \in Ids /\ p <= lastId /\ state[p] # "none" /\ queue[p] # "insert"
  /\ \A i \in 1 .. Len(batch) : batch[i] # <<p, "insert">>

OnceInv ==
  /\ Once(notifs, crashes) /\ Once(writing, crashes)
  /\ \A n \in Pending : Free(n, crashes) \/ n \notin Written
  /\ crashes = 0 => \A n \in Written \cup Pending : n.type = "reply" => Past(n.post)

ToldInv ==
  /\ \A p \in cache \ excused : Answered(p, Written)
  /\ \A p \in storing \ excused : Answered(p, Written \cup Pending)

IndexInv == Typed /\ MarkInv /\ OnceInv /\ ToldInv

LEMMA WrittenIs == Written = Given(notifs)
BY DEF Written, Given

-----------------------------------------------------------------------------
(* The indexer's steps keep it. *)

LEMMA BlockKeeps ==
  ASSUME IndexInv, mode # "flush", NEW e \in Effects
  PROVE  /\ batch = <<>> /\ writing = <<>> /\ storing = {}
         /\ EffectOK(e)
         /\ e.notifs \in Seq(Note) /\ Once(e.notifs, crashes)
         /\ Written \subseteq Given(e.notifs)
         /\ \A n \in Given(e.notifs) : n \in Written \/ n.type \in Loose
         /\ crashes = 0 => \A n \in Given(e.notifs) : n.type = "reply" =>
               /\ n.post \in Ids /\ n.post <= lastId
               /\ e.state[n.post] # "none" /\ e.queue[n.post] # "insert"
<1>1. batch = <<>> /\ writing = <<>> /\ storing = {}
  BY DEF IndexInv, MarkInv
<1>2. Marked(state, cache, queue, lastId)
  BY <1>1 DEF IndexInv, MarkInv, Marked
<1>3. Due(state, queue, lastId)
  BY <1>1 DEF IndexInv, MarkInv, Due
<1>4. EffectOK(e)
  BY <1>2, <1>3, EffectsOK DEF IndexInv
<1>5. /\ e.notifs \in Seq(Note) /\ Once(e.notifs, crashes)
      /\ Written \subseteq Given(e.notifs)
      /\ \A n \in Given(e.notifs) : n \in Written \/ n.type \in Loose
  <2>1. notifs \in Seq(Note) /\ Once(notifs, crashes)
    BY DEF IndexInv, Typed, OnceInv
  <2>2. CASE e.notifs = notifs
    BY <2>1, <2>2, WrittenIs
  <2>3. CASE \E n \in Note : e.notifs = Append(notifs, n) /\ n.type \in Loose
    <3>1. PICK n \in Note : e.notifs = Append(notifs, n) /\ n.type \in Loose
      BY <2>3
    <3>2. Free(n, crashes)
      BY <3>1 DEF Free
    <3> QED BY <2>1, <3>1, <3>2, OnceAppend, WrittenIs
  <2> QED BY <1>4, <2>2, <2>3 DEF EffectOK, Loose
<1>6. ASSUME crashes = 0, NEW n \in Given(e.notifs), n.type = "reply"
      PROVE  /\ n.post \in Ids /\ n.post <= lastId
             /\ e.state[n.post] # "none" /\ e.queue[n.post] # "insert"
  <2>1. n \in Written
    BY <1>5, <1>6 DEF Loose
  <2>2. Past(n.post)
    BY <1>6, <2>1 DEF IndexInv, OnceInv
  <2> QED BY <1>4, <2>2 DEF Past, EffectOK
<1> QED BY <1>1, <1>4, <1>5, <1>6

LEMMA EmptyOnce ==
  /\ \A c : Once(<<>>, c)
  /\ Given(<<>>) = {}
BY DEF Once, Given

LEMMA SyncBlockKeeps == IndexInv /\ SyncBlock => IndexInv'
<1> SUFFICES ASSUME IndexInv, SyncBlock PROVE IndexInv'
  OBVIOUS
<1>1. PICK e \in Effects :
        /\ state' = e.state /\ cache' = e.cache /\ follows' = e.follows /\ notifs' = e.notifs
        /\ queue' = e.queue /\ votes' = e.votes /\ excused' = e.excused
  BY DEF SyncBlock
<1>2. /\ mode = "sync" /\ mode' = mode /\ lastId' = lastId /\ batch' = batch
      /\ writing' = writing /\ storing' = storing /\ crashes' = crashes
  BY DEF SyncBlock
<1>3. /\ batch = <<>> /\ writing = <<>> /\ storing = {}
      /\ EffectOK(e)
      /\ e.notifs \in Seq(Note) /\ Once(e.notifs, crashes)
      /\ Written \subseteq Given(e.notifs)
      /\ crashes = 0 => \A n \in Given(e.notifs) : n.type = "reply" =>
            /\ n.post \in Ids /\ n.post <= lastId
            /\ e.state[n.post] # "none" /\ e.queue[n.post] # "insert"
  BY <1>2, BlockKeeps
<1>4. Typed'
  BY <1>1, <1>2, <1>3 DEF IndexInv, Typed, EffectOK
<1>5. Written' = Given(e.notifs) /\ Pending' = {}
  BY <1>1, <1>2, <1>3, WrittenIs, EmptyOnce DEF Written, Given, Pending
<1>6. MarkInv'
  <2>1. cache' \cup storing' = e.cache
    BY <1>1, <1>2, <1>3
  <2>2. Len(batch') = 0
    BY <1>2, <1>3
  <2> QED BY <1>1, <1>2, <1>3, <2>1, <2>2 DEF MarkInv, EffectOK, Due, Marked
<1>7. OnceInv'
  <2>1. \A i \in 1 .. Len(batch') : FALSE
    BY <1>2, <1>3
  <2> QED BY <1>1, <1>2, <1>3, <1>5, <2>1, EmptyOnce DEF OnceInv, Past
<1>8. ToldInv'
  <2>1. \A p \in cache \ excused : Answered(p, Written)
    BY DEF IndexInv, ToldInv
  <2>2. cache' \ excused' \subseteq cache \ excused
    BY <1>1, <1>3 DEF EffectOK
  <2>3. \A p \in cache' \ excused' : Answered(p, Written')
    BY <1>3, <1>5, <2>1, <2>2 DEF Answered
  <2> QED BY <1>2, <1>3, <2>3 DEF ToldInv
<1> QED BY <1>4, <1>6, <1>7, <1>8 DEF IndexInv

LEMMA FlushKeeps == IndexInv /\ Flush => IndexInv'
<1> SUFFICES ASSUME IndexInv, Flush PROVE IndexInv'
  OBVIOUS
<1>1. /\ mode = "sync" /\ mode' = "flush" /\ batch' = Tuples(queue) /\ queue' = Clean
      /\ state' = state /\ cache' = cache /\ follows' = follows /\ notifs' = notifs
      /\ votes' = votes /\ lastId' = lastId /\ writing' = writing /\ storing' = storing
      /\ crashes' = crashes /\ excused' = excused
  BY DEF Flush, tables
<1>2. batch = <<>> /\ writing = <<>> /\ storing = {}
  BY <1>1 DEF IndexInv, MarkInv
<1>3. /\ batch' \in Seq(Ids \X Levels) /\ Len(batch') \in Nat
      /\ \A i \in 1 .. Len(batch') :
            queue[batch'[i][1]] = batch'[i][2] /\ queue[batch'[i][1]] # "clean"
      /\ \A i, j \in 1 .. Len(batch') : i # j => batch'[i][1] # batch'[j][1]
      /\ \A p \in Ids : queue[p] # "clean" => \E i \in 1 .. Len(batch') : batch'[i] = <<p, queue[p]>>
  BY <1>1, TuplesAre DEF IndexInv, Typed
<1>4. \A i \in 1 .. Len(batch') : batch'[i][1] \in Ids
  BY <1>3
<1>5. \A p \in Ids : queue'[p] = "clean"
  BY <1>1 DEF Clean
<1>6. Typed'
  BY <1>1, <1>3 DEF IndexInv, Typed, Clean
<1>7. Written' = Written /\ Pending' = Pending
  BY <1>1 DEF Written, Pending, Given
<1>8. Marked(state, cache, queue, lastId)
  BY <1>2 DEF IndexInv, MarkInv, Marked
<1>9. MarkInv'
  <2>1. Marked(state', cache' \cup storing', queue', lastId')
    BY <1>1, <1>2, <1>5, <1>8 DEF Marked
  <2>2. ASSUME NEW i \in 1 .. Len(batch')
        PROVE  /\ state'[batch'[i][1]] = "live" /\ queue'[batch'[i][1]] = "clean"
               /\ batch'[i][2] = "insert" => batch'[i][1] \notin cache' \cup storing'
    BY <1>1, <1>2, <1>3, <1>4, <1>5, <1>8 DEF Marked
  <2>3. ASSUME NEW p \in Ids, state'[p] = "live", p > lastId'
        PROVE  \E i \in 1 .. Len(batch') : batch'[i] = <<p, "insert">>
    <3>1. queue[p] = "insert"
      BY <1>1, <1>2, <2>3 DEF IndexInv, MarkInv
    <3> QED BY <1>3, <3>1
  <2> QED BY <1>1, <1>3, <2>1, <2>2, <2>3 DEF MarkInv
<1>10. OnceInv'
  <2>1. ASSUME NEW p, Past(p) PROVE Past(p)'
    <3>1. p \in Ids /\ p <= lastId /\ state[p] # "none" /\ queue[p] # "insert"
      BY <2>1 DEF Past
    <3>2. ASSUME NEW i \in 1 .. Len(batch'), batch'[i] = <<p, "insert">> PROVE FALSE
      BY <1>3, <3>1, <3>2
    <3> QED BY <1>1, <1>5, <3>1, <3>2 DEF Past
  <2> QED BY <1>1, <1>7, <2>1 DEF IndexInv, OnceInv
<1>11. ToldInv'
  BY <1>1, <1>7 DEF IndexInv, ToldInv
<1> QED BY <1>6, <1>9, <1>10, <1>11 DEF IndexInv

LEMMA FlushNoteIsNote == FlushNote \subseteq Note
<1>1. Ids \subseteq Nat
  BY IdsAre
<1> QED BY <1>1 DEF FlushNote, Note, Types

\* The post a flush goes on with, and what is left of the batch.
LEMMA BeginFacts ==
  ASSUME IndexInv, Begin, NEW p, p = Head(batch)[1], NEW level, level = Head(batch)[2]
  PROVE  /\ mode = "flush" /\ writing = <<>> /\ Pending = {}
         /\ p \in Ids /\ level \in Levels /\ batch[1] = <<p, level>> /\ 1 \in 1 .. Len(batch)
         /\ state[p] = "live" /\ queue[p] = "clean"
         /\ level = "insert" => p \notin cache \cup storing
         /\ batch' \in Seq(Ids \X Levels) /\ Len(batch') \in Nat
         /\ \A i \in 1 .. Len(batch') : i + 1 \in 1 .. Len(batch) /\ batch'[i] = batch[i + 1]
                                        /\ batch'[i][1] # p
         /\ \A i \in 1 .. Len(batch) : i # 1 => i - 1 \in 1 .. Len(batch') /\ batch'[i - 1] = batch[i]
         /\ lastId' \in 0 .. Len(Posts) /\ lastId <= lastId' /\ p <= lastId'
<1>1. mode = "flush" /\ writing = <<>> /\ batch # <<>> /\ batch' = Tail(batch)
      /\ lastId' = LastOf({lastId, p})
  BY DEF Begin
<1>2. Pending = {}
  BY <1>1, EmptyOnce DEF Pending
<1>3. batch \in Seq(Ids \X Levels)
  BY DEF IndexInv, Typed
<1>4. /\ Head(batch) \in Ids \X Levels /\ batch' \in Seq(Ids \X Levels)
      /\ Len(batch') = Len(batch) - 1
      /\ \A i \in 1 .. Len(batch') : batch'[i] = batch[i + 1]
  BY <1>1, <1>3, HeadTailProperties
<1>5. Head(batch) = batch[1] /\ Len(batch) \in Nat /\ Len(batch) # 0
  BY <1>1, <1>3, EmptySeq
<1>6. p \in Ids /\ level \in Levels /\ batch[1] = <<p, level>> /\ 1 \in 1 .. Len(batch)
  BY <1>4, <1>5
<1>7. /\ state[p] = "live" /\ queue[p] = "clean"
      /\ level = "insert" => p \notin cache \cup storing
  BY <1>6 DEF IndexInv, MarkInv
<1>8. ASSUME NEW i \in 1 .. Len(batch')
      PROVE  i + 1 \in 1 .. Len(batch) /\ batch'[i] = batch[i + 1] /\ batch'[i][1] # p
  <2>1. i + 1 \in 1 .. Len(batch) /\ i + 1 # 1
    BY <1>4, <1>5
  <2>2. batch[i + 1][1] # batch[1][1]
    BY <1>6, <2>1 DEF IndexInv, MarkInv
  <2> QED BY <1>4, <1>6, <2>1, <2>2
<1>9. ASSUME NEW i \in 1 .. Len(batch), i # 1
      PROVE  i - 1 \in 1 .. Len(batch') /\ batch'[i - 1] = batch[i]
  <2>1. i - 1 \in 1 .. Len(batch') /\ i - 1 + 1 = i
    BY <1>4, <1>5, <1>9
  <2> QED BY <1>4, <2>1
<1>10. lastId' \in 0 .. Len(Posts) /\ lastId <= lastId' /\ p <= lastId'
  <2>1. {lastId, p} \subseteq 0 .. Len(Posts) /\ Len(Posts) \in Nat
    BY <1>6, IdsAre DEF IndexInv, Typed
  <2> QED BY <1>1, <2>1, LastOfIs
<1>11. Len(batch') \in Nat
  BY <1>4, <1>5
<1> QED BY <1>1, <1>2, <1>4, <1>6, <1>7, <1>8, <1>9, <1>10, <1>11

\* The node knows the post: what is to be told is collected.
LEMMA FoundKeeps ==
  ASSUME IndexInv, Begin, NEW p, p = Head(batch)[1], NEW level, level = Head(batch)[2],
         NEW names \in SUBSET Mentionable, NEW big \in SUBSET votes[p],
         writing' = InOrder(Tells(follows, p, level, names, big)),
         votes' = [votes EXCEPT ![p] = {}],
         storing' = storing \cup Inserted(p, level),
         excused' = Excused(follows, excused, Inserted(p, level)),
         queue' = queue
  PROVE  IndexInv'
<1> DEFINE told == Tells(follows, p, level, names, big)
<1>1. /\ mode = "flush" /\ writing = <<>> /\ Pending = {}
      /\ p \in Ids /\ level \in Levels /\ batch[1] = <<p, level>> /\ 1 \in 1 .. Len(batch)
      /\ state[p] = "live" /\ queue[p] = "clean"
      /\ level = "insert" => p \notin cache \cup storing
      /\ batch' \in Seq(Ids \X Levels) /\ Len(batch') \in Nat
      /\ \A i \in 1 .. Len(batch') : i + 1 \in 1 .. Len(batch) /\ batch'[i] = batch[i + 1]
                                     /\ batch'[i][1] # p
      /\ \A i \in 1 .. Len(batch) : i # 1 => i - 1 \in 1 .. Len(batch') /\ batch'[i - 1] = batch[i]
      /\ lastId' \in 0 .. Len(Posts) /\ lastId <= lastId' /\ p <= lastId'
  BY BeginFacts
<1>2. /\ state' = state /\ cache' = cache /\ follows' = follows /\ notifs' = notifs
      /\ mode' = mode /\ crashes' = crashes
  BY DEF Begin, tables
<1>3. big \subseteq Voters
  BY <1>1 DEF IndexInv, Typed
<1>4. /\ told \in SUBSET FlushNote
      /\ \A n \in told : /\ n.post = p
                         /\ n.type = "reply" => level = "insert"
                         /\ n.type # "reply" => n \notin Written
      /\ TellsReply(follows, p, level) => \E n \in told : n.type = "reply" /\ n.post = p
  BY <1>1, <1>3, TellsIs DEF IndexInv
<1>t. writing' = InOrder(told)
  OBVIOUS
<1> HIDE DEF told
<1>5. /\ writing' \in Seq(told) /\ writing' \in Seq(FlushNote) /\ Len(writing') \in Nat
      /\ \A i, j \in 1 .. Len(writing') : i # j => writing'[i] # writing'[j]
      /\ \A n \in told : \E i \in 1 .. Len(writing') : writing'[i] = n
  <2> DEFINE w == InOrder(told)
  <2>1. /\ w \in Seq(told) /\ w \in Seq(FlushNote) /\ Len(w) \in Nat
        /\ \A i, j \in 1 .. Len(w) : i # j => w[i] # w[j]
        /\ \A n \in told : \E i \in 1 .. Len(w) : w[i] = n
    BY <1>4, InOrderIs
  <2>2. writing' = w
    BY <1>t
  <2> HIDE DEF w
  <2> QED BY <2>1, <2>2
<1>6. Pending' = told /\ Written' = Written
  <2>1. DOMAIN writing' = 1 .. Len(writing')
    BY <1>5
  <2>2. \A i \in 1 .. Len(writing') : writing'[i] \in told
    BY <1>5
  <2> QED BY <1>2, <1>5, <2>1, <2>2 DEF Pending, Given, Written
<1> DEFINE ins == Inserted(p, level)
<1>7. ins \subseteq {p} /\ (p \in ins <=> level = "insert")
  BY DEF Inserted
<1>8. excused' = (excused \ ins) \cup {q \in ins : ~TellsReply(follows, q, "insert")}
      /\ storing' = storing \cup ins
  BY DEF Excused
<1> HIDE DEF ins
<1>9. Typed'
  <2>1. votes' \in [Ids -> SUBSET Voters]
    BY <1>1 DEF IndexInv, Typed
  <2> QED BY <1>1, <1>2, <1>5, <1>7, <1>8, <2>1 DEF IndexInv, Typed
<1>10. MarkInv'
  <2>1. Marked(state', cache' \cup storing', queue', lastId')
    <3>1. \A q \in cache \cup storing : state[q] = "live" /\ q <= lastId /\ q \in Int
      <4>1. cache \cup storing \subseteq Int
        BY IdsAre DEF IndexInv, Typed
      <4> QED BY <4>1 DEF IndexInv, MarkInv, Marked
    <3>2. lastId \in Int /\ lastId' \in Int
      BY <1>1 DEF IndexInv, Typed
    <3>3. \A q \in cache' \cup storing' : state'[q] = "live" /\ q <= lastId'
      BY <1>1, <1>2, <1>7, <1>8, <3>1, <3>2
    <3> QED BY <1>1, <1>2, <1>7, <1>8, <3>3 DEF IndexInv, MarkInv, Marked
  <2>2. ASSUME NEW i \in 1 .. Len(batch')
        PROVE  /\ state'[batch'[i][1]] = "live" /\ queue'[batch'[i][1]] = "clean"
               /\ batch'[i][2] = "insert" => batch'[i][1] \notin cache' \cup storing'
    <3>1. i + 1 \in 1 .. Len(batch) /\ batch'[i] = batch[i + 1] /\ batch'[i][1] # p
      BY <1>1
    <3> QED BY <1>2, <1>7, <1>8, <3>1 DEF IndexInv, MarkInv
  <2>3. ASSUME NEW i \in 1 .. Len(batch'), NEW j \in 1 .. Len(batch'), i # j
        PROVE  batch'[i][1] # batch'[j][1]
    <3>1. /\ i + 1 \in 1 .. Len(batch) /\ batch'[i] = batch[i + 1]
          /\ j + 1 \in 1 .. Len(batch) /\ batch'[j] = batch[j + 1]
      BY <1>1
    <3>2. i + 1 # j + 1
      BY <1>1, <2>3
    <3> QED BY <3>1, <3>2 DEF IndexInv, MarkInv
  <2>4. ASSUME NEW q \in Ids, state'[q] = "live", q > lastId'
        PROVE  queue'[q] = "insert" \/ \E i \in 1 .. Len(batch') : batch'[i] = <<q, "insert">>
    <3>1. q > lastId /\ q # p
      BY <1>1, <2>4, IdsAre DEF IndexInv, Typed
    <3>2. queue[q] = "insert" \/ \E i \in 1 .. Len(batch) : batch[i] = <<q, "insert">>
      BY <1>2, <2>4, <3>1 DEF IndexInv, MarkInv
    <3>3. ASSUME NEW i \in 1 .. Len(batch), batch[i] = <<q, "insert">>
          PROVE  \E j \in 1 .. Len(batch') : batch'[j] = <<q, "insert">>
      <4>1. i # 1
        BY <1>1, <3>1, <3>3
      <4> QED BY <1>1, <3>3, <4>1
    <3> QED BY <3>2, <3>3
  <2> QED BY <1>1, <1>2, <2>1, <2>2, <2>3, <2>4 DEF MarkInv
<1>11. OnceInv'
  <2>1. Once(notifs', crashes')
    BY <1>2 DEF IndexInv, OnceInv
  <2>2. Once(writing', crashes')
    <3>1. DOMAIN writing' = 1 .. Len(writing')
      BY <1>5
    <3> QED BY <1>5, <3>1 DEF Once
  <2>3. ASSUME NEW n \in told PROVE Free(n, crashes) \/ n \notin Written
    <3>1. CASE n.type = "reply" /\ crashes = 0
      <4>1. level = "insert" /\ n.post = p
        BY <1>4, <3>1
      <4>2. ~Past(p)
        BY <1>1, <4>1 DEF Past
      <4> QED BY <3>1, <4>1, <4>2 DEF IndexInv, OnceInv
    <3>2. CASE n.type = "reply" /\ crashes # 0
      BY <3>2 DEF Free, IndexInv, Typed
    <3>3. CASE n.type # "reply"
      BY <1>4, <3>3
    <3> QED BY <3>1, <3>2, <3>3
  <2>4. ASSUME NEW q, Past(q) PROVE Past(q)'
    <3>1. q \in Ids /\ q <= lastId'
      BY <1>1, <2>4, IdsAre DEF Past, IndexInv, Typed
    <3>2. \A i \in 1 .. Len(batch') : batch'[i] # <<q, "insert">>
      BY <1>1, <2>4 DEF Past
    <3> QED BY <1>2, <2>4, <3>1, <3>2 DEF Past
  <2>5. Past(p)'
    BY <1>1, <1>2 DEF Past
  <2>6. ASSUME crashes = 0, NEW n \in Written \cup told, n.type = "reply" PROVE Past(n.post)'
    <3>1. CASE n \in Written
      BY <2>4, <2>6, <3>1 DEF IndexInv, OnceInv
    <3>2. CASE n \in told
      BY <1>4, <2>5, <3>2
    <3> QED BY <2>6, <3>1, <3>2
  <2> QED BY <1>2, <1>6, <2>1, <2>2, <2>3, <2>6 DEF OnceInv
<1>12. ToldInv'
  <2>1. ASSUME NEW q \in cache', q \notin excused' PROVE Answered(q, Written')
    <3>1. q \notin ins
      BY <1>1, <1>2, <1>7, <2>1
    <3>2. q \in cache \ excused
      BY <1>2, <1>8, <2>1, <3>1
    <3> QED BY <1>6, <3>2 DEF IndexInv, ToldInv
  <2>2. ASSUME NEW q \in storing', q \notin excused' PROVE Answered(q, Written' \cup Pending')
    <3>1. CASE q \in ins
      <4>1. q = p /\ level = "insert" /\ TellsReply(follows, p, level)
        BY <1>7, <1>8, <2>2, <3>1
      <4>2. \E n \in told : n.type = "reply" /\ n.post = p
        BY <1>4, <4>1
      <4> QED BY <1>6, <4>1, <4>2 DEF Answered
    <3>2. CASE q \notin ins
      <4>1. q \in storing \ excused
        BY <1>8, <2>2, <3>2
      <4>2. Answered(q, Written \cup Pending)
        BY <4>1 DEF IndexInv, ToldInv
      <4> QED BY <1>1, <1>6, <4>2 DEF Answered
    <3> QED BY <3>1, <3>2
  <2> QED BY <2>1, <2>2 DEF ToldInv
<1> QED BY <1>9, <1>10, <1>11, <1>12 DEF IndexInv

\* The node does not know the post: its mark is put back.
LEMMA DeferKeeps ==
  ASSUME IndexInv, Begin, NEW p, p = Head(batch)[1], NEW level, level = Head(batch)[2],
         queue' = Dirty(queue, p, level),
         votes' = votes, writing' = writing, storing' = storing, excused' = excused
  PROVE  IndexInv'
<1>1. /\ mode = "flush" /\ writing = <<>> /\ Pending = {}
      /\ p \in Ids /\ level \in Levels /\ batch[1] = <<p, level>> /\ 1 \in 1 .. Len(batch)
      /\ state[p] = "live" /\ queue[p] = "clean"
      /\ level = "insert" => p \notin cache \cup storing
      /\ batch' \in Seq(Ids \X Levels) /\ Len(batch') \in Nat
      /\ \A i \in 1 .. Len(batch') : i + 1 \in 1 .. Len(batch) /\ batch'[i] = batch[i + 1]
                                     /\ batch'[i][1] # p
      /\ \A i \in 1 .. Len(batch) : i # 1 => i - 1 \in 1 .. Len(batch') /\ batch'[i - 1] = batch[i]
      /\ lastId' \in 0 .. Len(Posts) /\ lastId <= lastId' /\ p <= lastId'
  BY BeginFacts
<1>2. /\ state' = state /\ cache' = cache /\ follows' = follows /\ notifs' = notifs
      /\ mode' = mode /\ crashes' = crashes
  BY DEF Begin, tables
<1>3. /\ queue' \in [Ids -> Levels \cup {"clean"}]
      /\ \A r \in Ids : r # p => queue'[r] = queue[r]
      /\ queue'[p] # "clean" /\ (queue'[p] = "insert" <=> level = "insert")
  <2> DEFINE d == Dirty(queue, p, level)
  <2>1. queue \in [Ids -> Levels \cup {"clean"}]
    BY DEF IndexInv, Typed
  <2>2. /\ d \in [Ids -> Levels \cup {"clean"}]
        /\ \A r \in Ids : r # p => d[r] = queue[r]
        /\ d[p] # "clean" /\ (d[p] = "insert" <=> level = "insert" \/ queue[p] = "insert")
    BY <1>1, <2>1, DirtyIs
  <2> HIDE DEF d
  <2>3. queue' = d /\ queue[p] # "insert"
    BY <1>1 DEF d
  <2> QED BY <2>2, <2>3
<1>4. Typed'
  BY <1>1, <1>2, <1>3 DEF IndexInv, Typed
<1>5. MarkInv'
  <2>1. Marked(state', cache' \cup storing', queue', lastId')
    <3>1. \A q \in cache \cup storing : state[q] = "live" /\ q <= lastId /\ q \in Int
      <4>1. cache \cup storing \subseteq Int
        BY IdsAre DEF IndexInv, Typed
      <4> QED BY <4>1 DEF IndexInv, MarkInv, Marked
    <3>2. lastId \in Int /\ lastId' \in Int
      BY <1>1 DEF IndexInv, Typed
    <3>3. \A q \in cache' \cup storing' : state'[q] = "live" /\ q <= lastId'
      BY <1>1, <1>2, <3>1, <3>2
    <3>4. \A q \in Ids : queue'[q] # "clean" => state'[q] = "live"
      BY <1>1, <1>2, <1>3 DEF IndexInv, MarkInv, Marked
    <3>5. \A q \in Ids : queue'[q] = "insert" => q \notin cache' \cup storing'
      BY <1>1, <1>2, <1>3 DEF IndexInv, MarkInv, Marked
    <3> QED BY <3>3, <3>4, <3>5 DEF Marked
  <2>2. ASSUME NEW i \in 1 .. Len(batch')
        PROVE  /\ state'[batch'[i][1]] = "live" /\ queue'[batch'[i][1]] = "clean"
               /\ batch'[i][2] = "insert" => batch'[i][1] \notin cache' \cup storing'
    <3>1. i + 1 \in 1 .. Len(batch) /\ batch'[i] = batch[i + 1] /\ batch'[i][1] # p
      BY <1>1
    <3>2. batch'[i][1] \in Ids
      BY <1>1
    <3> QED BY <1>2, <1>3, <3>1, <3>2 DEF IndexInv, MarkInv
  <2>3. ASSUME NEW i \in 1 .. Len(batch'), NEW j \in 1 .. Len(batch'), i # j
        PROVE  batch'[i][1] # batch'[j][1]
    <3>1. /\ i + 1 \in 1 .. Len(batch) /\ batch'[i] = batch[i + 1]
          /\ j + 1 \in 1 .. Len(batch) /\ batch'[j] = batch[j + 1]
      BY <1>1
    <3>2. i + 1 # j + 1
      BY <1>1, <2>3
    <3> QED BY <3>1, <3>2 DEF IndexInv, MarkInv
  <2>4. ASSUME NEW q \in Ids, state'[q] = "live", q > lastId'
        PROVE  queue'[q] = "insert" \/ \E i \in 1 .. Len(batch') : batch'[i] = <<q, "insert">>
    <3>1. q > lastId /\ q # p
      BY <1>1, <2>4, IdsAre DEF IndexInv, Typed
    <3>2. queue'[q] = "insert" \/ \E i \in 1 .. Len(batch) : batch[i] = <<q, "insert">>
      BY <1>2, <1>3, <2>4, <3>1 DEF IndexInv, MarkInv
    <3>3. ASSUME NEW i \in 1 .. Len(batch), batch[i] = <<q, "insert">>
          PROVE  \E j \in 1 .. Len(batch') : batch'[j] = <<q, "insert">>
      <4>1. i # 1
        BY <1>1, <3>1, <3>3
      <4> QED BY <1>1, <3>3, <4>1
    <3> QED BY <3>2, <3>3
  <2> QED BY <1>1, <1>2, <2>1, <2>2, <2>3, <2>4 DEF MarkInv
<1>6. Written' = Written /\ Pending' = Pending
  BY <1>2 DEF Written, Pending, Given
<1>7. OnceInv'
  <2>1. ASSUME NEW q, Past(q) PROVE Past(q)'
    <3>1. q \in Ids /\ q <= lastId'
      BY <1>1, <2>1, IdsAre DEF Past, IndexInv, Typed
    <3>2. \A i \in 1 .. Len(batch') : batch'[i] # <<q, "insert">>
      BY <1>1, <2>1 DEF Past
    <3>3. queue'[q] # "insert"
      BY <1>1, <1>3, <2>1 DEF Past
    <3> QED BY <1>2, <2>1, <3>1, <3>2, <3>3 DEF Past
  <2> QED BY <1>2, <1>6, <2>1 DEF IndexInv, OnceInv
<1>8. ToldInv'
  BY <1>2, <1>6 DEF IndexInv, ToldInv
<1> QED BY <1>4, <1>5, <1>7, <1>8 DEF IndexInv

LEMMA BeginKeeps == IndexInv /\ Begin => IndexInv'
<1> SUFFICES ASSUME IndexInv, Begin PROVE IndexInv'
  OBVIOUS
<1> DEFINE p == Head(batch)[1]
           level == Head(batch)[2]
<1>1. \/ \E names \in SUBSET Mentionable, big \in SUBSET votes[p] :
           /\ writing' = InOrder(Tells(follows, p, level, names, big))
           /\ votes' = [votes EXCEPT ![p] = {}]
           /\ storing' = storing \cup Inserted(p, level)
           /\ excused' = Excused(follows, excused, Inserted(p, level))
           /\ queue' = queue
      \/ /\ queue' = Dirty(queue, p, level)
         /\ votes' = votes /\ writing' = writing /\ storing' = storing /\ excused' = excused
  BY DEF Begin
<1> HIDE DEF p, level
<1>2. p = Head(batch)[1] /\ level = Head(batch)[2]
  BY DEF p, level
<1> QED BY <1>1, <1>2, FoundKeeps, DeferKeeps

LEMMA WriteKeeps == IndexInv /\ Write => IndexInv'
<1> SUFFICES ASSUME IndexInv, Write PROVE IndexInv'
  OBVIOUS
<1>1. /\ writing # <<>> /\ notifs' = Append(notifs, Head(writing)) /\ writing' = Tail(writing)
      /\ state' = state /\ cache' = cache /\ follows' = follows /\ queue' = queue
      /\ votes' = votes /\ lastId' = lastId /\ batch' = batch /\ storing' = storing
      /\ mode' = mode /\ crashes' = crashes /\ excused' = excused
  BY DEF Write
<1>2. notifs \in Seq(Note) /\ writing \in Seq(FlushNote)
  BY DEF IndexInv, Typed
<1> DEFINE n == Head(writing)
           k == Len(writing)
<1>3. /\ n \in FlushNote /\ writing' \in Seq(FlushNote)
      /\ Len(writing') = k - 1
      /\ \A i \in 1 .. Len(writing') : writing'[i] = writing[i + 1]
  BY <1>1, <1>2, HeadTailProperties
<1>4. k \in Nat /\ k # 0 /\ n = writing[1] /\ DOMAIN writing = 1 .. k
      /\ DOMAIN writing' = 1 .. (k - 1)
  BY <1>1, <1>2, <1>3, EmptySeq
<1>5. n \in Note
  BY <1>3, FlushNoteIsNote
<1> HIDE DEF n, k
<1>6. \A i \in DOMAIN writing' : /\ i + 1 \in DOMAIN writing /\ i + 1 # 1
                                 /\ writing'[i] = writing[i + 1]
  BY <1>3, <1>4
<1>7. \A i \in DOMAIN writing : i = 1 \/ (i - 1 \in DOMAIN writing' /\ writing'[i - 1] = writing[i])
  <2> SUFFICES ASSUME NEW i \in 1 .. k, i # 1
               PROVE  i - 1 \in DOMAIN writing' /\ writing'[i - 1] = writing[i]
    BY <1>4
  <2>1. i - 1 \in 1 .. (k - 1) /\ i - 1 + 1 = i
    BY <1>4
  <2> QED BY <1>3, <1>4, <2>1
<1>8. 1 \in DOMAIN writing
  BY <1>4
<1>9. Pending = {n} \cup Pending'
  <2>1. Pending \subseteq {n} \cup Pending'
    BY <1>4, <1>7 DEF Pending, Given
  <2>2. Pending' \subseteq Pending /\ n \in Pending
    BY <1>4, <1>6, <1>8 DEF Pending, Given
  <2> QED BY <2>1, <2>2
<1>10. Free(n, crashes) \/ n \notin Given(notifs)
  BY <1>9, WrittenIs DEF IndexInv, OnceInv
<1>11. /\ notifs' \in Seq(Note) /\ Once(notifs', crashes)
       /\ Given(notifs') = Given(notifs) \cup {n}
  <2>1. notifs' = Append(notifs, n) /\ Once(notifs, crashes)
    BY <1>1 DEF n, IndexInv, OnceInv
  <2> QED BY <1>2, <1>5, <1>10, <2>1, OnceAppend
<1>12. Written' = Written \cup {n}
  BY <1>11, WrittenIs DEF Written, Given
<1>13. Typed'
  BY <1>1, <1>3, <1>11 DEF IndexInv, Typed
<1>14. MarkInv'
  <2>1. mode = "flush"
    BY <1>1 DEF IndexInv, MarkInv
  <2> QED BY <1>1, <2>1 DEF IndexInv, MarkInv, Marked
<1>15. OnceInv'
  <2>1. Once(writing, crashes)
    BY DEF IndexInv, OnceInv
  <2>2. Once(writing', crashes')
    <3>1. ASSUME NEW i \in DOMAIN writing', NEW j \in DOMAIN writing', i # j
          PROVE  Free(writing'[i], crashes) \/ writing'[i] # writing'[j]
      <4>1. i + 1 # j + 1
        BY <1>4, <3>1
      <4> QED BY <1>6, <2>1, <4>1 DEF Once
    <3> QED BY <1>1, <3>1 DEF Once
  <2>3. ASSUME NEW m \in Pending' PROVE Free(m, crashes) \/ m \notin Written'
    <3>1. PICK i \in DOMAIN writing' : m = writing'[i]
      BY DEF Pending, Given
    <3>2. Free(m, crashes) \/ m # n
      BY <1>4, <1>6, <1>8, <2>1, <3>1 DEF Once
    <3>3. Free(m, crashes) \/ m \notin Written
      BY <1>9 DEF IndexInv, OnceInv
    <3> QED BY <1>12, <3>2, <3>3
  <2>4. Written' \cup Pending' = Written \cup Pending
    BY <1>9, <1>12
  <2>5. \A q : Past(q)' <=> Past(q)
    BY <1>1 DEF Past
  <2>6. crashes' = 0 => \A m \in Written' \cup Pending' : m.type = "reply" => Past(m.post)'
    BY <1>1, <2>4, <2>5 DEF IndexInv, OnceInv
  <2> QED BY <1>1, <1>11, <2>2, <2>3, <2>6 DEF OnceInv
<1>16. ToldInv'
  <2>1. Written \subseteq Written' /\ Written' \cup Pending' = Written \cup Pending
    BY <1>9, <1>12
  <2> QED BY <1>1, <2>1 DEF IndexInv, ToldInv, Answered
<1> QED BY <1>13, <1>14, <1>15, <1>16 DEF IndexInv

LEMMA StoreKeeps == IndexInv /\ Store => IndexInv'
<1> SUFFICES ASSUME IndexInv, Store PROVE IndexInv'
  OBVIOUS
<1>1. /\ batch = <<>> /\ writing = <<>> /\ cache' = cache \cup storing /\ storing' = {}
      /\ mode' = "live"
      /\ state' = state /\ follows' = follows /\ notifs' = notifs /\ queue' = queue
      /\ votes' = votes /\ lastId' = lastId /\ batch' = batch /\ writing' = writing
      /\ crashes' = crashes /\ excused' = excused
  BY DEF Store, Stores
<1>2. Typed'
  BY <1>1 DEF IndexInv, Typed
<1>3. cache' \cup storing' = cache \cup storing
  BY <1>1
<1>4. MarkInv'
  BY <1>1, <1>3 DEF IndexInv, MarkInv, Marked
<1>5. Written' = Written /\ Pending' = Pending /\ Pending = {}
  BY <1>1, EmptyOnce DEF Written, Pending, Given
<1>6. OnceInv'
  <2>1. \A q : Past(q)' <=> Past(q)
    BY <1>1 DEF Past
  <2> QED BY <1>1, <1>5, <2>1 DEF IndexInv, OnceInv
<1>7. ToldInv'
  BY <1>1, <1>5 DEF IndexInv, ToldInv
<1> QED BY <1>2, <1>4, <1>6, <1>7 DEF IndexInv

LEMMA RestreamKeeps == IndexInv /\ Restream => IndexInv'
<1> SUFFICES ASSUME IndexInv, Restream PROVE IndexInv'
  OBVIOUS
<1>1. /\ mode = "live" /\ mode' = "sync"
      /\ state' = state /\ cache' = cache /\ follows' = follows /\ notifs' = notifs
      /\ queue' = queue /\ votes' = votes /\ lastId' = lastId /\ batch' = batch
      /\ writing' = writing /\ storing' = storing /\ crashes' = crashes /\ excused' = excused
  BY DEF Restream, tables, memory
<1>2. Typed'
  BY <1>1 DEF IndexInv, Typed
<1>3. MarkInv'
  BY <1>1 DEF IndexInv, MarkInv, Marked
<1>4. OnceInv' /\ ToldInv'
  BY <1>1 DEF IndexInv, OnceInv, ToldInv, Once, Past, Written, Pending, Given
<1> QED BY <1>2, <1>3, <1>4 DEF IndexInv

LEMMA CrashKeeps == IndexInv /\ Crash => IndexInv'
<1> SUFFICES ASSUME IndexInv, Crash PROVE IndexInv'
  OBVIOUS
<1>1. /\ crashes' = crashes + 1 /\ mode' = "flush" /\ queue' = Clean
      /\ votes' = [p \in Ids |-> {}] /\ lastId' = LastOf(cache) /\ batch' = Tuples(Missing)
      /\ writing' = <<>> /\ storing' = {}
      /\ state' = state /\ cache' = cache /\ follows' = follows /\ notifs' = notifs
      /\ excused' = excused
  BY DEF Crash, tables
<1>2. Missing \in [Ids -> Levels \cup {"clean"}]
  BY DEF Missing, Levels
<1>3. /\ batch' \in Seq(Ids \X Levels) /\ Len(batch') \in Nat
      /\ \A i \in 1 .. Len(batch') :
            Missing[batch'[i][1]] = batch'[i][2] /\ Missing[batch'[i][1]] # "clean"
      /\ \A i, j \in 1 .. Len(batch') : i # j => batch'[i][1] # batch'[j][1]
      /\ \A p \in Ids : Missing[p] # "clean"
            => \E i \in 1 .. Len(batch') : batch'[i] = <<p, Missing[p]>>
  BY <1>1, <1>2, TuplesAre
<1>4. /\ lastId' \in 0 .. Len(Posts)
      /\ \A p \in cache : p <= lastId'
  <2>1. cache \subseteq 0 .. Len(Posts) /\ Len(Posts) \in Nat
    BY IdsAre DEF IndexInv, Typed
  <2> QED BY <1>1, <2>1, LastOfIs
<1>5. \A p \in Ids : /\ Missing[p] = "clean" \/ Missing[p] = "insert"
                     /\ Missing[p] = "insert" => state[p] = "live" /\ p > lastId'
                     /\ state[p] = "live" /\ p > lastId' => Missing[p] = "insert"
  BY <1>1 DEF Missing
<1>6. \A p \in Ids : queue'[p] = "clean"
  BY <1>1 DEF Clean
<1>7. Typed'
  BY <1>1, <1>3, <1>4 DEF IndexInv, Typed, Clean
<1>8. MarkInv'
  <2>1. Marked(state', cache' \cup storing', queue', lastId')
    BY <1>1, <1>4, <1>6 DEF IndexInv, MarkInv, Marked
  <2>2. ASSUME NEW i \in 1 .. Len(batch')
        PROVE  /\ state'[batch'[i][1]] = "live" /\ queue'[batch'[i][1]] = "clean"
               /\ batch'[i][2] = "insert" => batch'[i][1] \notin cache' \cup storing'
    <3> DEFINE p == batch'[i][1]
    <3>1. p \in Ids /\ Missing[p] # "clean"
      BY <1>3
    <3> HIDE DEF p
    <3>2. state[p] = "live" /\ p > lastId' /\ p \in Int /\ lastId' \in Int
      BY <1>4, <1>5, <3>1, IdsAre
    <3>3. p \notin cache
      BY <1>4, <3>2
    <3>4. state'[p] = "live" /\ queue'[p] = "clean" /\ p \notin cache' \cup storing'
      BY <1>1, <1>6, <3>1, <3>2, <3>3
    <3> QED BY <3>4 DEF p
  <2>3. ASSUME NEW p \in Ids, state'[p] = "live", p > lastId'
        PROVE  \E i \in 1 .. Len(batch') : batch'[i] = <<p, "insert">>
    <3>1. Missing[p] = "insert"
      BY <1>1, <1>5, <2>3
    <3> QED BY <1>3, <3>1
  <2> QED BY <1>1, <1>3, <2>1, <2>2, <2>3 DEF MarkInv
<1>9. Written' = Written /\ Pending' = {}
  BY <1>1, EmptyOnce DEF Written, Pending, Given
<1>10. crashes' > 0 /\ crashes' # 0
  BY <1>1 DEF IndexInv, Typed
<1>11. OnceInv'
  <2>1. Once(notifs, crashes')
    BY <1>10 DEF IndexInv, OnceInv, Once, Free
  <2> QED BY <1>1, <1>9, <1>10, <2>1, EmptyOnce DEF OnceInv
<1>12. ToldInv'
  BY <1>1, <1>9 DEF IndexInv, ToldInv
<1> QED BY <1>7, <1>8, <1>11, <1>12 DEF IndexInv

LEMMA LiveBlockKeeps == IndexInv /\ LiveBlock => IndexInv'
<1> SUFFICES ASSUME IndexInv, LiveBlock PROVE IndexInv'
  OBVIOUS
<1>a. PICK e \in Effects :
        \E found \in SUBSET {p \in Ids : e.queue[p] # "clean"} :
        \E names \in [found -> SUBSET Mentionable], big \in SUBSET Voters :
        /\ state' = e.state /\ follows' = e.follows
        /\ notifs' = e.notifs \o InOrder(
              UNION {Tells(e.follows, p, e.queue[p], names[p], e.votes[p] \cap big) : p \in found})
        /\ cache' = e.cache \cup {p \in found : e.queue[p] = "insert"}
        /\ queue' = [p \in Ids |-> IF p \in found THEN "clean" ELSE e.queue[p]]
        /\ votes' = [p \in Ids |-> IF p \in found THEN {} ELSE e.votes[p]]
        /\ lastId' = LastOf({lastId} \cup {p \in Ids : e.queue[p] # "clean"})
        /\ excused' = Excused(e.follows, e.excused, {p \in found : e.queue[p] = "insert"})
  BY DEF LiveBlock
<1>b. PICK found \in SUBSET {p \in Ids : e.queue[p] # "clean"} :
        \E names \in [found -> SUBSET Mentionable], big \in SUBSET Voters :
        /\ state' = e.state /\ follows' = e.follows
        /\ notifs' = e.notifs \o InOrder(
              UNION {Tells(e.follows, p, e.queue[p], names[p], e.votes[p] \cap big) : p \in found})
        /\ cache' = e.cache \cup {p \in found : e.queue[p] = "insert"}
        /\ queue' = [p \in Ids |-> IF p \in found THEN "clean" ELSE e.queue[p]]
        /\ votes' = [p \in Ids |-> IF p \in found THEN {} ELSE e.votes[p]]
        /\ lastId' = LastOf({lastId} \cup {p \in Ids : e.queue[p] # "clean"})
        /\ excused' = Excused(e.follows, e.excused, {p \in found : e.queue[p] = "insert"})
  BY <1>a
<1>1. PICK names \in [found -> SUBSET Mentionable], big \in SUBSET Voters :
        /\ state' = e.state /\ follows' = e.follows
        /\ notifs' = e.notifs \o InOrder(
              UNION {Tells(e.follows, p, e.queue[p], names[p], e.votes[p] \cap big) : p \in found})
        /\ cache' = e.cache \cup {p \in found : e.queue[p] = "insert"}
        /\ queue' = [p \in Ids |-> IF p \in found THEN "clean" ELSE e.queue[p]]
        /\ votes' = [p \in Ids |-> IF p \in found THEN {} ELSE e.votes[p]]
        /\ lastId' = LastOf({lastId} \cup {p \in Ids : e.queue[p] # "clean"})
        /\ excused' = Excused(e.follows, e.excused, {p \in found : e.queue[p] = "insert"})
  BY <1>b
<1>2. /\ mode = "live" /\ mode' = mode /\ batch' = batch /\ writing' = writing
      /\ storing' = storing /\ crashes' = crashes
  BY DEF LiveBlock
<1>3. /\ batch = <<>> /\ writing = <<>> /\ storing = {}
      /\ EffectOK(e)
      /\ e.notifs \in Seq(Note) /\ Once(e.notifs, crashes)
      /\ Written \subseteq Given(e.notifs)
      /\ \A n \in Given(e.notifs) : n \in Written \/ n.type \in Loose
      /\ crashes = 0 => \A n \in Given(e.notifs) : n.type = "reply" =>
            /\ n.post \in Ids /\ n.post <= lastId
            /\ e.state[n.post] # "none" /\ e.queue[n.post] # "insert"
  BY <1>2, BlockKeeps
<1> DEFINE inserts == {p \in found : e.queue[p] = "insert"}
           told == UNION {Tells(e.follows, p, e.queue[p], names[p], e.votes[p] \cap big) : p \in found}
           new == InOrder(told)
<1>4. found \subseteq Ids /\ inserts \subseteq found
  OBVIOUS
<1>5. ASSUME NEW p \in found
      PROVE  LET t == Tells(e.follows, p, e.queue[p], names[p], e.votes[p] \cap big) IN
             /\ t \subseteq FlushNote
             /\ \A n \in t : /\ n.post = p
                             /\ n.type = "reply" => e.queue[p] = "insert"
                             /\ n.type # "reply" => n \notin Written
             /\ TellsReply(e.follows, p, e.queue[p]) => \E n \in t : n.type = "reply" /\ n.post = p
  <2>1. names[p] \in SUBSET Mentionable /\ e.votes[p] \cap big \in SUBSET Voters /\ p \in Ids
    BY <1>4
  <2> QED BY <2>1, TellsIs DEF IndexInv
<1>6. /\ told \in SUBSET FlushNote
      /\ \A n \in told : /\ n.post \in found
                         /\ n.type = "reply" => n.post \in inserts
                         /\ n.type # "reply" => n \notin Written
      /\ \A p \in inserts : TellsReply(e.follows, p, "insert")
            => \E n \in told : n.type = "reply" /\ n.post = p
  <2>1. ASSUME NEW n \in told
        PROVE  /\ n \in FlushNote /\ n.post \in found
               /\ n.type = "reply" => n.post \in inserts
               /\ n.type # "reply" => n \notin Written
    <3>1. PICK p \in found :
            n \in Tells(e.follows, p, e.queue[p], names[p], e.votes[p] \cap big)
      OBVIOUS
    <3>2. /\ n \in FlushNote /\ n.post = p
          /\ n.type = "reply" => e.queue[p] = "insert"
          /\ n.type # "reply" => n \notin Written
      <4> DEFINE t == Tells(e.follows, p, e.queue[p], names[p], e.votes[p] \cap big)
      <4>1. /\ t \subseteq FlushNote
            /\ \A m \in t : /\ m.post = p
                            /\ m.type = "reply" => e.queue[p] = "insert"
                            /\ m.type # "reply" => m \notin Written
        BY <1>5
      <4>2. n \in t
        BY <3>1
      <4> HIDE DEF t
      <4> QED BY <4>1, <4>2
    <3> QED BY <3>2
  <2>2. ASSUME NEW p \in inserts, TellsReply(e.follows, p, "insert")
        PROVE  \E n \in told : n.type = "reply" /\ n.post = p
    <3>1. p \in found /\ TellsReply(e.follows, p, e.queue[p])
      BY <2>2
    <3>2. PICK n \in Tells(e.follows, p, e.queue[p], names[p], e.votes[p] \cap big) :
            n.type = "reply" /\ n.post = p
      BY <1>5, <3>1
    <3>3. n \in told
      BY <3>1
    <3> QED BY <3>2, <3>3
  <2> QED BY <2>1, <2>2
<1>7. /\ state' = e.state /\ follows' = e.follows /\ notifs' = e.notifs \o new
      /\ cache' = e.cache \cup inserts
      /\ excused' = (e.excused \ inserts) \cup {p \in inserts : ~TellsReply(e.follows, p, "insert")}
  BY <1>1 DEF Excused
<1>8. /\ new \in Seq(told) /\ new \in Seq(FlushNote) /\ Len(new) \in Nat
      /\ \A i, j \in 1 .. Len(new) : i # j => new[i] # new[j]
      /\ \A n \in told : \E i \in 1 .. Len(new) : new[i] = n
  <2> HIDE DEF told
  <2> QED BY <1>6, InOrderIs
<1>i. \A p \in inserts : p \in found /\ e.queue[p] = "insert"
  OBVIOUS
<1> HIDE DEF told, new, inserts
<1>9. new \in Seq(Note) /\ Once(new, crashes) /\ Given(new) = told
  <2>1. DOMAIN new = 1 .. Len(new)
    BY <1>8
  <2>2. \A i \in 1 .. Len(new) : new[i] \in told /\ new[i] \in Note
    BY <1>6, <1>8, FlushNoteIsNote
  <2>3. new \in Seq(Note)
    <3>1. new = [i \in 1 .. Len(new) |-> new[i]]
      BY <1>8
    <3> QED BY <1>8, <2>2, <3>1
  <2> QED BY <1>8, <2>1, <2>2, <2>3 DEF Once, Given
<1>10. \A n \in told : Free(n, crashes) \/ n \notin Given(e.notifs)
  <2> SUFFICES ASSUME NEW n \in told, n \in Given(e.notifs), n.type \in {"reply", "mention", "vote"}
               PROVE  Free(n, crashes)
    BY <1>6 DEF FlushNote
  <2>1. n \in Written
    BY <1>3 DEF Loose
  <2>2. n.type = "reply" /\ n.post \in inserts
    BY <1>6, <2>1
  <2>3. e.queue[n.post] = "insert"
    BY <1>i, <2>2
  <2>4. crashes # 0
    BY <1>3, <2>2, <2>3
  <2> QED BY <2>2, <2>4 DEF Free, IndexInv, Typed
<1>11. /\ notifs' \in Seq(Note) /\ Once(notifs', crashes)
       /\ Given(notifs') = Given(e.notifs) \cup told
  <2>1. \A n \in Given(new) : Free(n, crashes) \/ n \notin Given(e.notifs)
    BY <1>9, <1>10
  <2> QED BY <1>3, <1>7, <1>9, <2>1, OnceConcat
<1>12. Written' = Given(e.notifs) \cup told /\ Pending' = {}
  BY <1>2, <1>3, <1>11, EmptyOnce DEF Written, Given, Pending
<1>13. /\ lastId' \in 0 .. Len(Posts) /\ lastId <= lastId'
       /\ \A p \in Ids : e.queue[p] # "clean" => p <= lastId'
  <2>1. {lastId} \cup {p \in Ids : e.queue[p] # "clean"} \subseteq 0 .. Len(Posts)
        /\ Len(Posts) \in Nat
    BY IdsAre DEF IndexInv, Typed
  <2> QED BY <1>1, <2>1, LastOfIs
<1>14. \A p \in Ids : queue'[p] = IF p \in found THEN "clean" ELSE e.queue[p]
  BY <1>1
<1>15. Typed'
  <2>1. cache' \subseteq Ids /\ excused' \subseteq Ids
    BY <1>3, <1>4, <1>7 DEF EffectOK
  <2>2. queue' \in [Ids -> Levels \cup {"clean"}] /\ votes' \in [Ids -> SUBSET Voters]
    BY <1>1, <1>3 DEF EffectOK
  <2> QED BY <1>2, <1>3, <1>7, <1>11, <1>13, <2>1, <2>2 DEF IndexInv, Typed, EffectOK
<1>16. MarkInv'
  <2>1. cache' \cup storing' = e.cache \cup inserts
    BY <1>2, <1>3, <1>7
  <2>2. ASSUME NEW p \in e.cache \cup inserts PROVE state'[p] = "live" /\ p <= lastId'
    <3>1. CASE p \in e.cache
      <4>1. state'[p] = "live" /\ p <= lastId /\ p \in Int
        BY <1>3, <1>7, <3>1, IdsAre DEF EffectOK, Marked
      <4> QED BY <1>13, <4>1 DEF IndexInv, Typed
    <3>2. CASE p \in inserts
      BY <1>3, <1>4, <1>7, <1>13, <1>i, <3>2 DEF EffectOK, Marked
    <3> QED BY <3>1, <3>2
  <2>3. \A p \in Ids : queue'[p] # "clean" => state'[p] = "live"
    BY <1>3, <1>7, <1>14 DEF EffectOK, Marked
  <2>4. \A p \in Ids : queue'[p] = "insert" => p \notin e.cache \cup inserts
    BY <1>3, <1>14, <1>i DEF EffectOK, Marked
  <2>5. Marked(state', cache' \cup storing', queue', lastId')
    BY <2>1, <2>2, <2>3, <2>4 DEF Marked
  <2>6. ASSUME NEW p \in Ids, state'[p] = "live", p > lastId' PROVE FALSE
    <3>1. p \in Int /\ lastId \in Int /\ lastId' \in Int
      BY <1>13, IdsAre DEF IndexInv, Typed
    <3>2. p > lastId
      BY <1>13, <2>6, <3>1
    <3>3. e.queue[p] = "insert"
      BY <1>3, <1>7, <2>6, <3>2 DEF EffectOK, Due
    <3> QED BY <1>13, <2>6, <3>1, <3>3
  <2>7. \A i \in 1 .. Len(batch') : FALSE
    BY <1>2, <1>3
  <2> QED BY <1>2, <1>3, <2>5, <2>6, <2>7 DEF MarkInv
<1>17. OnceInv'
  <2>1. ASSUME NEW n \in Written', n.type = "reply", crashes = 0 PROVE Past(n.post)'
    <3> DEFINE p == n.post
    <3>1. p \in Ids /\ p <= lastId' /\ e.state[p] # "none" /\ queue'[p] # "insert"
      <4>1. CASE n \in Given(e.notifs)
        <5>1. p \in Ids /\ p <= lastId /\ e.state[p] # "none" /\ e.queue[p] # "insert"
          BY <1>3, <2>1, <4>1
        <5>2. p \in Int /\ lastId \in Int /\ lastId' \in Int
          BY <1>13, <5>1, IdsAre DEF IndexInv, Typed
        <5> HIDE DEF p
        <5> QED BY <1>13, <1>14, <5>1, <5>2
      <4>2. CASE n \in told
        <5>1. p \in inserts
          BY <1>6, <2>1, <4>2
        <5>2. p \in found /\ p \in Ids /\ e.queue[p] = "insert"
          BY <1>4, <1>i, <5>1
        <5> HIDE DEF p
        <5> QED BY <1>3, <1>13, <1>14, <5>2 DEF EffectOK, Marked
      <4> QED BY <1>12, <2>1, <4>1, <4>2
    <3>2. \A i \in 1 .. Len(batch') : FALSE
      BY <1>2, <1>3
    <3> QED BY <1>7, <3>1, <3>2 DEF Past
  <2>2. Once(writing', crashes')
    BY <1>2, <1>3, EmptyOnce
  <2> QED BY <1>2, <1>11, <1>12, <2>1, <2>2 DEF OnceInv
<1>18. ToldInv'
  <2>1. ASSUME NEW p \in cache', p \notin excused' PROVE Answered(p, Written')
    <3>1. CASE p \in inserts
      <4>1. TellsReply(e.follows, p, "insert")
        BY <1>7, <2>1, <3>1
      <4> QED BY <1>6, <1>12, <3>1, <4>1 DEF Answered
    <3>2. CASE p \notin inserts
      <4>1. p \in e.cache \ e.excused
        BY <1>7, <2>1, <3>2
      <4>2. p \in cache \ excused
        BY <1>3, <4>1 DEF EffectOK
      <4> QED BY <1>3, <1>12, <4>2 DEF IndexInv, ToldInv, Answered
    <3> QED BY <3>1, <3>2
  <2> QED BY <1>2, <1>3, <2>1 DEF ToldInv
<1> QED BY <1>15, <1>16, <1>17, <1>18 DEF IndexInv

LEMMA InitKeeps == Init => IndexInv
<1> SUFFICES ASSUME Init PROVE IndexInv
  OBVIOUS
<1> USE DEF Init
<1>1. Typed
  BY IdsAre DEF Typed, Clean
<1>2. MarkInv
  BY DEF MarkInv, Marked, Clean
<1>3. Written = {} /\ Pending = {}
  BY EmptyOnce, WrittenIs DEF Pending
<1>4. OnceInv /\ ToldInv
  BY <1>3, EmptyOnce DEF OnceInv, ToldInv
<1> QED BY <1>1, <1>2, <1>4 DEF IndexInv

\* The indexer's variables stay as they are.
LEMMA SameKeeps ==
  ASSUME IndexInv, UNCHANGED <<tables, memory, mode, crashes, excused>>
  PROVE  IndexInv'
<1>1. /\ state' = state /\ cache' = cache /\ follows' = follows /\ notifs' = notifs
      /\ queue' = queue /\ votes' = votes /\ lastId' = lastId /\ batch' = batch
      /\ writing' = writing /\ storing' = storing /\ mode' = mode /\ crashes' = crashes
      /\ excused' = excused
  BY DEF tables, memory
<1>2. Typed' /\ MarkInv'
  BY <1>1 DEF IndexInv, Typed, MarkInv, Marked
<1>3. Written' = Written /\ Pending' = Pending
  BY <1>1 DEF Written, Pending, Given
<1>4. \A q : Past(q)' <=> Past(q)
  BY <1>1 DEF Past
<1>5. OnceInv' /\ ToldInv'
  BY <1>1, <1>3, <1>4 DEF IndexInv, OnceInv, ToldInv
<1> QED BY <1>2, <1>5 DEF IndexInv

LEMMA StepKeeps == IndexInv /\ [Next]_vars => IndexInv'
<1> SUFFICES ASSUME IndexInv, [Next]_vars PROVE IndexInv'
  OBVIOUS
<1>1. CASE Indexer
  BY <1>1, SyncBlockKeeps, FlushKeeps, BeginKeeps, WriteKeeps, StoreKeeps, LiveBlockKeeps,
     RestreamKeeps, CrashKeeps DEF Indexer
<1>2. CASE Ask
  BY <1>2, SameKeeps DEF Ask
<1>3. CASE UNCHANGED vars
  BY <1>3, SameKeeps DEF vars
<1> QED BY <1>1, <1>2, <1>3 DEF Next

LEMMA Invariant == Spec => []IndexInv
BY InitKeeps, StepKeeps, PTL DEF Spec

\* Every variable holds a value of its type, rows are of live posts up to the
\* last id, and a post past it is only ever marked to be inserted, so that the
\* flush never meets an update of a post it has not cached (cached_post.py _sql).
THEOREM TypeCorrect == Spec => []TypeOK
<1>1. IndexInv => TypeOK
  <2> SUFFICES ASSUME IndexInv PROVE TypeOK
    OBVIOUS
  <2>1. cache \subseteq {p \in Ids : state[p] = "live"} /\ \A p \in cache : p <= lastId
    BY DEF IndexInv, Typed, MarkInv, Marked
  <2>2. ASSUME NEW p \in Ids, queue[p] # "clean", p > lastId PROVE queue[p] = "insert"
    <3>1. state[p] = "live"
      BY <2>2 DEF IndexInv, MarkInv, Marked
    <3>2. ASSUME NEW i \in 1 .. Len(batch), batch[i] = <<p, "insert">> PROVE FALSE
      <4>1. queue[batch[i][1]] = "clean" /\ batch[i][1] = p
        BY <3>2 DEF IndexInv, MarkInv
      <4> QED BY <2>2, <4>1
    <3> QED BY <2>2, <3>1, <3>2 DEF IndexInv, MarkInv
  <2>3. ASSUME NEW n \in Written
        PROVE  n.type \in {"reply", "mention", "vote", "follow", "reblog", "error"}
    <3>1. PICK i \in DOMAIN notifs : n = notifs[i]
      BY DEF Written
    <3>2. notifs \in Seq(Note)
      BY DEF IndexInv, Typed
    <3>3. i \in 1 .. Len(notifs)
      BY <3>2
    <3>4. notifs[i] \in Note
      BY <3>2, <3>3, ElementOfSeq
    <3> QED BY <3>1, <3>4 DEF Note, Types
  <2> QED BY <2>1, <2>2, <2>3 DEF TypeOK, IndexInv, Typed
<1> QED BY <1>1, Invariant, PTL

\* A mention and a vote are told once for ever, a reply once unless the indexer
\* crashed, whatever was edited, voted again, deferred, deleted, made again or
\* flushed again (cached_post.py _notifs, _mentioned, _voted).
THEOREM ToldOnce == Spec => []OnceEach
<1>1. IndexInv => OnceEach
  BY OnceEachIs DEF IndexInv, OnceInv
<1> QED BY <1>1, Invariant, PTL

\* A reply with a row in the cache has been told of, or was excused when it was
\* inserted: no crash in a flush loses the notification of a reply that is not
\* flushed again (cached_post.py _update_batch).
THEOREM RepliesTold == Spec => []CachedIsTold
<1>1. IndexInv => CachedIsTold
  BY DEF IndexInv, ToldInv, CachedIsTold, Answered
<1> QED BY <1>1, Invariant, PTL

-----------------------------------------------------------------------------
(* The reader. *)

\* A page: the newest notifications before the last one given, and all of them
\* unless it is full.
LEMMA PageIs ==
  ASSUME IndexInv, NEW last \in Nat
  PROVE  LET page == Page(last) IN
         /\ page \in Seq(Seek(last)) /\ Len(page) \in 0 .. Limit
         /\ \A i, j \in 1 .. Len(page) : i < j => page[i] > page[j]
         /\ \A n \in Seek(last) :
               \/ \E i \in 1 .. Len(page) : page[i] = n
               \/ Len(page) = Limit /\ n < page[Limit]
<1> DEFINE S == Seek(last)
           k == Cardinality(S)
           m == Len(notifs)
           place == [i \in S |-> m - i]
           s == Ordered(S, place)
           n == IF k < Limit THEN k ELSE Limit
           page == [i \in 1 .. n |-> s[i]]
<1>1. m \in Nat /\ DOMAIN notifs = 1 .. m
  <2>1. notifs \in Seq(Note)
    BY DEF IndexInv, Typed
  <2> QED BY <2>1
<1>2. S \subseteq 1 .. m
  BY <1>1 DEF Seek, Visible
<1>3. IsFiniteSet(S)
  <2>1. IsFiniteSet(1 .. m)
    BY <1>1, FS_Interval
  <2> QED BY <1>2, <2>1, FS_Subset
<1>4. Limit \in Nat /\ Limit > 0
  BY NoticesAssumption
<1>5. Page(last) = SubSeq(s, 1, IF Len(s) < Limit THEN Len(s) ELSE Limit)
  BY DEF Page
<1> HIDE DEF S, m
<1>6. \A x \in S : x \in Nat /\ place[x] = m - x /\ place[x] \in Nat
  BY <1>1, <1>2
<1> HIDE DEF place
<1>7. /\ k \in Nat /\ s \in [1 .. k -> S] /\ s \in Seq(S) /\ Len(s) = k
      /\ \A i, j \in 1 .. k : i # j => s[i] # s[j]
      /\ \A i, j \in 1 .. k : i < j => place[s[i]] <= place[s[j]]
      /\ \A x \in S : \E i \in 1 .. k : s[i] = x
  BY <1>3, <1>6, OrderedIs
<1> HIDE DEF s, k
<1>8. ASSUME NEW i \in 1 .. k, NEW j \in 1 .. k, i < j PROVE s[i] > s[j]
  <2>1. s[i] \in S /\ s[j] \in S /\ s[i] # s[j] /\ place[s[i]] <= place[s[j]]
    BY <1>7, <1>8
  <2>2. s[i] \in Nat /\ s[j] \in Nat /\ m - s[i] <= m - s[j]
    BY <1>6, <2>1
  <2> QED BY <1>1, <2>1, <2>2
<1>9. n \in Nat /\ n <= k /\ n <= Limit /\ (n = k \/ n = Limit)
  BY <1>4, <1>7
<1>10. Page(last) = SubSeq(s, 1, n)
  BY <1>5, <1>7
<1> HIDE DEF n
<1>11. \A i \in 1 .. n : i \in 1 .. k
  BY <1>7, <1>9
<1>12. Page(last) \in Seq(S) /\ Len(Page(last)) = n /\ \A i \in 1 .. n : Page(last)[i] = s[i]
  <2>1. \A i \in 1 .. n : s[i] \in S
    BY <1>7, <1>11
  <2>2. /\ SubSeq(s, 1, n) \in Seq(S)
        /\ Len(SubSeq(s, 1, n)) = IF 1 <= n THEN n - 1 + 1 ELSE 0
        /\ \A i \in 1 .. n - 1 + 1 : SubSeq(s, 1, n)[i] = s[1 + i - 1]
    BY <1>9, <2>1, SubSeqProperties
  <2>3. \A i \in 1 .. n : i \in 1 .. n - 1 + 1 /\ 1 + i - 1 = i
    BY <1>9
  <2> QED BY <1>9, <1>10, <2>2, <2>3
<1>13. ASSUME NEW x \in S
       PROVE  (\E i \in 1 .. n : s[i] = x) \/ (n = Limit /\ x < s[Limit])
  <2>1. PICK i \in 1 .. k : s[i] = x
    BY <1>7
  <2>2. CASE i \in 1 .. n
    BY <2>1, <2>2
  <2>3. CASE i \notin 1 .. n
    <3>1. n < i /\ n = Limit /\ n \in 1 .. k
      BY <1>4, <1>7, <1>9, <2>3
    <3> QED BY <1>8, <2>1, <3>1
  <2> QED BY <2>2, <2>3
<1>14. /\ Page(last) \in Seq(Seek(last)) /\ Len(Page(last)) \in 0 .. Limit
       /\ \A i, j \in 1 .. Len(Page(last)) : i < j => Page(last)[i] > Page(last)[j]
  BY <1>4, <1>8, <1>9, <1>11, <1>12 DEF S
<1>15. ASSUME NEW x \in Seek(last)
       PROVE  \/ \E i \in 1 .. Len(Page(last)) : Page(last)[i] = x
              \/ Len(Page(last)) = Limit /\ x < Page(last)[Limit]
  <2>1. (\E i \in 1 .. n : s[i] = x) \/ (n = Limit /\ x < s[Limit])
    BY <1>13 DEF S
  <2>2. n = Limit => Limit \in 1 .. n
    BY <1>4
  <2> QED BY <1>12, <2>1, <2>2
<1> QED BY <1>14, <1>15

\* What a walk has given is in falling order, down to the last one; what it must
\* give and has not given yet is older.
WalkInv ==
  /\ client = [on |-> client.on, last |-> client.last, given |-> client.given, need |-> client.need]
  /\ client.on \in BOOLEAN /\ client.last \in Nat
  /\ client.given \in Seq(Nat \ {0})
  /\ \A i, j \in 1 .. Len(client.given) : i < j => client.given[i] > client.given[j]
  /\ client.need \subseteq Visible
  /\ client.on => /\ client.last # 0
                  /\ \A i \in 1 .. Len(client.given) : client.given[i] >= client.last
                  /\ \A n \in client.need : n \in Given(client.given) \/ n < client.last
  /\ ~client.on => client.last = 0 /\ client.need \subseteq Given(client.given)

LEMMA InitWalk == Init => WalkInv
<1> SUFFICES ASSUME Init PROVE WalkInv
  OBVIOUS
<1>1. client = [on |-> FALSE, last |-> 0, given |-> <<>>, need |-> {}]
  BY DEF Init, Done
<1> QED BY <1>1 DEF WalkInv

\* Needing drops from what a walk must give what can no longer be seen.
LEMMA NeedingWalk == WalkInv /\ client' = Needing => WalkInv'
<1> SUFFICES ASSUME WalkInv, client' = Needing PROVE WalkInv'
  OBVIOUS
<1>1. /\ client'.on = client.on /\ client'.last = client.last /\ client'.given = client.given
      /\ client'.need = client.need \cap Visible'
      /\ client' = [on |-> client.on, last |-> client.last, given |-> client.given,
                    need |-> client.need \cap Visible']
  BY DEF Needing, WalkInv
<1> QED BY <1>1 DEF WalkInv

\* New notifications take nothing away.
LEMMA GrowingWalk ==
  ASSUME WalkInv, client' = client, Visible \subseteq Visible'
  PROVE  WalkInv'
BY DEF WalkInv

LEMMA AskWalk == IndexInv /\ WalkInv /\ Ask => WalkInv'
<1> SUFFICES ASSUME IndexInv, WalkInv, Ask PROVE WalkInv'
  OBVIOUS
<1> DEFINE page == Page(client.last)
           last == client.last
           need == IF client.on THEN client.need ELSE Visible
           given == IF client.on THEN client.given ELSE <<>>
           k == Len(given)
           m == Len(page)
<1>1. client' = [on |-> m = Limit, given |-> given \o page, need |-> need,
                 last |-> IF m = Limit THEN page[Limit] ELSE 0]
  BY DEF Ask
<1>2. /\ state' = state /\ notifs' = notifs
  BY DEF Ask, tables
<1>3. Visible' = Visible
  BY <1>2 DEF Visible
<1>4. last \in Nat /\ (client.on => last # 0) /\ (~client.on => last = 0)
  BY DEF WalkInv
<1>5. /\ page \in Seq(Seek(last)) /\ m \in 0 .. Limit
      /\ \A i, j \in 1 .. m : i < j => page[i] > page[j]
      /\ \A n \in Seek(last) : (\E i \in 1 .. m : page[i] = n) \/ (m = Limit /\ n < page[Limit])
  BY <1>4, PageIs
<1>6. Visible \subseteq Nat \ {0}
  <2>1. notifs \in Seq(Note)
    BY DEF IndexInv, Typed
  <2>2. DOMAIN notifs \subseteq Nat \ {0}
    BY <2>1
  <2> QED BY <2>2 DEF Visible
<1>7. /\ \A n \in Seek(last) : n \in Nat \ {0} /\ (last # 0 => n < last)
      /\ \A n \in Visible : (last # 0 /\ ~(n < last)) \/ n \in Seek(last)
  BY <1>6 DEF Seek
<1>8. /\ given \in Seq(Nat \ {0})
      /\ \A i, j \in 1 .. k : i < j => given[i] > given[j]
      /\ \A i \in 1 .. k : last # 0 /\ given[i] >= last
  BY <1>4 DEF WalkInv
<1>9. need \subseteq Visible /\ \A n \in need : n \in Given(given) \/ n \in Seek(last)
  <2>1. CASE client.on
    BY <1>4, <1>7, <2>1, <1>6 DEF WalkInv
  <2>2. CASE ~client.on
    BY <1>4, <1>7, <2>2
  <2> QED BY <2>1, <2>2
<1> HIDE DEF page, last, need, given
<1>10. \A i \in 1 .. m : page[i] \in Seek(last) /\ page[i] \in Nat \ {0}
  BY <1>5, <1>7, ElementOfSeq
<1>11. page \in Seq(Nat \ {0})
  <2>1. page = [i \in 1 .. m |-> page[i]] /\ m \in Nat
    BY <1>5
  <2> QED BY <1>10, <2>1
<1> DEFINE all == given \o page
<1>12. /\ all \in Seq(Nat \ {0}) /\ Len(all) = k + m
       /\ \A i \in 1 .. k + m : all[i] = IF i <= k THEN given[i] ELSE page[i - k]
  BY <1>8, <1>11, ConcatProperties
<1>13. k \in Nat /\ m \in Nat /\ Limit \in Nat /\ Limit > 0 /\ m <= Limit
  BY <1>5, <1>8, NoticesAssumption
<1> HIDE DEF all, k, m
<1>14. \A i \in 1 .. k : i \in 1 .. k + m /\ all[i] = given[i]
  BY <1>12, <1>13
<1>15. \A i \in 1 .. m : k + i \in 1 .. k + m /\ all[k + i] = page[i]
  <2> SUFFICES ASSUME NEW i \in 1 .. m PROVE k + i \in 1 .. k + m /\ all[k + i] = page[i]
    OBVIOUS
  <2>1. k + i \in 1 .. k + m /\ ~(k + i <= k) /\ k + i - k = i
    BY <1>13
  <2> QED BY <1>12, <1>13, <2>1
<1>16. \A i \in 1 .. k + m : \/ i \in 1 .. k /\ all[i] = given[i]
                             \/ i > k /\ i - k \in 1 .. m /\ all[i] = page[i - k]
  BY <1>12, <1>13
<1>17. ASSUME NEW i \in 1 .. k + m, NEW j \in 1 .. k + m, i < j PROVE all[i] > all[j]
  <2>1. CASE i \in 1 .. k /\ j \in 1 .. k
    BY <1>8, <1>14, <1>17, <2>1
  <2>2. CASE i \in 1 .. k /\ j > k
    <3>1. all[i] = given[i] /\ last # 0 /\ given[i] >= last /\ given[i] \in Nat
      BY <1>8, <1>14, <2>2, ElementOfSeq DEF k
    <3>2. j - k \in 1 .. m /\ all[j] = page[j - k]
      BY <1>13, <1>16, <2>2
    <3>3. all[j] \in Nat /\ all[j] < last
      BY <1>7, <1>10, <3>1, <3>2
    <3> QED BY <1>4, <3>1, <3>3 DEF last
  <2>3. CASE i > k
    <3>1. /\ i - k \in 1 .. m /\ all[i] = page[i - k]
          /\ j - k \in 1 .. m /\ all[j] = page[j - k] /\ i - k < j - k
      BY <1>13, <1>16, <1>17, <2>3
    <3> QED BY <1>5, <3>1 DEF m
  <2> QED BY <1>13, <1>17, <2>1, <2>2, <2>3
<1>18. Given(all) = Given(given) \cup Given(page)
  <2>1. DOMAIN all = 1 .. k + m /\ DOMAIN given = 1 .. k /\ DOMAIN page = 1 .. m
    BY <1>8, <1>11, <1>12 DEF k, m
  <2>2. Given(all) \subseteq Given(given) \cup Given(page)
    BY <1>16, <2>1 DEF Given
  <2>3. Given(given) \subseteq Given(all)
    BY <1>14, <2>1 DEF Given
  <2>4. Given(page) \subseteq Given(all)
    BY <1>15, <2>1 DEF Given
  <2> QED BY <2>2, <2>3, <2>4
<1>19. \A n \in need : n \in Given(all) \/ (m = Limit /\ n < page[Limit])
  <2>1. DOMAIN page = 1 .. m
    BY <1>11 DEF m
  <2> QED BY <1>5, <1>9, <1>18, <2>1 DEF Given, m
<1>20. ASSUME m = Limit
       PROVE  /\ page[Limit] \in Nat \ {0}
              /\ \A i \in 1 .. k + m : all[i] >= page[Limit]
  <2>1. Limit \in 1 .. m /\ k + m \in 1 .. k + m /\ all[k + m] = page[Limit]
    BY <1>13, <1>15, <1>20
  <2>2. \A i \in 1 .. k + m : all[i] \in Nat
    BY <1>12, ElementOfSeq
  <2>3. ASSUME NEW i \in 1 .. k + m PROVE all[i] >= page[Limit]
    <3>1. i = k + m \/ i < k + m
      BY <1>13
    <3> QED BY <1>17, <2>1, <2>2, <3>1
  <2> QED BY <1>10, <2>1, <2>3
<1>21. /\ client'.on = (m = Limit) /\ client'.given = all /\ client'.need = need
       /\ client'.last = (IF m = Limit THEN page[Limit] ELSE 0)
       /\ client' = [on |-> client'.on, last |-> client'.last, given |-> client'.given,
                     need |-> client'.need]
  BY <1>1 DEF all
<1>22. /\ client'.on \in BOOLEAN /\ client'.last \in Nat
       /\ client'.given \in Seq(Nat \ {0}) /\ client'.need \subseteq Visible'
       /\ \A i, j \in 1 .. Len(client'.given) : i < j => client'.given[i] > client'.given[j]
  BY <1>3, <1>9, <1>12, <1>17, <1>20, <1>21
<1>23. client'.on => /\ client'.last # 0
                     /\ \A i \in 1 .. Len(client'.given) : client'.given[i] >= client'.last
                     /\ \A n \in client'.need : n \in Given(client'.given) \/ n < client'.last
  BY <1>12, <1>19, <1>20, <1>21
<1>24. ~client'.on => client'.last = 0 /\ client'.need \subseteq Given(client'.given)
  BY <1>19, <1>21
<1> QED BY <1>21, <1>22, <1>23, <1>24 DEF WalkInv, Given

LEMMA StepWalk == IndexInv /\ WalkInv /\ [Next]_vars => WalkInv'
<1> SUFFICES ASSUME IndexInv, WalkInv, [Next]_vars PROVE WalkInv'
  OBVIOUS
<1>1. CASE SyncBlock \/ LiveBlock
  <2>1. client' = Needing
    BY <1>1 DEF SyncBlock, LiveBlock
  <2> QED BY <2>1, NeedingWalk
<1>2. CASE Flush \/ Begin \/ Store \/ Restream \/ Crash \/ UNCHANGED vars
  <2>1. client' = client /\ state' = state /\ notifs' = notifs
    BY <1>2 DEF Flush, Begin, Store, Restream, Crash, vars, tables
  <2>2. Visible' = Visible
    BY <2>1 DEF Visible
  <2> QED BY <2>1, <2>2, GrowingWalk
<1>3. CASE Write
  <2>1. /\ client' = client /\ state' = state /\ writing # <<>>
        /\ notifs' = Append(notifs, Head(writing))
    BY <1>3 DEF Write
  <2>2. notifs \in Seq(Note) /\ Head(writing) \in Note
    <3>1. writing \in Seq(FlushNote) /\ notifs \in Seq(Note)
      BY DEF IndexInv, Typed
    <3>2. Head(writing) \in FlushNote
      BY <2>1, <3>1, HeadTailProperties
    <3> QED BY <3>1, <3>2, FlushNoteIsNote
  <2>3. /\ notifs' \in Seq(Note) /\ Len(notifs') = Len(notifs) + 1
        /\ \A i \in 1 .. Len(notifs) : notifs'[i] = notifs[i]
    BY <2>1, <2>2, AppendProperties
  <2>4. \A i \in DOMAIN notifs : i \in DOMAIN notifs' /\ notifs'[i] = notifs[i]
    BY <2>2, <2>3
  <2>5. Visible \subseteq Visible'
    BY <2>1, <2>4 DEF Visible
  <2> QED BY <2>1, <2>5, GrowingWalk
<1>4. CASE Ask
  BY <1>4, AskWalk
<1> QED BY <1>1, <1>2, <1>3, <1>4 DEF Next, Indexer

\* A walk through the notifications gives none twice and, when it ends, has given
\* all that were there from its beginning on and still are, while new ones come
\* and posts are deleted between its pages (worth_api/notify.py
\* account_notifications).
THEOREM WalksGiveAll == Spec => []WalkComplete
<1>1. IndexInv /\ WalkInv => WalkComplete
  <2> SUFFICES ASSUME WalkInv PROVE WalkComplete
    OBVIOUS
  <2>1. ASSUME NEW i \in DOMAIN client.given, NEW j \in DOMAIN client.given, i # j
        PROVE  client.given[i] # client.given[j]
    <3>1. client.given \in Seq(Nat \ {0})
      BY DEF WalkInv
    <3>2. i \in 1 .. Len(client.given) /\ j \in 1 .. Len(client.given) /\ (i < j \/ j < i)
      BY <2>1, <3>1
    <3>3. client.given[i] \in Nat /\ client.given[j] \in Nat
      BY <3>1, <3>2, ElementOfSeq
    <3>4. client.given[i] > client.given[j] \/ client.given[j] > client.given[i]
      BY <3>2 DEF WalkInv
    <3> QED BY <3>3, <3>4
  <2>2. ~client.on => client.need \subseteq {client.given[i] : i \in DOMAIN client.given}
    BY DEF WalkInv, Given
  <2> QED BY <2>1, <2>2 DEF WalkComplete
<1> QED BY <1>1, Invariant, InitWalk, StepWalk, PTL DEF Spec
=============================================================================
