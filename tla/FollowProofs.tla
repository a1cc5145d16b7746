---------------------------- MODULE FollowProofs ----------------------------
(***************************************************************************)
(* Proofs about Follow: for any accounts and any operations, the counts    *)
(* are never above the follows they stand for, and they match them once    *)
(* the initial sync has run to its end, as long as no operation sets both  *)
(* bits.                                                                   *)
(***************************************************************************)
EXTENDS Follow, FiniteSetTheorems, TLAPS

(* By how much the set of followers grows when a state changes. *)
Growth(old, new) ==
    IF new \in {1, 3} /\ old \notin {1, 3} THEN 1
    ELSE IF old \in {1, 3} /\ new \notin {1, 3} THEN -1
    ELSE 0

(* The counts c move by n for a follow of account a on account b: to d, or to
   the sizes of the sets of g from those of f. *)
CountsMove(c, d, a, b, n) ==
    \A x \in Account :
        /\ d.followers[x] = c.followers[x] + (IF x = b THEN n ELSE 0)
        /\ d.following[x] = c.following[x] + (IF x = a THEN n ELSE 0)

SizesMove(f, g, a, b, n) ==
    \A x \in Account :
        /\ Cardinality(Followers(g, x)) = Cardinality(Followers(f, x)) + (IF x = b THEN n ELSE 0)
        /\ Cardinality(Following(g, x)) = Cardinality(Following(f, x)) + (IF x = a THEN n ELSE 0)

(* The counts in memory: those of the tables and their deltas. *)
Current == Sum(counts, delta)

(* Before the counts are computed, they are zero; a process that starts has
   none but committed data. *)
LifeInv ==
    /\ ~feed => counts = Zero /\ delta = Zero /\ saved.counts = Zero
    /\ pc \in {"rebuilt", "counted"} => follows = saved.follows
    /\ pc \in {"down", "initial", "rebuilt", "counted"} => delta = Zero
    /\ pc \in {"down", "counted"} => counts = saved.counts /\ follows = saved.follows

(* The counts c of the follows f, never too high. *)
Low(c, f) ==
    \A a \in Account :
        /\ c.followers[a] <= Cardinality(Followers(f, a))
        /\ c.following[a] <= Cardinality(Following(f, a))

LowInv == TypeOK /\ LifeInv /\ Low(Current, follows) /\ Low(saved.counts, saved.follows)

(* Once the counts are computed, those in memory match the follows, and the
   committed ones match the committed follows. A process that crashed on the
   way to the indexes never gets there. *)
Computed == pc = "counted" \/ indexed

MatchInv ==
    /\ TypeOK /\ LifeInv
    /\ follows \in [Pair -> 0..2] /\ saved.follows \in [Pair -> 0..2]
    /\ indexed => feed /\ pc \in {"down", "live"}
    /\ Computed => Current = Recounted(follows) /\ saved.counts = Recounted(saved.follows)

-----------------------------------------------------------------------------
(* The sets of followers are finite, and their sizes natural numbers. *)
LEMMA FiniteFollows ==
    ASSUME NEW f, NEW a \in Account
    PROVE  /\ IsFiniteSet(Followers(f, a)) /\ Cardinality(Followers(f, a)) \in Nat
           /\ IsFiniteSet(Following(f, a)) /\ Cardinality(Following(f, a)) \in Nat
<1>1. Followers(f, a) \in SUBSET Account /\ Following(f, a) \in SUBSET Account
  BY DEF Followers, Following
<1>2. IsFiniteSet(Followers(f, a)) /\ IsFiniteSet(Following(f, a))
  BY <1>1, FollowAssumption, FS_Subset
<1> QED BY <1>2, FS_CardinalityType

(* A set that gains or loses one element. *)
LEMMA OneElement ==
    ASSUME NEW S, NEW T, NEW x, IsFiniteSet(S), \A y : y # x => (y \in S <=> y \in T)
    PROVE  Cardinality(T) = Cardinality(S)
                + (IF x \in T /\ x \notin S THEN 1 ELSE IF x \in S /\ x \notin T THEN -1 ELSE 0)
<1>0. Cardinality(S) \in Nat
  BY FS_CardinalityType
<1>1. CASE x \in T /\ x \notin S
  <2>1. T = S \cup {x}
    BY <1>1
  <2>2. Cardinality(T) = Cardinality(S) + 1
    BY <1>1, <2>1, FS_AddElement
  <2> QED BY <1>1, <2>2
<1>2. CASE x \in S /\ x \notin T
  <2>1. T = S \ {x}
    BY <1>2
  <2>2. Cardinality(T) = Cardinality(S) - 1
    BY <1>2, <2>1, FS_RemoveElement
  <2> QED BY <1>0, <1>2, <2>2
<1>3. CASE x \in S <=> x \in T
  <2>1. T = S
    BY <1>3
  <2> QED BY <1>0, <1>3, <2>1
<1> QED BY <1>1, <1>2, <1>3

(* One operation moves the size of one set of followers, and of one set of
   followed accounts, by its growth. *)
LEMMA OneFollow ==
    ASSUME NEW f \in [Pair -> 0..3], NEW g, NEW a \in Account, NEW b \in Account, NEW new \in 0..3,
           NEW old, NEW n, old = f[<<a, b>>], n = Growth(old, new),
           g = [f EXCEPT ![<<a, b>>] = new]
    PROVE  SizesMove(f, g, a, b, n)
<1>1. /\ g \in [Pair -> 0..3] /\ <<a, b>> \in Pair /\ g[<<a, b>>] = new
      /\ \A p \in Pair : p # <<a, b>> => g[p] = f[p]
  BY DEF Pair
<1>2. n \in Int
  BY DEF Growth
<1>3. ASSUME NEW c \in Account
      PROVE  Cardinality(Followers(g, c)) = Cardinality(Followers(f, c)) + (IF c = b THEN n ELSE 0)
  <2>1. CASE c = b
    <3>1. \A y : y # a => (y \in Followers(f, b) <=> y \in Followers(g, b))
      BY <1>1 DEF Followers, Pair
    <3>2. (a \in Followers(f, b) <=> old \in {1, 3}) /\ (a \in Followers(g, b) <=> new \in {1, 3})
      BY <1>1 DEF Followers
    <3>3. IsFiniteSet(Followers(f, b))
      BY FiniteFollows
    <3>4. Cardinality(Followers(g, b)) = Cardinality(Followers(f, b))
            + (IF a \in Followers(g, b) /\ a \notin Followers(f, b) THEN 1
               ELSE IF a \in Followers(f, b) /\ a \notin Followers(g, b) THEN -1 ELSE 0)
      BY <3>1, <3>3, OneElement
    <3> QED BY <2>1, <3>2, <3>4 DEF Growth
  <2>2. CASE c # b
    <3>1. Followers(g, c) = Followers(f, c)
      BY <1>1, <2>2 DEF Followers, Pair
    <3> QED BY <2>2, <3>1, FiniteFollows
  <2> QED BY <2>1, <2>2
<1>4. ASSUME NEW c \in Account
      PROVE  Cardinality(Following(g, c)) = Cardinality(Following(f, c)) + (IF c = a THEN n ELSE 0)
  <2>1. CASE c = a
    <3>1. \A y : y # b => (y \in Following(f, a) <=> y \in Following(g, a))
      BY <1>1 DEF Following, Pair
    <3>2. (b \in Following(f, a) <=> old \in {1, 3}) /\ (b \in Following(g, a) <=> new \in {1, 3})
      BY <1>1 DEF Following
    <3>3. IsFiniteSet(Following(f, a))
      BY FiniteFollows
    <3>4. Cardinality(Following(g, a)) = Cardinality(Following(f, a))
            + (IF b \in Following(g, a) /\ b \notin Following(f, a) THEN 1
               ELSE IF b \in Following(f, a) /\ b \notin Following(g, a) THEN -1 ELSE 0)
      BY <3>1, <3>3, OneElement
    <3> QED BY <2>1, <3>2, <3>4 DEF Growth
  <2>2. CASE c # a
    <3>1. Following(g, c) = Following(f, c)
      BY <1>1, <2>2 DEF Following, Pair
    <3> QED BY <2>2, <3>1, FiniteFollows
  <2> QED BY <2>1, <2>2
<1> QED BY <1>3, <1>4 DEF SizesMove

(* follow_op counts no more than the growth of the sets, and exactly the growth
   if neither state has both bits. *)
LEMMA ChangeIsGrowth ==
    ASSUME NEW old \in 0..3, NEW new \in 0..3, old # new
    PROVE  /\ Change(old, new) \in Int /\ Growth(old, new) \in Int
           /\ Change(old, new) <= Growth(old, new)
           /\ old # 3 /\ new # 3 => Change(old, new) = Growth(old, new)
BY DEF Change, Growth

(* Counts of the right type, and what can be done with them. *)
LEMMA CountTypes ==
    /\ Zero \in Counts
    /\ \A c \in Counts : Sum(c, Zero) = c
    /\ \A c, d \in Counts : Sum(c, d) \in Counts
    /\ \A f : Recounted(f) \in Counts
<1>1. Zero \in Counts
  BY DEF Zero, None, Counts
<1>2. ASSUME NEW c \in Counts PROVE Sum(c, Zero) = c
  BY DEF Sum, Zero, None, Counts
<1>3. ASSUME NEW c \in Counts, NEW d \in Counts PROVE Sum(c, d) \in Counts
  BY DEF Sum, Counts
<1>4. ASSUME NEW f PROVE Recounted(f) \in Counts
  BY FiniteFollows DEF Recounted, Counts
<1> QED BY <1>1, <1>2, <1>3, <1>4

(* A delta moves the sum of counts and deltas at one account each. *)
LEMMA MovedSum ==
    ASSUME NEW c \in Counts, NEW d \in Counts, NEW a \in Account, NEW b \in Account, NEW n \in Int
    PROVE  /\ Moved(d, a, b, n) \in Counts
           /\ CountsMove(Sum(c, d), Sum(c, Moved(d, a, b, n)), a, b, n)
BY DEF Moved, Sum, Counts, CountsMove

-----------------------------------------------------------------------------
(* What the steps of the process keep, whatever the operations. *)
LEMMA LifeStep ==
    ASSUME TypeOK, LifeInv, [Next]_vars
    PROVE  TypeOK' /\ LifeInv'
<1> USE DEF TypeOK, LifeInv, Phases
<1>1. CASE UNCHANGED vars
  BY <1>1 DEF vars
<1>2. CASE FollowOp
  <2>1. PICK a, b \in Account, new \in States :
          /\ new # follows[<<a, b>>]
          /\ follows' = [follows EXCEPT ![<<a, b>>] = new]
          /\ delta' = IF pc = "initial" THEN delta
                      ELSE Moved(delta, a, b, Change(follows[<<a, b>>], new))
    BY <1>2 DEF FollowOp
  <2>2. new \in 0..3 /\ follows[<<a, b>>] \in 0..3
    BY FollowAssumption DEF Pair
  <2>3. follows' \in [Pair -> 0..3]
    BY <2>1, <2>2
  <2>4. Change(follows[<<a, b>>], new) \in Int
    BY <2>1, <2>2, ChangeIsGrowth
  <2>5. Moved(delta, a, b, Change(follows[<<a, b>>], new)) \in Counts
    BY <2>4, MovedSum
  <2>6. delta' \in Counts
    BY <2>1, <2>5
  <2> QED BY <1>2, <2>1, <2>3, <2>6 DEF FollowOp
<1>3. CASE Commit
  <2>1. counts' \in Counts /\ delta' = Zero /\ saved' = [follows |-> follows, counts |-> counts']
    BY <1>3, CountTypes DEF Commit, Flush
  <2>2. pc = "initial" => counts' = counts
    BY <1>3, CountTypes DEF Commit, Flush
  <2> QED BY <1>3, <2>1, <2>2, CountTypes DEF Commit
<1>4. CASE Rebuild
  BY <1>4 DEF Rebuild
<1>5. CASE Recount
  <2>1. counts' \in Counts /\ saved' = [saved EXCEPT !.counts = counts']
    BY <1>5, CountTypes DEF Recount
  <2>2. saved'.counts = counts' /\ saved'.follows = saved.follows
    BY <2>1
  <2> QED BY <1>5, <2>1, <2>2 DEF Recount
<1>6. CASE Finish
  BY <1>6 DEF Finish
<1>7. CASE Start
  BY <1>7 DEF Start
<1>8. CASE Crash
  BY <1>8, CountTypes DEF Crash
<1> QED BY <1>1, <1>2, <1>3, <1>4, <1>5, <1>6, <1>7, <1>8 DEF Next

(* The type invariant and the life of the counts hold initially. *)
LEMMA LifeInit == Init => TypeOK /\ LifeInv
<1> SUFFICES ASSUME Init PROVE TypeOK /\ LifeInv
  OBVIOUS
<1>1. [p \in Pair |-> 0] \in [Pair -> 0..3]
  OBVIOUS
<1>2. counts \in Counts /\ delta \in Counts /\ follows \in [Pair -> 0..3]
  BY <1>1, CountTypes DEF Init
<1>3. saved \in [follows : [Pair -> 0..3], counts : Counts]
  BY <1>1, CountTypes DEF Init
<1> QED BY <1>2, <1>3 DEF Init, TypeOK, LifeInv, Phases

(* An operation of a live process, in terms of sizes. *)
LEMMA LiveFollow ==
    ASSUME TypeOK, LifeInv, FollowOp, pc = "live"
    PROVE  \E a, b \in Account : \E old \in 0..3, new \in States :
            /\ old \in {follows[p] : p \in Pair} /\ new # old
            /\ SizesMove(follows, follows', a, b, Growth(old, new))
            /\ CountsMove(Current, Current', a, b, Change(old, new))
<1>1. PICK a, b \in Account, new \in States :
        /\ new # follows[<<a, b>>]
        /\ follows' = [follows EXCEPT ![<<a, b>>] = new]
        /\ delta' = Moved(delta, a, b, Change(follows[<<a, b>>], new))
        /\ counts' = counts
  BY DEF FollowOp
<1> DEFINE old == follows[<<a, b>>]
<1>2. <<a, b>> \in Pair /\ old \in 0..3 /\ new \in 0..3 /\ follows \in [Pair -> 0..3]
      /\ counts \in Counts /\ delta \in Counts
  BY FollowAssumption DEF TypeOK, Pair
<1>3. Change(old, new) \in Int
  BY <1>1, <1>2, ChangeIsGrowth
<1>4. SizesMove(follows, follows', a, b, Growth(old, new))
  <2> DEFINE g == follows'
             n == Growth(old, new)
  <2>1. g = [follows EXCEPT ![<<a, b>>] = new] /\ old = follows[<<a, b>>] /\ n = Growth(old, new)
    BY <1>1
  <2>2. follows \in [Pair -> 0..3] /\ new \in 0..3
    BY <1>2
  <2> HIDE DEF g, old, n
  <2>3. SizesMove(follows, g, a, b, n)
    BY <2>1, <2>2, OneFollow
  <2> QED BY <2>3 DEF g, n
<1>5. CountsMove(Current, Current', a, b, Change(old, new))
  <2>1. Current' = Sum(counts, Moved(delta, a, b, Change(old, new)))
    BY <1>1 DEF Current, Sum
  <2>2. CountsMove(Sum(counts, delta), Sum(counts, Moved(delta, a, b, Change(old, new))), a, b, Change(old, new))
    BY <1>2, <1>3, MovedSum
  <2> QED BY <2>1, <2>2 DEF Current
<1>6. old \in {follows[p] : p \in Pair} /\ old \in 0..3 /\ new # old
  BY <1>1, <1>2
<1> HIDE DEF old
<1> USE <1>6
<1> WITNESS a \in Account, b \in Account
<1> WITNESS old \in 0..3, new \in States
<1> QED BY <1>4, <1>5

(* Zero is never too high. *)
LEMMA ZeroIsLow == \A f : Low(Zero, f)
BY FiniteFollows DEF Low, Zero, None

(* A recount is never too high. *)
LEMMA RecountedIsLow == \A f : Low(Recounted(f), f)
BY FiniteFollows DEF Low, Recounted

(* Every step leaves the counts at or below the follows. *)
LEMMA LowStep ==
    ASSUME LowInv, [Next]_vars
    PROVE  LowInv'
<1>1. TypeOK /\ LifeInv /\ TypeOK' /\ LifeInv' /\ Low(Current, follows) /\ Low(saved.counts, saved.follows)
  BY LifeStep DEF LowInv
<1>2. CASE UNCHANGED <<follows, counts, delta, saved>>
  <2>1. Current' = Current
    BY <1>2 DEF Current
  <2> QED BY <1>1, <1>2, <2>1 DEF LowInv
<1>3. CASE FollowOp /\ pc = "initial"
  <2>1. delta' = delta /\ counts' = counts /\ saved' = saved /\ ~feed
    BY <1>1, <1>3 DEF FollowOp, TypeOK
  <2>2. Current' = Zero
    BY <1>1, <2>1, CountTypes DEF LifeInv, Current
  <2> QED BY <1>1, <2>1, <2>2, ZeroIsLow DEF LowInv
<1>4. CASE FollowOp /\ pc = "live"
  <2>1. PICK a, b \in Account : \E old \in 0..3, new \in States :
          /\ new # old
          /\ SizesMove(follows, follows', a, b, Growth(old, new))
          /\ CountsMove(Current, Current', a, b, Change(old, new))
    BY <1>1, <1>4, LiveFollow
  <2>2. PICK old \in 0..3, new \in 0..3 :
          /\ new # old
          /\ SizesMove(follows, follows', a, b, Growth(old, new))
          /\ CountsMove(Current, Current', a, b, Change(old, new))
    BY <2>1, FollowAssumption
  <2>3. Change(old, new) <= Growth(old, new) /\ Change(old, new) \in Int /\ Growth(old, new) \in Int
    BY <2>2, ChangeIsGrowth
  <2>4. \A x \in Account : Current.followers[x] \in Int /\ Current.following[x] \in Int
    BY <1>1 DEF Current, Sum, TypeOK, Counts
  <2>5. Low(Current', follows')
    BY <1>1, <2>2, <2>3, <2>4, FiniteFollows DEF Low, SizesMove, CountsMove
  <2>6. saved' = saved
    BY <1>4 DEF FollowOp
  <2> QED BY <1>1, <2>5, <2>6 DEF LowInv
<1>5. CASE Commit
  <2>1. counts' = Current /\ delta' = Zero /\ follows' = follows
        /\ saved' = [follows |-> follows, counts |-> counts']
    BY <1>5 DEF Commit, Flush, Current
  <2>2. counts' \in Counts
    BY <1>1 DEF TypeOK
  <2>3. Current' = Current
    BY <2>1, <2>2, CountTypes DEF Current
  <2> QED BY <1>1, <2>1, <2>3 DEF LowInv
<1>6. CASE Recount
  <2>1. counts' = Recounted(follows) /\ follows' = follows /\ delta' = Zero
        /\ saved'.counts = counts' /\ saved'.follows = follows
    BY <1>1, <1>6 DEF Recount, LifeInv, TypeOK
  <2>2. Current' = counts'
    BY <2>1, CountTypes DEF Current
  <2> QED BY <1>1, <2>1, <2>2, RecountedIsLow DEF LowInv
<1>7. CASE Crash
  <2>1. counts' = saved.counts /\ follows' = saved.follows /\ delta' = Zero /\ saved' = saved
    BY <1>7 DEF Crash
  <2>2. Current' = saved.counts
    BY <1>1, <2>1, CountTypes DEF Current, TypeOK
  <2> QED BY <1>1, <2>1, <2>2 DEF LowInv
<1>8. CASE Rebuild \/ Finish \/ Start \/ UNCHANGED vars
  BY <1>2, <1>8 DEF Rebuild, Finish, Start, vars
<1>9. FollowOp => pc = "initial" \/ pc = "live"
  BY DEF FollowOp
<1> QED BY <1>3, <1>4, <1>5, <1>6, <1>7, <1>8, <1>9 DEF Next

(* Every variable keeps its type, and the phases keep step with the feed cache
   that tells a restart whether the initial sync is done. *)
THEOREM TypeCorrect == Spec => []TypeOK
<1>1. TypeOK /\ LifeInv /\ [Next]_vars => TypeOK' /\ LifeInv'
  BY LifeStep
<1> QED BY LifeInit, <1>1, PTL DEF Spec

(* A count is never above the follows it stands for, with any operations and
   crashes anywhere. *)
THEOREM CountsNeverHighAlways == Spec => []CountsNeverHigh
<1>1. Init => LowInv
  <2> SUFFICES ASSUME Init PROVE LowInv
    OBVIOUS
  <2>1. counts = Zero /\ delta = Zero /\ saved.counts = Zero
    BY DEF Init
  <2>2. Current = Zero
    BY <2>1, CountTypes DEF Current
  <2> QED BY <2>1, <2>2, LifeInit, ZeroIsLow DEF LowInv
<1>2. LowInv /\ [Next]_vars => LowInv'
  BY LowStep
<1>3. LowInv => CountsNeverHigh
  BY DEF LowInv, Low, CountsNeverHigh
<1> QED BY <1>1, <1>2, <1>3, PTL DEF Spec

-----------------------------------------------------------------------------
(* Counts are equal if they are for each account. *)
LEMMA SameCounts ==
    ASSUME NEW c \in Counts, NEW d \in Counts,
           \A x \in Account : c.followers[x] = d.followers[x] /\ c.following[x] = d.following[x]
    PROVE  c = d
<1>1. c.followers = d.followers /\ c.following = d.following
  BY DEF Counts
<1> QED BY <1>1 DEF Counts

(* If no state has both bits, an operation keeps the counts in memory exact. *)
LEMMA LiveMatch ==
    ASSUME TypeOK, LifeInv, FollowOp, pc = "live", TypeOK',
           follows \in [Pair -> 0..2], States \subseteq 0..2, Current = Recounted(follows)
    PROVE  Current' = Recounted(follows')
<1>1. PICK a, b \in Account : \E old \in 0..3, new \in States :
        /\ old \in {follows[p] : p \in Pair} /\ new # old
        /\ SizesMove(follows, follows', a, b, Growth(old, new))
        /\ CountsMove(Current, Current', a, b, Change(old, new))
  BY LiveFollow
<1>2. PICK old \in 0..2, new \in 0..2 :
        /\ new # old
        /\ SizesMove(follows, follows', a, b, Growth(old, new))
        /\ CountsMove(Current, Current', a, b, Change(old, new))
  BY <1>1
<1>3. Change(old, new) = Growth(old, new) /\ Growth(old, new) \in Int
  BY <1>2, ChangeIsGrowth
<1>4. Current' \in Counts /\ Recounted(follows') \in Counts
  BY CountTypes DEF Current, TypeOK
<1>5. \A x \in Account :
        /\ Current'.followers[x] = Recounted(follows').followers[x]
        /\ Current'.following[x] = Recounted(follows').following[x]
  BY <1>2, <1>3, FiniteFollows DEF SizesMove, CountsMove, Recounted
<1> QED BY <1>4, <1>5, SameCounts

(* Every step keeps the counts exact, if no state has both bits. *)
LEMMA MatchStep ==
    ASSUME MatchInv, [Next]_vars, States \subseteq 0..2
    PROVE  MatchInv'
<1>1. TypeOK /\ LifeInv /\ TypeOK' /\ LifeInv'
  BY LifeStep DEF MatchInv
<1>2. CASE UNCHANGED vars
  BY <1>1, <1>2 DEF MatchInv, vars, Current, Computed
<1>3. CASE FollowOp
  <2>1. follows' \in [Pair -> 0..2]
    BY <1>3 DEF MatchInv, FollowOp
  <2>2. saved' = saved /\ feed' = feed /\ pc' = pc /\ indexed' = indexed
    BY <1>3 DEF FollowOp
  <2>3. pc = "initial" \/ pc = "live"
    BY <1>3 DEF FollowOp
  <2>4. Computed => Current' = Recounted(follows')
    BY <1>1, <1>3, <2>3, LiveMatch DEF MatchInv, Computed
  <2> QED BY <1>1, <2>1, <2>2, <2>3, <2>4 DEF MatchInv, Computed
<1>4. CASE Commit
  <2>1. /\ counts' = Current /\ delta' = Zero /\ follows' = follows /\ feed' = feed /\ pc' = pc
        /\ indexed' = indexed /\ saved'.follows = follows /\ saved'.counts = counts'
    BY <1>4 DEF Commit, Flush, Current
  <2>2. counts' \in Counts
    BY <1>1 DEF TypeOK
  <2>3. Current' = Current
    BY <2>1, <2>2, CountTypes DEF Current
  <2> QED BY <1>1, <2>1, <2>3 DEF MatchInv, Computed
<1>5. CASE Recount
  <2>1. counts' = Recounted(follows) /\ follows' = follows /\ delta' = Zero /\ pc = "rebuilt"
        /\ indexed' = indexed /\ saved'.counts = counts' /\ saved'.follows = follows
    BY <1>1, <1>5 DEF Recount, LifeInv, TypeOK
  <2>2. Current' = counts'
    BY <2>1, CountTypes DEF Current
  <2> QED BY <1>1, <2>1, <2>2 DEF MatchInv
<1>6. CASE Crash
  <2>1. counts' = saved.counts /\ follows' = saved.follows /\ delta' = Zero /\ saved' = saved
        /\ feed' = feed /\ pc' = "down" /\ indexed' = indexed
    BY <1>6 DEF Crash
  <2>2. Current' = saved.counts
    BY <1>1, <2>1, CountTypes DEF Current, TypeOK
  <2> QED BY <1>1, <2>1, <2>2 DEF MatchInv, Computed
<1>7. CASE Start
  <2>1. /\ counts' = counts /\ follows' = follows /\ delta' = delta /\ saved' = saved
        /\ feed' = feed /\ indexed' = indexed
        /\ pc = "down" /\ pc' = IF feed THEN "live" ELSE "initial"
    BY <1>7 DEF Start
  <2>2. Current' = Current
    BY <2>1 DEF Current
  <2> QED BY <1>1, <2>1, <2>2 DEF MatchInv, Computed
<1>8. CASE Rebuild \/ Finish
  <2>1. Current' = Current /\ follows' = follows /\ saved' = saved
    BY <1>8 DEF Rebuild, Finish, Current
  <2>2. CASE Rebuild
    BY <1>1, <2>1, <2>2 DEF Rebuild, MatchInv, Computed
  <2>3. CASE Finish
    BY <1>1, <2>1, <2>3 DEF Finish, MatchInv, Computed, TypeOK
  <2> QED BY <1>8, <2>2, <2>3
<1> QED BY <1>2, <1>3, <1>4, <1>5, <1>6, <1>7, <1>8 DEF Next

(* Once the initial sync has run to its end, the committed counts are those of
   the committed follows, whatever crashes come, if no operation sets both
   bits. The run follow_both shows that the condition cannot be dropped. *)
THEOREM CountsMatchAlways ==
    ASSUME States \subseteq 0..2
    PROVE  Spec => []CountsMatch
<1>1. Init => MatchInv
  <2> SUFFICES ASSUME Init PROVE MatchInv
    OBVIOUS
  <2>1. follows \in [Pair -> 0..2] /\ saved.follows \in [Pair -> 0..2]
    BY DEF Init
  <2> QED BY <2>1, LifeInit DEF MatchInv, Init, Computed
<1>2. MatchInv /\ [Next]_vars => MatchInv'
  BY MatchStep
<1>3. MatchInv => CountsMatch
  BY DEF MatchInv, CountsMatch, Computed
<1> QED BY <1>1, <1>2, <1>3, PTL DEF Spec
=============================================================================
