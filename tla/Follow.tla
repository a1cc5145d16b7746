------------------------------- MODULE Follow -------------------------------
(***************************************************************************)
(* Follows (indexer/follow.py) and their counts. worth_follows holds the   *)
(* state of each pair of accounts; worth_accounts holds how many each      *)
(* account follows and is followed by. During the initial sync only the    *)
(* states are kept; at its end (Sync.initial, DbState) the feed cache is   *)
(* built, the counts are computed and the indexes are created. From then   *)
(* on the counts move by deltas that are gathered in memory and flushed    *)
(* with the block. A restart tells the two modes apart by the feed cache.  *)
(***************************************************************************)
EXTENDS Integers, FiniteSets

CONSTANTS
    Account,
    States,     \* the states that follow operations set in a run
    MaxOps,     \* bound on the follow operations of a behaviour
    MaxCrashes  \* bound on the crashes of a behaviour

ASSUME FollowAssumption ==
    /\ IsFiniteSet(Account)
    /\ States \subseteq 0..3
    /\ MaxOps \in Nat /\ MaxCrashes \in Nat

VARIABLES
    follows,    \* worth_follows: the state of <<follower, following>>; no row is 0
    counts,     \* worth_accounts.followers and .following
    delta,      \* Follow._delta
    feed,       \* worth_feed_cache has rows: the initial sync counts as done
    indexed,    \* the indexes dropped for the initial sync are back
    saved,      \* follows and counts as of the last commit
    pc,
    ops,
    crashes

vars == <<follows, counts, delta, feed, indexed, saved, pc, ops, crashes>>

(* 1: follows, 2: ignores, 3: both (the bits of `what`). *)
Pair   == Account \X Account
Counts == [followers : [Account -> Int], following : [Account -> Int]]
None   == [a \in Account |-> 0]
Zero   == [followers |-> None, following |-> None]
Phases == {"down", "initial", "rebuilt", "counted", "live"}

TypeOK ==
    /\ follows \in [Pair -> 0..3]
    /\ counts \in Counts /\ delta \in Counts
    /\ feed \in BOOLEAN /\ indexed \in BOOLEAN
    /\ saved \in [follows : [Pair -> 0..3], counts : Counts]
    /\ pc \in Phases
    /\ pc = "initial" => ~feed
    /\ pc \in {"rebuilt", "counted", "live"} => feed
    /\ ops \in Nat /\ crashes \in Nat

-----------------------------------------------------------------------------
(* What the counts stand for: `state IN (1,3)`. *)
Following(f, a) == {b \in Account : f[<<a, b>>] \in {1, 3}}
Followers(f, b) == {a \in Account : f[<<a, b>>] \in {1, 3}}

Recounted(f) ==
    [followers |-> [b \in Account |-> Cardinality(Followers(f, b))],
     following |-> [a \in Account |-> Cardinality(Following(f, a))]]

(* Mutant: no check of the old state on the way down. *)
ChangeUnchecked(old, new) == IF new = 1 THEN 1 ELSE -1

(* follow_op: by how much the counts of the pair move. *)
Change(old, new) ==
    IF {old, new} \in {{0, 2}, {1, 3}} THEN 0
    ELSE IF new = 1 THEN 1
    ELSE IF old \in {1, 3} THEN -1
    ELSE 0

Moved(d, a, b, n) ==
    [followers |-> [d.followers EXCEPT ![b] = @ + n],
     following |-> [d.following EXCEPT ![a] = @ + n]]

(* Follow.follow_op of account a on account b. *)
FollowOp ==
    /\ pc \in {"initial", "live"}
    /\ ops < MaxOps
    /\ ops' = ops + 1
    /\ \E a, b \in Account, new \in States :
        /\ a # b
        /\ new # follows[<<a, b>>]
        /\ follows' = [follows EXCEPT ![<<a, b>>] = new]
        /\ delta' = IF pc = "initial" THEN delta
                    ELSE Moved(delta, a, b, Change(follows[<<a, b>>], new))
    /\ UNCHANGED <<counts, feed, indexed, saved, pc, crashes>>

Sum(c, d) ==
    [followers |-> [a \in Account |-> c.followers[a] + d.followers[a]],
     following |-> [a \in Account |-> c.following[a] + d.following[a]]]

(* Mutant: the deltas are not reset. *)
FlushTwice ==
    /\ counts' = Sum(counts, delta)
    /\ UNCHANGED delta

(* Follow.flush *)
Flush ==
    /\ counts' = Sum(counts, delta)
    /\ delta' = Zero

(* The end of a block or of a chunk: the deltas are flushed in the
   transaction of the block. *)
Commit ==
    /\ pc \in {"initial", "live"}
    /\ Flush
    /\ saved' = [follows |-> follows, counts |-> counts']
    /\ UNCHANGED <<follows, feed, indexed, pc, ops, crashes>>

-----------------------------------------------------------------------------
(* The end of the initial sync. *)

(* FeedCache.rebuild: the cache has rows from here on, given that the chain has
   a post. *)
Rebuild ==
    /\ pc = "initial"
    /\ follows = saved.follows
    /\ feed' = TRUE
    /\ pc' = "rebuilt"
    /\ UNCHANGED <<follows, counts, delta, indexed, saved, ops, crashes>>

(* Follow.force_recount *)
Recount ==
    /\ pc = "rebuilt"
    /\ counts' = Recounted(follows)
    /\ saved' = [saved EXCEPT !.counts = counts']
    /\ pc' = "counted"
    /\ UNCHANGED <<follows, delta, feed, indexed, ops, crashes>>

(* DbState.finish_initial_sync *)
Finish ==
    /\ pc = "counted"
    /\ indexed' = TRUE
    /\ pc' = "live"
    /\ UNCHANGED <<follows, counts, delta, feed, saved, ops, crashes>>

-----------------------------------------------------------------------------
(* Mutant: the initial sync is always resumed. *)
StartInitial ==
    /\ pc = "down"
    /\ pc' = "initial"
    /\ UNCHANGED <<follows, counts, delta, feed, indexed, saved, ops, crashes>>

(* DbState.initialize: the initial sync is on while the feed cache is empty. *)
Start ==
    /\ pc = "down"
    /\ pc' = IF feed THEN "live" ELSE "initial"
    /\ UNCHANGED <<follows, counts, delta, feed, indexed, saved, ops, crashes>>

Crash ==
    /\ pc # "down"
    /\ crashes < MaxCrashes
    /\ crashes' = crashes + 1
    /\ pc' = "down"
    /\ follows' = saved.follows
    /\ counts' = saved.counts
    /\ delta' = Zero
    /\ UNCHANGED <<feed, indexed, saved, ops>>

Init ==
    /\ follows = [p \in Pair |-> 0]
    /\ counts = Zero
    /\ delta = Zero
    /\ feed = FALSE
    /\ indexed = FALSE
    /\ saved = [follows |-> [p \in Pair |-> 0], counts |-> Zero]
    /\ pc = "down"
    /\ ops = 0
    /\ crashes = 0

Next == FollowOp \/ Commit \/ Rebuild \/ Recount \/ Finish \/ Start \/ Crash

Spec == Init /\ [][Next]_vars

-----------------------------------------------------------------------------
(* Properties. *)

(* Once the initial sync has run to its end, the committed counts are those of
   the committed follows, whatever crashes come: the deltas of a block are
   committed with its follows. *)
CountsMatch == indexed => saved.counts = Recounted(saved.follows)

(* A count is never above the follows it stands for, whatever operations come
   and wherever the process crashes: it can only lag behind. *)
CountsNeverHigh ==
    \A a \in Account :
        /\ saved.counts.followers[a] <= Cardinality(Followers(saved.follows, a))
        /\ saved.counts.following[a] <= Cardinality(Following(saved.follows, a))

(* "Routine which runs *once* after initial sync. Re-creates non-core indexes"
   (_after_initial_sync). *)
LiveIsIndexed == pc = "live" => indexed
=============================================================================
