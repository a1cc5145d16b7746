------------------------------ MODULE PostCache ------------------------------
(***************************************************************************)
(* The post indexer: Posts (indexer/posts.py) keeps one row per url in     *)
(* worth_posts, CachedPost (indexer/cached_post.py) keeps the cache table  *)
(* worth_posts_cache in step with it through an in-memory queue of dirty   *)
(* urls, and Sync (indexer/sync.py) drives both: fast sync commits blocks  *)
(* and flushes the queue afterwards, live sync does both in one            *)
(* transaction per block. A crash rolls the open transaction back and      *)
(* empties the memory; a restart recovers from the two tables.             *)
(***************************************************************************)
EXTENDS PostChain

CONSTANTS
    MaxCrashes, \* bound on the crashes of a behaviour
    MaxGap,     \* blocks behind the head at which live sync gives up
    Lagging     \* urls for which a lagging node may answer "blank"

ASSUME CacheAssumption ==
    MaxCrashes \in Nat /\ MaxGap \in Nat \ {0} /\ Lagging \subseteq Url

VARIABLES
    posts,      \* worth_posts
    nextId,     \* the next worth_posts.id
    cache,      \* worth_posts_cache, a function from the urls that have a row
    saved,      \* the tables at the last commit
    at,         \* operations of feed processed in the open transaction
    queue,      \* CachedPost._queue; CLEAN when the url is not queued
    ids,        \* urls in CachedPost._ids
    noids,      \* CachedPost._noids
    pend,       \* CachedPost._pending_promoted; 0 when there is no entry
    lastId,     \* CachedPost._last_id
    pc,         \* where Sync.run is
    fault,      \* the exception that ended the process, "none" otherwise
    crashes

dbVars  == <<posts, nextId, cache, saved, at>>
memVars == <<queue, ids, noids, pend, lastId>>
vars    == <<chainVars, dbVars, memVars, pc, fault, crashes>>

INSERT  == 0
PAYOUT  == 1
UPDATE  == 2
UPVOTE  == 3
RECOUNT == 4
CLEAN   == 5
Levels  == INSERT..RECOUNT

NoPost == [id |-> 0, deleted |-> FALSE, promoted |-> 0, parent |-> NoParent]
Post   == [id : Nat, deleted : BOOLEAN, promoted : Nat, parent : Url \cup {NoParent}]

(* ver: the version of the content written last; stub: the dummy row of an
   undelete, dated 1990; kids: the replies `children` counts. *)
Row == [ver : Nat, paid : BOOLEAN, stub : BOOLEAN, promoted : Nat, kids : SUBSET Url]

StubRow == [ver |-> 0, paid |-> FALSE, stub |-> TRUE, promoted |-> 0, kids |-> {}]

CacheTable(c) == DOMAIN c \subseteq Url /\ c \in [DOMAIN c -> Row]

Phases == {"down", "recover", "ready", "fast", "flush", "sweep", "live"}

TypeOK ==
    /\ ChainTypeOK
    /\ posts \in [Url -> Post]
    /\ nextId \in Nat \ {0}
    /\ CacheTable(cache)
    /\ saved = [posts |-> saved.posts, cache |-> saved.cache, nextId |-> saved.nextId]
    /\ saved.nextId \in Nat \ {0}
    /\ saved.posts \in [Url -> Post]
    /\ CacheTable(saved.cache)
    /\ at \in 0..Len(feed)
    /\ queue \in [Url -> Levels \cup {CLEAN}]
    /\ ids \subseteq Url
    /\ noids \subseteq Url
    /\ pend \in [Url -> Nat]
    /\ lastId \in Nat \cup {-1}
    /\ pc \in Phases
    /\ fault \in {"none", "missing id", "not in map", "cache gap", "new pid",
                  "duplicate key"}
    /\ crashes \in Nat

-----------------------------------------------------------------------------
(* Helpers of CachedPost. *)

Exists(u) == posts[u].id # 0
Live(u)   == Exists(u) /\ ~posts[u].deleted

(* Mutant: a mark replaces the level it finds. *)
DirtyReplaces(q, u, level) == [q EXCEPT ![u] = level]

(* Mutant: a mark leaves a queued url as it is. *)
DirtyKeeps(q, u, level) == [q EXCEPT ![u] = IF @ = CLEAN THEN level ELSE @]

(* _dirty: queue the url, or raise the priority it has. *)
Dirty(q, u, level) == [q EXCEPT ![u] = IF level < @ THEN level ELSE @]

Queued(q) == {u \in Url : q[u] # CLEAN}

(* Mutant: the scan includes the last cached post. *)
MissingFromLast(last) == {u \in Url : Live(u) /\ posts[u].id >= last}

(* recover_missing_posts / dirty_missing select the posts past last_id. *)
Missing(last) == {u \in Url : Live(u) /\ posts[u].id > last}

(* The limit of dirty_missing takes some first part of the missing posts,
   ordered by id. *)
MissingPrefix(last, S) ==
    /\ S \subseteq Missing(last)
    /\ Missing(last) # {} => S # {}
    /\ \A u \in S, v \in Missing(last) : posts[v].id < posts[u].id => v \in S

DirtyMissing(q, S) == [u \in Url |-> IF u \in S THEN INSERT ELSE q[u]]

(* The promoted amounts dirty_missing sets pending with the posts it marks. *)
MissingPromoted(amounts, S) ==
    [u \in Url |-> IF u \in S /\ posts[u].promoted > 0 THEN posts[u].promoted
                   ELSE amounts[u]]

(* Mutant: the sweep only looks for the rows of undeletes. *)
PaidOutStubs == {u \in DOMAIN cache : ~cache[u].paid /\ cache[u].stub}

(* _select_paidout_tuples: rows not paid out whose payout_at is not after the
   date of the last block processed. *)
PaidOut ==
    {u \in DOMAIN cache :
        /\ ~cache[u].paid
        /\ \/ cache[u].stub
           \/ /\ node[u].paid
              /\ \A i \in (at + 1)..Len(feed) :
                    feed[i] # [kind |-> "payout", url |-> u]}

(* Where the process flushes, and with what: dirty_paidouts precedes the flush
   before and in live sync, not those of recovery and fast sync. *)
AtBlockEnd == at < Len(feed) /\ feed[at + 1] = BlockMark

Flushing == pc \in {"recover", "flush", "sweep"} \/ (pc = "live" /\ AtBlockEnd)

FlushQueue ==
    IF pc \in {"sweep", "live"}
    THEN [u \in Url |-> IF u \in PaidOut /\ queue[u] > PAYOUT THEN PAYOUT ELSE queue[u]]
    ELSE queue

FlushIds == IF pc \in {"sweep", "live"} THEN ids \cup PaidOut ELSE ids

(* What get_content_batch finds; a lagging node answers blank for `lag`. *)
Found(q, lag) == {u \in Queued(q) \ lag : node[u].live}

(* _bump_last_id over a batch sorted by id: the largest id met, if it is past
   the cursor. *)
Largest(S) == {n \in S : \A m \in S : m <= n}

Bumped(q) == Largest({lastId} \cup {posts[u].id : u \in Queued(q)})

(* The exceptions of a flush: those of _load_noids and _get_tuples_for_level,
   then those of the loop over the batch, then the database's. *)
FlushFault(q, found) ==
    CASE \E u \in noids \ FlushIds : ~Exists(u) -> "missing id"
      [] \E u \in Queued(q) : u \notin FlushIds \cup noids -> "not in map"
      [] \E u \in found : q[u] # INSERT /\ posts[u].id > lastId -> "new pid"
      [] \E u \in Missing(lastId) \ Queued(q), v \in Queued(q) :
            posts[u].id < posts[v].id -> "cache gap"
      [] \E u \in found : q[u] = INSERT /\ u \in DOMAIN cache -> "duplicate key"
      [] OTHER -> "none"

(* A row after _sql at the given level; `old` is the row it had. *)
Written(u, level, old) ==
    [ver      |-> IF level <= UPDATE THEN node[u].ver ELSE old.ver,
     paid     |-> IF level <= UPDATE THEN node[u].paid ELSE old.paid,
     stub     |-> level > UPDATE /\ old.stub,
     promoted |-> IF pend[u] # 0 THEN pend[u] ELSE old.promoted,
     kids     |-> Replies(u)]

(* The cache once the posts of `done` are written: an insert adds a row, any
   other level updates the row if there is one. *)
FlushedCache(q, done) ==
    [u \in DOMAIN cache \cup {v \in done : q[v] = INSERT} |->
        IF u \notin done THEN cache[u]
        ELSE Written(u, q[u], IF u \in DOMAIN cache THEN cache[u] ELSE StubRow)]

(* Mutant: a recount does not ask whether the post is a reply. *)
RecountAnyParent(q, found) ==
    {node[u].parent : u \in {v \in found : q[v] = RECOUNT}}


(* The parents a recount passes on to, as the node names them. *)
RecountParents(q, found) ==
    {node[u].parent : u \in {v \in found : q[v] = RECOUNT}} \ {NoParent}

(* Mutant: a blank answer drops the post from the queue. *)
FlushedWithoutDefer(q, found) ==
    [u \in Url |-> IF u \in RecountParents(q, found) THEN RECOUNT ELSE CLEAN]

(* A blank answer for a post that is not deleted re-queues it (DEFER). *)
FlushedQueue(q, found) ==
    [u \in Url |->
        IF u \in Queued(q) \ found /\ ~posts[u].deleted THEN q[u]
        ELSE IF u \in RecountParents(q, found) THEN RECOUNT
        ELSE CLEAN]

FlushedIds(q, found) ==
    (FlushIds \cup noids) \ (Queued(q) \ Queued(FlushedQueue(q, found)))

(* What CachedPost.flush writes and moves, without an exception; the queue,
   the ids and the pending amounts follow. *)
FlushWrites(q, found) ==
    /\ FlushFault(q, found) = "none"
    /\ cache' = FlushedCache(q, found)
    /\ noids' = RecountParents(q, found)
    /\ lastId' \in Bumped(q)

Flush(found) ==
    /\ FlushWrites(FlushQueue, found)
    /\ queue' = FlushedQueue(FlushQueue, found)
    /\ ids' = FlushedIds(FlushQueue, found)
    /\ pend' = [u \in Url |-> IF u \in found THEN 0 ELSE pend[u]]

-----------------------------------------------------------------------------
(* Operation handlers, shared by fast and live sync. *)

Processing(kind, u) ==
    /\ pc \in {"fast", "live"}
    /\ at < Len(feed)
    /\ feed[at + 1].kind = kind
    /\ feed[at + 1].url = u
    /\ at' = at + 1
    /\ UNCHANGED <<chainVars, saved, pc, fault, crashes>>

(* Posts.insert: a new row, its cache insert, its parent's recount. *)
InsertPost(u) ==
    LET p == feed[at + 1].parent
        q == Dirty(queue, u, INSERT)
    IN /\ Processing("comment", u)
       /\ ~Exists(u)
       /\ posts' = [posts EXCEPT ![u] = [id |-> nextId, deleted |-> FALSE,
                                         promoted |-> 0, parent |-> p]]
       /\ nextId' = nextId + 1
       /\ queue' = IF p = NoParent THEN q ELSE Dirty(q, p, RECOUNT)
       /\ ids' = ids \cup ({u, p} \ {NoParent})
       /\ UNCHANGED <<cache, noids, pend, lastId>>

(* Posts.update: an edit only marks the cached copy. *)
UpdatePost(u) ==
    /\ Processing("comment", u)
    /\ Live(u)
    /\ queue' = Dirty(queue, u, UPDATE)
    /\ ids' = ids \cup {u}
    /\ UNCHANGED <<posts, nextId, cache, noids, pend, lastId>>

(* The UPDATE of Posts.undelete. *)
Reinstate(u) ==
    posts' = [posts EXCEPT ![u] = [id |-> @.id, deleted |-> FALSE, promoted |-> @.promoted,
                                   parent |-> feed[at + 1].parent]]

(* Posts.undelete past the cache: the row is queued like a new one. *)
UndeleteNew(u) ==
    /\ Processing("comment", u)
    /\ Exists(u) /\ posts[u].deleted
    /\ posts[u].id > lastId
    /\ Reinstate(u)
    /\ queue' = Dirty(queue, u, INSERT)
    /\ ids' = ids \cup {u}
    /\ UNCHANGED <<nextId, cache, noids, pend, lastId>>

(* Posts.undelete within the cache: a stub row at once, then an update. A row
   of the deleted post would make the INSERT fail: see DeletedNotCached. *)
UndeleteCached(u) ==
    /\ Processing("comment", u)
    /\ Exists(u) /\ posts[u].deleted
    /\ posts[u].id <= lastId
    /\ u \notin DOMAIN cache
    /\ Reinstate(u)
    /\ cache' = [v \in DOMAIN cache \cup {u} |-> IF v = u THEN StubRow ELSE cache[v]]
    /\ queue' = Dirty(queue, u, UPDATE)
    /\ ids' = ids \cup {u}
    /\ UNCHANGED <<nextId, noids, pend, lastId>>

(* Mutant: the queue entry of the deleted post stays. *)
DeleteKeepsQueue(u) ==
    LET p == posts[u].parent
    IN /\ Processing("delete", u)
       /\ posts' = [posts EXCEPT ![u].deleted = TRUE]
       /\ cache' = [v \in DOMAIN cache \ {u} |-> cache[v]]
       /\ queue' = IF p = NoParent THEN queue ELSE Dirty(queue, p, RECOUNT)
       /\ ids' = ids \cup ({p} \ {NoParent})
       /\ UNCHANGED <<nextId, noids, pend, lastId>>

(* Posts.delete: the flag, the cache row and queue entry, the parent. *)
DeletePost(u) ==
    LET p == posts[u].parent
        q == [queue EXCEPT ![u] = CLEAN]
    IN /\ Processing("delete", u)
       /\ posts' = [posts EXCEPT ![u].deleted = TRUE]
       /\ cache' = [v \in DOMAIN cache \ {u} |-> cache[v]]
       /\ queue' = IF p = NoParent THEN q ELSE Dirty(q, p, RECOUNT)
       /\ ids' = (IF queue[u] = CLEAN THEN ids ELSE ids \ {u}) \cup ({p} \ {NoParent})
       /\ UNCHANGED <<nextId, noids, pend, lastId>>

(* A vote marks the post without naming its id. *)
VotePost(u) ==
    /\ Processing("vote", u)
    /\ queue' = Dirty(queue, u, UPVOTE)
    /\ noids' = noids \cup {u}
    /\ UNCHANGED <<posts, nextId, cache, ids, pend, lastId>>

(* Mutant: the payment is passed on instead of the balance. *)
PayAmountOnly(u) ==
    /\ Processing("pay", u)
    /\ Exists(u)
    /\ posts' = [posts EXCEPT ![u].promoted = @ + 1]
    /\ pend' = [pend EXCEPT ![u] = 1]
    /\ queue' = Dirty(queue, u, UPVOTE)
    /\ ids' = ids \cup {u}
    /\ UNCHANGED <<nextId, cache, noids, lastId>>

(* Payments.op_transfer: a promotion of a known url, deleted or not. *)
PayPost(u) ==
    /\ Processing("pay", u)
    /\ Exists(u)
    /\ posts' = [posts EXCEPT ![u].promoted = @ + 1]
    /\ pend' = [pend EXCEPT ![u] = posts[u].promoted + 1]
    /\ queue' = Dirty(queue, u, UPVOTE)
    /\ ids' = ids \cup {u}
    /\ UNCHANGED <<nextId, cache, noids, lastId>>

PayUnknown(u) ==
    /\ Processing("pay", u)
    /\ ~Exists(u)
    /\ UNCHANGED <<posts, nextId, cache, memVars>>

(* Time passes the payout of the post: no operation, the sweep will see it. *)
PassPayout(u) ==
    /\ Processing("payout", u)
    /\ UNCHANGED <<posts, nextId, cache, memVars>>

ProcessOp ==
    \E u \in Url :
        \/ InsertPost(u) \/ UpdatePost(u) \/ UndeleteNew(u) \/ UndeleteCached(u)
        \/ DeletePost(u) \/ VotePost(u) \/ PayPost(u) \/ PayUnknown(u)
        \/ PassPayout(u)

-----------------------------------------------------------------------------
(* Sync.run and its phases. *)

Blocks == Cardinality({i \in 1..Len(feed) : feed[i] = BlockMark})

Commit == saved' = [posts |-> posts', cache |-> cache', nextId |-> nextId']

(* Start of the process: load last_id, mark a first part of the missing. *)
Restart ==
    /\ pc = "down"
    /\ lastId' \in Largest({posts[u].id : u \in DOMAIN cache} \cup {0})
    /\ \E S \in SUBSET Url :
        /\ MissingPrefix(lastId', S)
        /\ queue' = DirtyMissing(queue, S)
        /\ ids' = ids \cup S
        /\ pend' = MissingPromoted(pend, S)
    /\ pc' = "recover"
    /\ fault' = "none"
    /\ UNCHANGED <<chainVars, dbVars, noids, crashes>>

(* One turn of recover_missing_posts: flush, then mark the next part unless
   nothing was inserted; stop if the gap stalled. *)
RecoverPass(lag) ==
    LET found == Found(queue, lag)
        left  == FlushedQueue(queue, found)
        rest  == [u \in Url |-> IF u \in found THEN 0 ELSE pend[u]]
    IN /\ pc = "recover"
       /\ FlushWrites(queue, found)
       /\ IF \E u \in Url : queue[u] = INSERT
          THEN \E S \in SUBSET Url :
                 /\ MissingPrefix(lastId', S)
                 /\ queue' = DirtyMissing(left, S)
                 /\ ids' = FlushedIds(queue, found) \cup S
                 /\ pend' = MissingPromoted(rest, S)
                 /\ pc' = IF lastId' = lastId THEN "ready" ELSE "recover"
          ELSE /\ queue' = left
               /\ ids' = FlushedIds(queue, found)
               /\ pend' = rest
               /\ pc' = "ready"
       /\ UNCHANGED <<chainVars, posts, nextId, at, fault, crashes>>
       /\ Commit

(* from_worths: enter when there are irreversible blocks to fetch, skip it
   when there are none (the code returns before any flush). *)
StartFast ==
    /\ pc = "ready"
    /\ Blocks > 0
    /\ pc' = "fast"
    /\ UNCHANGED <<chainVars, dbVars, memVars, fault, crashes>>

SkipFast ==
    /\ pc = "ready"
    /\ Blocks < MaxGap
    /\ pc' = "sweep"
    /\ UNCHANGED <<chainVars, dbVars, memVars, fault, crashes>>

(* process_multi: the transaction spans as many blocks as the chunk holds. *)
NextFastBlock ==
    /\ pc = "fast"
    /\ AtBlockEnd
    /\ \E i \in (at + 2)..Len(feed) : feed[i] = BlockMark
    /\ at' = at + 1
    /\ UNCHANGED <<chainVars, posts, nextId, cache, saved, memVars, pc, fault, crashes>>

CommitFast ==
    /\ pc = "fast"
    /\ AtBlockEnd
    /\ feed' = SubSeq(feed, at + 2, Len(feed))
    /\ at' = 0
    /\ \/ pc' = "flush"
       \/ pc' = "fast" /\ \E i \in (at + 2)..Len(feed) : feed[i] = BlockMark
    /\ UNCHANGED <<node, made, posts, nextId, cache, memVars, fault, crashes>>
    /\ Commit

(* The flush that ends from_worths. *)
FlushFast(lag) ==
    /\ pc = "flush"
    /\ Flush(Found(FlushQueue, lag))
    /\ pc' = "sweep"
    /\ UNCHANGED <<chainVars, posts, nextId, at, fault, crashes>>
    /\ Commit

(* Sync.run 86-87: the payout backlog, before listening. *)
SweepFlush(lag) ==
    /\ pc = "sweep"
    /\ Flush(Found(FlushQueue, lag))
    /\ pc' = "live"
    /\ UNCHANGED <<chainVars, posts, nextId, at, fault, crashes>>
    /\ Commit

(* listen: sweep, flush and commit at the end of each block. *)
CommitLive(lag) ==
    /\ pc = "live"
    /\ AtBlockEnd
    /\ Flush(Found(FlushQueue, lag))
    /\ feed' = SubSeq(feed, at + 2, Len(feed))
    /\ at' = 0
    /\ UNCHANGED <<node, made, posts, nextId, pc, fault, crashes>>
    /\ Commit

(* The stream ends when the gap to the head is too wide. *)
LeaveLive ==
    /\ pc = "live"
    /\ at = 0
    /\ Blocks >= MaxGap
    /\ pc' = "ready"
    /\ UNCHANGED <<chainVars, dbVars, memVars, fault, crashes>>

(* The end of the process: the open transaction is gone, and the memory. (The
   database keeps a serial's ids; only their order matters, and those of the
   transaction name no row any more.) *)
Die(tables) ==
    /\ posts' = tables.posts
    /\ cache' = tables.cache
    /\ nextId' = tables.nextId
    /\ saved' = tables
    /\ at' = 0
    /\ queue' = [u \in Url |-> CLEAN]
    /\ ids' = {}
    /\ noids' = {}
    /\ pend' = [u \in Url |-> 0]
    /\ lastId' = -1
    /\ pc' = "down"
    /\ UNCHANGED chainVars

Crash ==
    /\ pc # "down"
    /\ crashes < MaxCrashes
    /\ crashes' = crashes + 1
    /\ Die(saved)
    /\ UNCHANGED fault

(* Outside a block the flush commits batch by batch, in the order of ids: what
   ends it leaves the first ones written. *)
CommittedUpTo(found, n) ==
    [posts  |-> posts,
     cache  |-> FlushedCache(FlushQueue, {u \in found : posts[u].id <= n}),
     nextId |-> nextId]

CrashMidFlush(lag) ==
    LET found == Found(FlushQueue, lag)
    IN /\ Flushing /\ pc # "live"
       /\ crashes < MaxCrashes
       /\ crashes' = crashes + 1
       /\ FlushFault(FlushQueue, found) = "none"
       /\ \E n \in {posts[u].id : u \in found} : Die(CommittedUpTo(found, n))
       /\ UNCHANGED fault

(* What is queued of the posts up to id n. *)
QueueUpTo(n) == [u \in Url |-> IF posts[u].id <= n THEN FlushQueue[u] ELSE CLEAN]

(* An exception of a flush leaves Sync.run: the process ends, to be started
   again (restart: always). Ids are looked up before the first batch; the other
   checks are made batch by batch, and may fail when batches without a fault are
   committed. *)
FlushRaises(lag) ==
    LET found == Found(FlushQueue, lag)
    IN /\ Flushing
       /\ fault' = FlushFault(FlushQueue, found)
       /\ fault' # "none"
       /\ \/ Die(saved)
          \/ /\ pc # "live" /\ fault' # "not in map"
             /\ \E n \in {posts[u].id : u \in found} :
                   /\ FlushFault(QueueUpTo(n), Found(QueueUpTo(n), lag)) = "none"
                   /\ Die(CommittedUpTo(found, n))
       /\ UNCHANGED crashes

-----------------------------------------------------------------------------
Init ==
    /\ ChainInit
    /\ posts = [u \in Url |-> NoPost]
    /\ nextId = 1
    /\ cache = [u \in {} |-> StubRow]
    /\ saved = [posts |-> posts, cache |-> cache, nextId |-> nextId]
    /\ at = 0
    /\ queue = [u \in Url |-> CLEAN]
    /\ ids = {}
    /\ noids = {}
    /\ pend = [u \in Url |-> 0]
    /\ lastId = -1
    /\ pc = "down"
    /\ fault = "none"
    /\ crashes = 0

ChainStep == ChainNext /\ UNCHANGED <<dbVars, memVars, pc, fault, crashes>>

(* What the process does of itself, whatever the chain and the host do. *)
IndexerStep ==
    \/ Restart \/ ProcessOp
    \/ StartFast \/ SkipFast \/ NextFastBlock \/ CommitFast
    \/ \E lag \in SUBSET Lagging :
        RecoverPass(lag) \/ FlushFast(lag) \/ SweepFlush(lag) \/ CommitLive(lag)
        \/ FlushRaises(lag)
    \/ LeaveLive

Next ==
    \/ ChainStep
    \/ IndexerStep
    \/ Crash
    \/ \E lag \in SUBSET Lagging : CrashMidFlush(lag)

Spec == Init /\ [][Next]_vars

(* The indexer keeps running (restart: always) and blocks keep coming; no
   operation need ever be made and the process need not crash. *)
FairSpec ==
    /\ Spec
    /\ WF_vars(IndexerStep)
    /\ WF_vars(ChainBlock /\ UNCHANGED <<dbVars, memVars, pc, fault, crashes>>)
-----------------------------------------------------------------------------
(* Properties. *)

Up == pc \notin {"down", "recover"}

(* The "important operating assumption" of _bump_last_id: while the indexer
   runs, every post past last_id that is not deleted is queued for insertion,
   so the cursor never jumps over a post that has no cache row. *)
SafeGap == Up => \A u \in Missing(lastId) : queue[u] = INSERT

(* A deleted post is never readable: the cache has rows only for posts that
   exist and are not deleted, whatever is queued, deferred or rolled back. *)
DeletedNotCached == \A u \in DOMAIN cache : Live(u)

(* A url queued for insertion has no row yet: the INSERT of a flush cannot
   meet the primary key of an earlier one. *)
InsertIsNew == \A u \in Url : queue[u] = INSERT => u \notin DOMAIN cache

(* A post the indexer knows is in the cache or on its way there: a deferred
   insert stays queued at insert level until the node knows the post. *)
NoLostPost == Up => \A u \in Url : Live(u) => u \in DOMAIN cache \/ queue[u] = INSERT

(* A pending promoted amount is the balance worth_posts has: a later payment
   replaces an unwritten one and a written one is not written again. *)
PendingIsCurrent == \A u \in Url : pend[u] # 0 => pend[u] = posts[u].promoted

(* None of the sanity checks of the flush fails and no INSERT meets a row. *)
NoFault == fault = "none"

(* assert pid, "WARNING: missing id" (_load_noids): every url that is marked
   without an id is that of a post the indexer knows. *)
IdsAreFound == fault # "missing id"

(* Once the chain is quiet, a post of the chain has a row with its last
   content, and no other row exists. The row counts the replies to the post
   itself, unless one was edited or created again: the count is read after
   the last of them was created or deleted, whatever marks were merged. *)
Converges ==
    <>[](\A u \in Url :
            IF node[u].live
            THEN LET under == {v \in Url : node[v].parent = u}
                 IN /\ u \in DOMAIN cache
                    /\ cache[u].ver = node[u].ver
                    /\ (\A v \in under : node[v].ver <= 1)
                           => cache[u].kids \cap under = {v \in under : node[v].live}
            ELSE u \notin DOMAIN cache)

(* "If recounting, update the parent next pass" (_sql): a reply that is created
   or deleted is counted by every post above it in the end, unless a post was
   edited or created again, or one that has replies was voted for: the mark of
   the vote hides that of the recount (_dirty), which is then not passed up. *)
Unhidden(v) ==
    /\ node[v].ver <= 1
    /\ node[v].voted => \A w \in Url : node[w].parent # v


(* The same, whatever was voted for or edited. *)
ThreadsConverge ==
    <>[](\A u \in Url : node[u].live => u \in DOMAIN cache /\ cache[u].kids = Replies(u))

(* "the worst case is it will be synced upon payout" (from_worths): in spite
   of crashes, a row of a post that was not edited after its payout ends with
   the content of the chain and the payout in it. *)
SyncedUponPayout ==
    <>[](\A u \in DOMAIN cache :
            node[u].live /\ node[u].paid /\ ~node[u].late
                => cache[u].paid /\ cache[u].ver = node[u].ver)
=============================================================================
