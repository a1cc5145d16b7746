--------------------------- MODULE PostCacheProofs ---------------------------
(***************************************************************************)
(* Proofs about PostCache, for any set of urls, any bounds and any node.   *)
(***************************************************************************)
EXTENDS PostCache, TLAPS

(* Type correctness is split by component: the chain, the tables and the
   memory, so that a step is proved for each apart. *)
TablesOK ==
    /\ posts \in [Url -> Post]
    /\ nextId \in Nat \ {0}
    /\ CacheTable(cache)
    /\ saved = [posts |-> saved.posts, cache |-> saved.cache, nextId |-> saved.nextId]
    /\ saved.nextId \in Nat \ {0}
    /\ saved.posts \in [Url -> Post]
    /\ CacheTable(saved.cache)

MemoryOK ==
    /\ queue \in [Url -> Levels \cup {CLEAN}]
    /\ ids \subseteq Url
    /\ noids \subseteq Url
    /\ pend \in [Url -> Nat]
    /\ lastId \in Nat \cup {-1}

PhaseOK ==
    /\ at \in 0..Len(feed)
    /\ pc \in Phases
    /\ fault \in {"none", "missing id", "not in map", "cache gap", "new pid",
                  "duplicate key"}
    /\ crashes \in Nat

(* The parts make up the type invariant. *)
LEMMA TypeParts == TypeOK <=> ChainTypeOK /\ TablesOK /\ MemoryOK /\ PhaseOK
BY DEF TypeOK, TablesOK, MemoryOK, PhaseOK

(* The feed is a sequence, of which `at` operations are processed. *)
LEMMA FeedType ==
    ASSUME TypeOK
    PROVE  /\ feed \in Seq(Ops \cup {BlockMark})
           /\ Len(feed) \in Nat
           /\ at \in 0..Len(feed)
<1>1. feed \in Seq(Ops \cup {BlockMark})
  BY DEF TypeOK, ChainTypeOK
<1>2. Len(feed) \in Nat
  BY <1>1
<1>3. at \in 0..Len(feed)
  BY DEF TypeOK
<1> QED BY <1>1, <1>2, <1>3

(* The chain's own operations keep the chain well typed and only lengthen the
   feed. *)
LEMMA ChainOpType ==
    ASSUME ChainTypeOK, ChainOp
    PROVE  ChainTypeOK' /\ Len(feed') >= Len(feed)
<1> USE DEF ChainTypeOK, NodePost
<1>1. PICK u \in Url :
        \/ \E p \in Url \cup {NoParent} : ChainCreate(u, p)
        \/ ChainEdit(u) \/ ChainDelete(u) \/ ChainVote(u)
        \/ ChainPay(u) \/ ChainPayout(u)
  BY DEF ChainOp
<1>2. ASSUME NEW op \in Ops, Emit(op)
      PROVE  feed' \in Seq(Ops \cup {BlockMark}) /\ made' \in Nat /\ Len(feed') >= Len(feed)
  BY <1>2 DEF Emit
<1>3. ASSUME NEW p \in Url \cup {NoParent}, ChainCreate(u, p) PROVE node' \in [Url -> NodePost] /\ \E op \in Ops : Emit(op)
  BY <1>3 DEF ChainCreate, Ops
<1>4. CASE ChainEdit(u)
  <2>1. \E op \in Ops : Emit(op)
    BY <1>4 DEF ChainEdit, Ops
  <2>2. node' \in [Url -> NodePost]
    BY <1>4 DEF ChainEdit
  <2> QED BY <1>2, <2>1, <2>2
<1>5. CASE ChainDelete(u) \/ ChainVote(u) \/ ChainPay(u) \/ ChainPayout(u)
  <2>1. \E op \in Ops : Emit(op)
    BY <1>5 DEF ChainDelete, ChainVote, ChainPay, ChainPayout, Ops
  <2>2. node' \in [Url -> NodePost]
    BY ZenonT(30), <1>5 DEF ChainDelete, ChainVote, ChainPay, ChainPayout
  <2> QED BY <1>2, <2>1, <2>2
<1> QED BY <1>1, <1>2, <1>3, <1>4, <1>5

(* A block mark appended to the feed keeps the feed well typed. *)
LEMMA ChainBlockType ==
    ASSUME ChainTypeOK, ChainBlock
    PROVE  ChainTypeOK' /\ Len(feed') >= Len(feed)
BY DEF ChainTypeOK, ChainBlock

(* What _dirty returns: no mark is lost and no priority is lowered. *)
LEMMA DirtyType ==
    ASSUME NEW q \in [Url -> Levels \cup {CLEAN}], NEW u \in Url, NEW level \in Levels
    PROVE  /\ Dirty(q, u, level) \in [Url -> Levels \cup {CLEAN}]
           /\ \A v \in Url : Dirty(q, u, level)[v] <= q[v]
           /\ Dirty(q, u, level)[u] <= level
           /\ \A v \in Url \ {u} : Dirty(q, u, level)[v] = q[v]
BY DEF Dirty, Levels, CLEAN, INSERT, RECOUNT

(* The handlers of operations keep every component well typed. *)
LEMMA ProcessOpType ==
    ASSUME TypeOK, ProcessOp
    PROVE  TypeOK'
<1> USE DEF Post, StubRow, Row, CacheTable
<1>1. ChainTypeOK /\ TablesOK /\ MemoryOK /\ PhaseOK
  BY TypeParts
<1>2. PICK u \in Url :
        \/ InsertPost(u) \/ UpdatePost(u) \/ UndeleteNew(u) \/ UndeleteCached(u)
        \/ DeletePost(u) \/ VotePost(u) \/ PayPost(u) \/ PayUnknown(u)
        \/ PassPayout(u)
  BY DEF ProcessOp
<1>3. ASSUME NEW kind, Processing(kind, u)
      PROVE  /\ ChainTypeOK' /\ PhaseOK' /\ saved' = saved
             /\ feed[at + 1] \in Ops \cup {BlockMark}
  <2>1. /\ UNCHANGED <<node, feed, made, saved, pc, fault, crashes>>
        /\ at' = at + 1 /\ at < Len(feed)
    BY <1>3 DEF Processing, chainVars
  <2>2. feed \in Seq(Ops \cup {BlockMark}) /\ at \in 0..Len(feed)
    BY <1>1 DEF ChainTypeOK, PhaseOK
  <2>3. Len(feed) \in Nat /\ at + 1 \in 1..Len(feed)
    BY <2>1, <2>2
  <2>4. ChainTypeOK'
    BY <1>1, <2>1 DEF ChainTypeOK
  <2>5. PhaseOK'
    <3>1. at' \in 0..Len(feed')
      BY <2>1, <2>2, <2>3
    <3> QED BY <1>1, <2>1, <3>1 DEF PhaseOK
  <2>6. feed[at + 1] \in Ops \cup {BlockMark}
    BY <2>2, <2>3
  <2> QED BY <2>1, <2>4, <2>5, <2>6
<1>4. ASSUME Processing("comment", u)
      PROVE  feed[at + 1].parent \in Url \cup {NoParent}
  BY <1>3, <1>4 DEF Processing, Ops, BlockMark
<1>5. CASE InsertPost(u)
  <2> DEFINE p == feed[at + 1].parent
             q == Dirty(queue, u, INSERT)
  <2>1. ChainTypeOK' /\ PhaseOK' /\ p \in Url \cup {NoParent} /\ saved' = saved
    BY <1>3, <1>4, <1>5 DEF InsertPost
  <2>2. TablesOK'
    BY <1>1, <1>5, <2>1 DEF InsertPost, TablesOK
  <2>3. q \in [Url -> Levels \cup {CLEAN}]
    BY <1>1, DirtyType DEF MemoryOK, Levels, INSERT, RECOUNT
  <2>4. queue' \in [Url -> Levels \cup {CLEAN}]
    <3>1. CASE p = NoParent
      BY <3>1, <2>3, <1>5 DEF InsertPost
    <3>2. CASE p # NoParent
      <4>1. queue' = Dirty(q, p, RECOUNT) /\ p \in Url
        BY <3>2, <2>1, <1>5 DEF InsertPost
      <4> HIDE DEF q, p
      <4> QED BY <4>1, <2>3, DirtyType DEF Levels, INSERT, RECOUNT
    <3> QED BY <3>1, <3>2
  <2>5. MemoryOK'
    BY <1>1, <1>5, <2>1, <2>4 DEF InsertPost, MemoryOK
  <2> QED BY <2>1, <2>2, <2>5 DEF TypeOK, TablesOK, MemoryOK, PhaseOK
<1>6. ASSUME NEW level \in Levels, queue' = Dirty(queue, u, level)
      PROVE  queue' \in [Url -> Levels \cup {CLEAN}]
  BY <1>1, <1>6, DirtyType DEF MemoryOK
<1>7. INSERT \in Levels /\ UPDATE \in Levels /\ UPVOTE \in Levels /\ RECOUNT \in Levels
  BY DEF Levels, INSERT, UPDATE, UPVOTE, RECOUNT
<1>8. CASE UpdatePost(u)
  <2>1. ChainTypeOK' /\ PhaseOK' /\ saved' = saved
    BY <1>3, <1>8 DEF UpdatePost
  <2>2. TablesOK'
    BY <1>1, <1>8, <2>1 DEF UpdatePost, TablesOK
  <2>3. MemoryOK'
    BY <1>1, <1>6, <1>7, <1>8 DEF UpdatePost, MemoryOK
  <2> QED BY <2>1, <2>2, <2>3 DEF TypeOK, TablesOK, MemoryOK, PhaseOK
<1>9. ASSUME Processing("comment", u), Reinstate(u)
      PROVE  posts' \in [Url -> Post]
  BY <1>1, <1>4, <1>9 DEF TablesOK, Reinstate
<1>10. CASE UndeleteNew(u)
  <2>1. ChainTypeOK' /\ PhaseOK' /\ saved' = saved
    BY <1>3, <1>10 DEF UndeleteNew
  <2>2. TablesOK'
    BY <1>1, <1>9, <1>10, <2>1 DEF UndeleteNew, TablesOK
  <2>3. MemoryOK'
    BY <1>1, <1>6, <1>7, <1>10 DEF UndeleteNew, MemoryOK
  <2> QED BY <2>1, <2>2, <2>3 DEF TypeOK, TablesOK, MemoryOK, PhaseOK
<1>11. CASE UndeleteCached(u)
  <2>1. ChainTypeOK' /\ PhaseOK' /\ saved' = saved
    BY <1>3, <1>11 DEF UndeleteCached
  <2>2. CacheTable(cache')
    BY <1>1, <1>11 DEF UndeleteCached, TablesOK
  <2>3. TablesOK'
    BY <1>1, <1>9, <1>11, <2>1, <2>2 DEF UndeleteCached, TablesOK
  <2>4. MemoryOK'
    BY <1>1, <1>6, <1>7, <1>11 DEF UndeleteCached, MemoryOK
  <2> QED BY <2>1, <2>3, <2>4 DEF TypeOK, TablesOK, MemoryOK, PhaseOK
<1>12. CASE DeletePost(u)
  <2> DEFINE p == posts[u].parent
             q == [queue EXCEPT ![u] = CLEAN]
  <2>1. ChainTypeOK' /\ PhaseOK' /\ saved' = saved
    BY <1>3, <1>12 DEF DeletePost
  <2>2. CacheTable(cache') /\ p \in Url \cup {NoParent}
    BY <1>1, <1>12 DEF DeletePost, TablesOK
  <2>3. TablesOK'
    <3>1. posts' \in [Url -> Post]
      BY ZenonT(30), <1>1, <1>12 DEF DeletePost, TablesOK
    <3>2. nextId' = nextId
      BY <1>12 DEF DeletePost
    <3> QED BY <1>1, <2>1, <2>2, <3>1, <3>2 DEF TablesOK
  <2>4. q \in [Url -> Levels \cup {CLEAN}]
    BY <1>1 DEF MemoryOK
  <2>5. queue' \in [Url -> Levels \cup {CLEAN}]
    <3>1. CASE p = NoParent
      BY <3>1, <2>4, <1>12 DEF DeletePost
    <3>2. CASE p # NoParent
      <4>1. queue' = Dirty(q, p, RECOUNT) /\ p \in Url
        BY <3>2, <2>2, <1>12 DEF DeletePost
      <4> HIDE DEF q, p
      <4> QED BY <4>1, <2>4, <1>7, DirtyType
    <3> QED BY <3>1, <3>2
  <2>6. MemoryOK'
    BY <1>1, <1>12, <2>2, <2>5 DEF DeletePost, MemoryOK
  <2> QED BY <2>1, <2>3, <2>6 DEF TypeOK, TablesOK, MemoryOK, PhaseOK
<1>13. CASE VotePost(u)
  <2>1. ChainTypeOK' /\ PhaseOK' /\ saved' = saved
    BY <1>3, <1>13 DEF VotePost
  <2>2. TablesOK'
    BY <1>1, <1>13, <2>1 DEF VotePost, TablesOK
  <2>3. MemoryOK'
    BY <1>1, <1>6, <1>7, <1>13 DEF VotePost, MemoryOK
  <2> QED BY <2>1, <2>2, <2>3 DEF TypeOK, TablesOK, MemoryOK, PhaseOK
<1>14. CASE PayPost(u)
  <2>1. ChainTypeOK' /\ PhaseOK' /\ saved' = saved
    BY <1>3, <1>14 DEF PayPost
  <2>2. posts' \in [Url -> Post] /\ posts[u].promoted + 1 \in Nat
    BY <1>1, <1>14 DEF PayPost, TablesOK
  <2>3. TablesOK'
    BY <1>1, <1>14, <2>1, <2>2 DEF PayPost, TablesOK
  <2>4. MemoryOK'
    BY <1>1, <1>6, <1>7, <1>14, <2>2 DEF PayPost, MemoryOK
  <2> QED BY <2>1, <2>3, <2>4 DEF TypeOK, TablesOK, MemoryOK, PhaseOK
<1>15. CASE PayUnknown(u) \/ PassPayout(u)
  <2>1. ChainTypeOK' /\ PhaseOK' /\ saved' = saved
    BY <1>3, <1>15 DEF PayUnknown, PassPayout
  <2>2. TablesOK' /\ MemoryOK'
    BY <1>1, <1>15, <2>1 DEF PayUnknown, PassPayout, TablesOK, MemoryOK, memVars
  <2> QED BY <2>1, <2>2 DEF TypeOK, TablesOK, MemoryOK, PhaseOK
<1> QED BY <1>2, <1>5, <1>8, <1>10, <1>11, <1>12, <1>13, <1>14, <1>15

(* The pieces of a flush: the cache table, the queue, the parents. *)
LEMMA WrittenType ==
    ASSUME TypeOK, NEW u \in Url, NEW level \in Levels, NEW old \in Row
    PROVE  Written(u, level, old) \in Row
<1>1. node[u] \in NodePost /\ pend[u] \in Nat
  BY DEF TypeOK, ChainTypeOK
<1>2. Replies(u) \in SUBSET Url
  BY DEF Replies
<1>3. /\ node[u].ver \in Nat /\ node[u].paid \in BOOLEAN
      /\ old.ver \in Nat /\ old.paid \in BOOLEAN /\ old.stub \in BOOLEAN
      /\ old.promoted \in Nat
  BY <1>1 DEF NodePost, Row
<1>4. /\ (IF level <= UPDATE THEN node[u].ver ELSE old.ver) \in Nat
      /\ (IF level <= UPDATE THEN node[u].paid ELSE old.paid) \in BOOLEAN
      /\ (level > UPDATE /\ old.stub) \in BOOLEAN
      /\ (IF pend[u] # 0 THEN pend[u] ELSE old.promoted) \in Nat
  BY <1>1, <1>3
<1> QED BY <1>2, <1>4 DEF Written, Row

(* The rows a flush writes are rows of the cache table. *)
LEMMA FlushedCacheType ==
    ASSUME TypeOK, NEW q \in [Url -> Levels \cup {CLEAN}],
           NEW done \in SUBSET Queued(q)
    PROVE  CacheTable(FlushedCache(q, done))
<1> DEFINE D == DOMAIN cache \cup {v \in done : q[v] = INSERT}
<1>1. D \subseteq Url /\ StubRow \in Row
  BY DEF TypeOK, CacheTable, Queued, StubRow, Row
<1>2. ASSUME NEW u \in D, u \notin done PROVE cache[u] \in Row
  BY <1>2 DEF TypeOK, CacheTable
<1>3. ASSUME NEW u \in D, u \in done
      PROVE  Written(u, q[u], IF u \in DOMAIN cache THEN cache[u] ELSE StubRow) \in Row
  <2>1. q[u] \in Levels /\ u \in Url
    BY <1>3 DEF Queued, Levels, CLEAN
  <2>2. (IF u \in DOMAIN cache THEN cache[u] ELSE StubRow) \in Row
    BY <1>1 DEF TypeOK, CacheTable
  <2> HIDE DEF D
  <2> QED BY <2>1, <2>2, WrittenType
<1>4. DOMAIN FlushedCache(q, done) = D
  BY DEF FlushedCache
<1>5. ASSUME NEW u \in D PROVE FlushedCache(q, done)[u] \in Row
  BY <1>2, <1>3 DEF FlushedCache
<1> QED BY <1>1, <1>4, <1>5 DEF CacheTable, FlushedCache

(* What a flush leaves in the queue are levels again. *)
LEMMA FlushedQueueType ==
    ASSUME TypeOK, NEW q \in [Url -> Levels \cup {CLEAN}], NEW found \in SUBSET Url
    PROVE  /\ FlushedQueue(q, found) \in [Url -> Levels \cup {CLEAN}]
           /\ RecountParents(q, found) \subseteq Url
<1>1. \A u \in Url : node[u].parent \in Url \cup {NoParent}
  BY DEF TypeOK, ChainTypeOK, NodePost
<1>2. RecountParents(q, found) \subseteq Url
  BY <1>1 DEF RecountParents
<1>3. RECOUNT \in Levels
  BY DEF Levels, RECOUNT, INSERT
<1> QED BY <1>2, <1>3 DEF FlushedQueue

(* The payout sweep keeps the queue well typed and marks no insert. *)
LEMMA FlushQueueType ==
    ASSUME TypeOK
    PROVE  /\ FlushQueue \in [Url -> Levels \cup {CLEAN}]
           /\ FlushIds \subseteq Url
           /\ \A u \in Url : FlushQueue[u] <= queue[u]
           /\ \A u \in Url : FlushQueue[u] = INSERT <=> queue[u] = INSERT
<1>1. queue \in [Url -> Levels \cup {CLEAN}] /\ ids \subseteq Url /\ PaidOut \subseteq Url
  BY DEF TypeOK, CacheTable, PaidOut
<1>2. FlushIds \subseteq Url
  BY <1>1 DEF FlushIds
<1>3. CASE pc \in {"sweep", "live"}
  <2>1. FlushQueue = [u \in Url |-> IF u \in PaidOut /\ queue[u] > PAYOUT THEN PAYOUT
                                     ELSE queue[u]]
    BY <1>3 DEF FlushQueue
  <2>2. \A u \in Url : queue[u] \in 0..5
    BY <1>1 DEF Levels, CLEAN, INSERT, RECOUNT
  <2>3. PAYOUT = 1 /\ INSERT = 0 /\ Levels \cup {CLEAN} = 0..5
    BY DEF Levels, CLEAN, PAYOUT, INSERT, RECOUNT
  <2> QED BY <1>2, <2>1, <2>2, <2>3
<1>4. CASE pc \notin {"sweep", "live"}
  <2>1. FlushQueue = queue
    BY <1>4 DEF FlushQueue
  <2>2. \A u \in Url : queue[u] \in 0..5
    BY <1>1 DEF Levels, CLEAN, INSERT, RECOUNT
  <2> QED BY <1>1, <1>2, <2>1, <2>2
<1> QED BY <1>3, <1>4

(* A batch holds queued urls only. *)
LEMMA FoundType ==
    ASSUME NEW q, NEW lag
    PROVE  Found(q, lag) \subseteq Queued(q) /\ Found(q, lag) \subseteq Url
BY DEF Found, Queued

(* _bump_last_id returns an id: the cursor stays a number. *)
LEMMA BumpedType ==
    ASSUME TypeOK, NEW q, NEW n \in Bumped(q)
    PROVE  /\ n \in Nat \cup {-1} /\ n >= lastId
           /\ \A u \in Queued(q) : posts[u].id <= n
<1>1. lastId \in Nat \cup {-1} /\ \A u \in Queued(q) : posts[u].id \in Nat
  BY DEF TypeOK, Queued, Post
<1>2. n \in {lastId} \cup {posts[u].id : u \in Queued(q)}
  BY DEF Bumped, Largest
<1>3. \A m \in {lastId} \cup {posts[u].id : u \in Queued(q)} : m <= n
  BY DEF Bumped, Largest
<1> QED BY <1>1, <1>2, <1>3

(* A flush, as the phases share it, keeps tables and memory well typed. *)
LEMMA FlushType ==
    ASSUME TypeOK, NEW lag, Flush(Found(FlushQueue, lag))
    PROVE  CacheTable(cache') /\ MemoryOK'
<1> DEFINE found == Found(FlushQueue, lag)
<1>1. /\ FlushQueue \in [Url -> Levels \cup {CLEAN}] /\ FlushIds \subseteq Url
      /\ found \in SUBSET Queued(FlushQueue) /\ found \in SUBSET Url
  BY FlushQueueType, FoundType
<1>2. CacheTable(cache')
  BY <1>1, FlushedCacheType DEF Flush, FlushWrites
<1>3. lastId' \in Nat \cup {-1}
  BY BumpedType DEF Flush, FlushWrites
<1>4. queue' \in [Url -> Levels \cup {CLEAN}] /\ noids' \subseteq Url
  BY <1>1, FlushedQueueType DEF Flush, FlushWrites
<1>5. ids' \subseteq Url
  BY <1>1 DEF Flush, FlushedIds, TypeOK
<1>6. pend' \in [Url -> Nat]
  BY DEF Flush, TypeOK
<1> QED BY <1>2, <1>3, <1>4, <1>5, <1>6 DEF MemoryOK

(* Everything the process does between operations. *)
LEMMA PhaseType ==
    ASSUME TypeOK,
           \/ Restart \/ StartFast \/ SkipFast \/ NextFastBlock \/ CommitFast \/ LeaveLive
    PROVE  TypeOK'
<1> USE DEF Phases
<1>1. ChainTypeOK /\ TablesOK /\ MemoryOK /\ PhaseOK
  BY TypeParts
<1>2. ASSUME UNCHANGED <<posts, nextId, cache, saved>> PROVE TablesOK'
  BY <1>1, <1>2 DEF TablesOK, CacheTable
<1>3. ASSUME UNCHANGED <<node, feed, made>> PROVE ChainTypeOK'
  BY <1>1, <1>3 DEF ChainTypeOK
<1>4. CASE Restart
  <2>1. ChainTypeOK' /\ TablesOK'
    BY <1>2, <1>3, <1>4 DEF Restart, chainVars, dbVars
  <2>2. \A u \in DOMAIN cache : posts[u].id \in Nat
    BY <1>1 DEF TablesOK, CacheTable, Post
  <2>3. lastId' \in Nat
    BY <1>4, <2>2 DEF Restart, Largest
  <2>4. PICK S \in SUBSET Url :
            /\ queue' = DirtyMissing(queue, S)
            /\ ids' = ids \cup S
            /\ pend' = MissingPromoted(pend, S)
    BY <1>4 DEF Restart
  <2>5. queue' \in [Url -> Levels \cup {CLEAN}]
    BY <1>1, <2>4 DEF MemoryOK, DirtyMissing, Levels, INSERT, RECOUNT
  <2>6. \A u \in Url : posts[u].promoted \in Nat
    BY <1>1 DEF TablesOK, Post
  <2>7. pend' \in [Url -> Nat]
    BY <1>1, <2>4, <2>6 DEF MemoryOK, MissingPromoted
  <2>8. MemoryOK'
    BY <1>1, <1>4, <2>3, <2>4, <2>5, <2>7 DEF MemoryOK, Restart
  <2>9. PhaseOK'
    BY <1>1, <1>4 DEF Restart, PhaseOK, chainVars, dbVars
  <2> QED BY <2>1, <2>8, <2>9, TypeParts DEF TypeOK, TablesOK, MemoryOK, PhaseOK
<1>5. CASE StartFast \/ SkipFast \/ LeaveLive
  <2>1. UNCHANGED <<chainVars, dbVars, memVars, fault, crashes>> /\ pc' \in Phases
    BY <1>5 DEF StartFast, SkipFast, LeaveLive
  <2>2. ChainTypeOK' /\ TablesOK'
    BY <1>2, <1>3, <2>1 DEF chainVars, dbVars
  <2>3. MemoryOK' /\ PhaseOK'
    BY <1>1, <2>1 DEF MemoryOK, PhaseOK, chainVars, dbVars, memVars
  <2> QED BY <2>2, <2>3 DEF TypeOK, TablesOK, MemoryOK, PhaseOK
<1>6. feed \in Seq(Ops \cup {BlockMark}) /\ at \in 0..Len(feed) /\ Len(feed) \in Nat
  BY FeedType
<1>7. ASSUME AtBlockEnd PROVE at + 1 \in 0..Len(feed)
  BY <1>6, <1>7 DEF AtBlockEnd
<1>8. CASE NextFastBlock
  <2>1. ChainTypeOK' /\ TablesOK'
    BY <1>2, <1>3, <1>8 DEF NextFastBlock, chainVars
  <2>2. at' \in 0..Len(feed')
    BY <1>7, <1>8 DEF NextFastBlock, chainVars
  <2>3. MemoryOK' /\ PhaseOK'
    BY <1>1, <1>8, <2>2 DEF NextFastBlock, MemoryOK, PhaseOK, memVars
  <2> QED BY <2>1, <2>3 DEF TypeOK, TablesOK, MemoryOK, PhaseOK
<1>9. ASSUME feed' = SubSeq(feed, at + 2, Len(feed))
      PROVE  feed' \in Seq(Ops \cup {BlockMark}) /\ 0 \in 0..Len(feed')
  BY <1>6, <1>9
<1>10. CASE CommitFast
  <2>1. ChainTypeOK' /\ 0 \in 0..Len(feed')
    BY <1>1, <1>9, <1>10 DEF CommitFast, ChainTypeOK
  <2>2. TablesOK'
    BY <1>1, <1>10 DEF CommitFast, Commit, TablesOK, CacheTable
  <2>3. MemoryOK' /\ PhaseOK'
    BY <1>1, <1>10, <2>1 DEF CommitFast, MemoryOK, PhaseOK, memVars
  <2> QED BY <2>1, <2>2, <2>3 DEF TypeOK, TablesOK, MemoryOK, PhaseOK
<1> QED BY <1>4, <1>5, <1>8, <1>10

(* The phases that flush. *)
LEMMA FlushPhaseType ==
    ASSUME TypeOK, NEW lag,
           RecoverPass(lag) \/ FlushFast(lag) \/ SweepFlush(lag) \/ CommitLive(lag)
    PROVE  TypeOK'
<1> USE DEF Phases
<1>1. ChainTypeOK /\ TablesOK /\ MemoryOK /\ PhaseOK
  BY TypeParts
<1>2. feed \in Seq(Ops \cup {BlockMark}) /\ at \in 0..Len(feed) /\ Len(feed) \in Nat
  BY FeedType
<1>3. ASSUME CacheTable(cache'), UNCHANGED <<posts, nextId>>, Commit PROVE TablesOK'
  BY <1>1, <1>3 DEF TablesOK, Commit, CacheTable
<1>4. ASSUME UNCHANGED <<node, feed, made>> PROVE ChainTypeOK'
  BY <1>1, <1>4 DEF ChainTypeOK
<1>5. CASE FlushFast(lag) \/ SweepFlush(lag)
  <2>1. Flush(Found(FlushQueue, lag)) /\ Commit /\ pc' \in Phases
        /\ UNCHANGED <<chainVars, posts, nextId, at, fault, crashes>>
    BY <1>5 DEF FlushFast, SweepFlush
  <2>2. CacheTable(cache') /\ MemoryOK'
    BY <2>1, FlushType
  <2>3. ChainTypeOK' /\ TablesOK'
    BY <1>3, <1>4, <2>1, <2>2 DEF chainVars
  <2>4. PhaseOK'
    BY <1>1, <2>1 DEF PhaseOK, chainVars
  <2> QED BY <2>2, <2>3, <2>4 DEF TypeOK, TablesOK, MemoryOK, PhaseOK
<1>6. CASE CommitLive(lag)
  <2>1. Flush(Found(FlushQueue, lag)) /\ Commit
        /\ UNCHANGED <<node, made, posts, nextId, pc, fault, crashes>>
        /\ feed' = SubSeq(feed, at + 2, Len(feed)) /\ at' = 0
    BY <1>6 DEF CommitLive
  <2>2. CacheTable(cache') /\ MemoryOK'
    BY <2>1, FlushType
  <2>3. feed' \in Seq(Ops \cup {BlockMark}) /\ 0 \in 0..Len(feed')
    BY <1>2, <2>1
  <2>4. ChainTypeOK' /\ TablesOK'
    BY <1>1, <1>3, <2>1, <2>2, <2>3 DEF ChainTypeOK
  <2>5. PhaseOK'
    BY <1>1, <2>1, <2>3 DEF PhaseOK
  <2> QED BY <2>2, <2>4, <2>5 DEF TypeOK, TablesOK, MemoryOK, PhaseOK
<1>7. CASE RecoverPass(lag)
  <2> DEFINE found == Found(queue, lag)
             left  == FlushedQueue(queue, found)
             rest  == [u \in Url |-> IF u \in found THEN 0 ELSE pend[u]]
  <2>1. /\ FlushWrites(queue, found) /\ Commit /\ pc' \in Phases
        /\ UNCHANGED <<chainVars, posts, nextId, at, fault, crashes>>
    BY <1>7 DEF RecoverPass
  <2>2. /\ queue \in [Url -> Levels \cup {CLEAN}]
        /\ found \in SUBSET Queued(queue) /\ found \in SUBSET Url
    BY <1>1, FoundType DEF MemoryOK
  <2>3. CacheTable(cache')
    BY <2>1, <2>2, FlushedCacheType DEF FlushWrites
  <2>4. ChainTypeOK' /\ TablesOK'
    BY <1>3, <1>4, <2>1, <2>3 DEF chainVars
  <2>5. left \in [Url -> Levels \cup {CLEAN}] /\ noids' \subseteq Url
    BY <2>1, <2>2, FlushedQueueType DEF FlushWrites
  <2>6. lastId' \in Nat \cup {-1}
    BY <2>1, BumpedType DEF FlushWrites
  <2>7. FlushedIds(queue, found) \subseteq Url
    BY <1>1, FlushQueueType DEF FlushedIds, MemoryOK
  <2>8. rest \in [Url -> Nat] /\ \A u \in Url : posts[u].promoted \in Nat
    BY <1>1 DEF MemoryOK, TablesOK, Post
  <2>9. /\ queue' \in [Url -> Levels \cup {CLEAN}]
        /\ ids' \subseteq Url /\ pend' \in [Url -> Nat]
    <3>1. CASE \E u \in Url : queue[u] = INSERT
      <4>1. PICK S \in SUBSET Url :
              /\ queue' = DirtyMissing(left, S)
              /\ ids' = FlushedIds(queue, found) \cup S
              /\ pend' = MissingPromoted(rest, S)
        BY <1>7, <3>1 DEF RecoverPass
      <4>2. INSERT \in Levels
        BY DEF Levels, INSERT, RECOUNT
      <4> HIDE DEF left, rest, found
      <4> QED BY <2>5, <2>7, <2>8, <4>1, <4>2 DEF DirtyMissing, MissingPromoted
    <3>2. CASE ~ \E u \in Url : queue[u] = INSERT
      <4>1. queue' = left /\ ids' = FlushedIds(queue, found) /\ pend' = rest
        BY <1>7, <3>2 DEF RecoverPass
      <4> QED BY <2>5, <2>7, <2>8, <4>1
    <3> QED BY <3>1, <3>2
  <2>10. MemoryOK'
    BY <2>5, <2>6, <2>9 DEF MemoryOK
  <2>11. PhaseOK'
    BY <1>1, <2>1 DEF PhaseOK, chainVars
  <2> QED BY <2>4, <2>10, <2>11 DEF TypeOK, TablesOK, MemoryOK, PhaseOK
<1> QED BY <1>5, <1>6, <1>7

(* The end of the process, over well-typed tables, keeps every variable typed. *)
LEMMA DieType ==
    ASSUME TypeOK, NEW tables,
           tables = [posts |-> tables.posts, cache |-> tables.cache, nextId |-> tables.nextId],
           tables.posts \in [Url -> Post], CacheTable(tables.cache),
           tables.nextId \in Nat \ {0},
           Die(tables)
    PROVE  ChainTypeOK' /\ TablesOK' /\ MemoryOK' /\ at' \in 0..Len(feed') /\ pc' \in Phases
<1>1. ChainTypeOK /\ feed \in Seq(Ops \cup {BlockMark})
  BY DEF TypeOK, ChainTypeOK
<1>2. UNCHANGED <<node, feed, made>> /\ at' = 0 /\ pc' = "down"
  BY DEF Die, chainVars
<1>3. ChainTypeOK' /\ at' \in 0..Len(feed') /\ pc' \in Phases
  BY <1>1, <1>2 DEF ChainTypeOK, Phases
<1>4. TablesOK'
  BY DEF Die, TablesOK, CacheTable
<1>5. MemoryOK'
  BY DEF Die, MemoryOK
<1> QED BY <1>3, <1>4, <1>5

(* The end of the process leaves the last commit, or the first batches of the
   flush under way. *)
LEMMA EndTables ==
    ASSUME NEW lag, Crash \/ CrashMidFlush(lag) \/ FlushRaises(lag)
    PROVE  \/ Die(saved)
           \/ /\ Flushing /\ pc # "live"
              /\ \E n : Die(CommittedUpTo(Found(FlushQueue, lag), n))
BY DEF Crash, CrashMidFlush, FlushRaises

(* The ways the process ends. *)
LEMMA EndType ==
    ASSUME TypeOK, NEW lag, Crash \/ CrashMidFlush(lag) \/ FlushRaises(lag)
    PROVE  TypeOK'
<1>1. ChainTypeOK /\ TablesOK /\ MemoryOK /\ PhaseOK
  BY TypeParts
<1>2. /\ FlushQueue \in [Url -> Levels \cup {CLEAN}]
      /\ Found(FlushQueue, lag) \in SUBSET Queued(FlushQueue)
  BY FlushQueueType, FoundType
<1>3. PICK tables :
        /\ Die(tables)
        /\ tables = [posts |-> tables.posts, cache |-> tables.cache, nextId |-> tables.nextId]
        /\ tables.posts \in [Url -> Post]
        /\ CacheTable(tables.cache)
        /\ tables.nextId \in Nat \ {0}
  <2>1. CASE Die(saved)
    BY <1>1, <2>1 DEF TablesOK
  <2>2. CASE \E n : Die(CommittedUpTo(Found(FlushQueue, lag), n))
    <3>1. PICK n : Die(CommittedUpTo(Found(FlushQueue, lag), n))
      BY <2>2
    <3> DEFINE done == {u \in Found(FlushQueue, lag) : posts[u].id <= n}
    <3>2. done \in SUBSET Queued(FlushQueue)
      BY <1>2
    <3>3. CacheTable(FlushedCache(FlushQueue, done))
      BY <1>2, <3>2, FlushedCacheType
    <3> QED BY <1>1, <3>1, <3>3 DEF TablesOK, CommittedUpTo
  <2> QED BY <2>1, <2>2, EndTables
<1>4. ChainTypeOK' /\ TablesOK' /\ MemoryOK' /\ at' \in 0..Len(feed') /\ pc' \in Phases
  BY <1>3, DieType
<1>5. crashes' \in Nat
  <2>1. crashes' = crashes + 1 \/ crashes' = crashes
    BY DEF Crash, CrashMidFlush, FlushRaises
  <2>2. crashes \in Nat
    BY <1>1 DEF PhaseOK
  <2> QED BY <2>1, <2>2
<1>6. fault' \in {"none", "missing id", "not in map", "cache gap", "new pid", "duplicate key"}
  <2>1. CASE Crash \/ CrashMidFlush(lag)
    BY <1>1, <2>1 DEF PhaseOK, Crash, CrashMidFlush
  <2>2. CASE FlushRaises(lag)
    BY <2>2 DEF FlushRaises, FlushFault
  <2> QED BY <2>1, <2>2
<1>7. PhaseOK'
  BY <1>4, <1>5, <1>6 DEF PhaseOK
<1> QED BY <1>4, <1>7 DEF TypeOK, TablesOK, MemoryOK, PhaseOK

(* Every step keeps the types. *)
LEMMA NextType ==
    ASSUME TypeOK, [Next]_vars
    PROVE  TypeOK'
<1>1. ChainTypeOK /\ TablesOK /\ MemoryOK /\ PhaseOK
  BY TypeParts
<1>2. CASE ChainStep
  <2>1. ChainTypeOK' /\ Len(feed') >= Len(feed)
    BY <1>1, <1>2, ChainOpType, ChainBlockType DEF ChainStep, ChainNext
  <2>2. UNCHANGED <<dbVars, memVars, pc, fault, crashes>>
    BY <1>2 DEF ChainStep
  <2>3. TablesOK' /\ MemoryOK'
    BY <1>1, <2>2 DEF TablesOK, MemoryOK, dbVars, memVars, CacheTable
  <2>4. at \in 0..Len(feed) /\ Len(feed) \in Nat /\ feed' \in Seq(Ops \cup {BlockMark})
    BY <2>1, FeedType DEF ChainTypeOK
  <2>5. at' \in 0..Len(feed')
    <3>1. Len(feed') \in Nat
      BY <2>4
    <3> QED BY <2>1, <2>2, <2>4, <3>1 DEF dbVars
  <2>6. PhaseOK'
    BY <1>1, <2>2, <2>5 DEF PhaseOK
  <2> QED BY <2>1, <2>3, <2>6 DEF TypeOK, TablesOK, MemoryOK, PhaseOK
<1>3. CASE IndexerStep
  BY <1>3, ProcessOpType, PhaseType, FlushPhaseType, EndType DEF IndexerStep
<1>4. CASE Crash \/ \E lag \in SUBSET Lagging : CrashMidFlush(lag)
  BY <1>4, EndType
<1>5. CASE UNCHANGED vars
  <2>1. UNCHANGED <<chainVars, dbVars, memVars, pc, fault, crashes>>
    BY <1>5 DEF vars
  <2>2. ChainTypeOK' /\ TablesOK'
    BY <1>1, <2>1 DEF chainVars, dbVars, ChainTypeOK, TablesOK, CacheTable
  <2>3. MemoryOK' /\ PhaseOK'
    BY <1>1, <2>1 DEF chainVars, dbVars, memVars, MemoryOK, PhaseOK
  <2> QED BY <2>2, <2>3 DEF TypeOK, TablesOK, MemoryOK, PhaseOK
<1> QED BY <1>2, <1>3, <1>4, <1>5 DEF Next

(* The empty database and memory are well typed. *)
LEMMA InitType == Init => TypeOK
<1> SUFFICES ASSUME Init PROVE TypeOK
  OBVIOUS
<1>1. ChainTypeOK
  BY DEF Init, ChainInit, ChainTypeOK, NodePost
<1>2. NoPost \in Post /\ CacheTable([u \in {} |-> StubRow])
  BY DEF NoPost, Post, CacheTable
<1>3. TablesOK
  BY <1>2 DEF Init, TablesOK
<1>4. MemoryOK /\ PhaseOK
  BY DEF Init, ChainInit, MemoryOK, PhaseOK, Phases
<1> QED BY <1>1, <1>3, <1>4, TypeParts

(* The tables, the memory of CachedPost and the phase of Sync.run keep their
   types in every behaviour: crashes, exceptions and lagging nodes included. *)
THEOREM TypeCorrect == Spec => []TypeOK
<1>1. Init => TypeOK
  BY InitType
<1>2. TypeOK /\ [Next]_vars => TypeOK'
  BY NextType
<1> QED BY <1>1, <1>2, PTL DEF Spec

-----------------------------------------------------------------------------
(* The safety of the cache cursor. What a url queued for insertion is: a post
   that is not deleted and has no row. What the tables at the last commit are:
   rows of posts that were not deleted then. Where the cursor is: past every
   row. And recovery, which marks the missing posts part by part: as long as
   one is missing, one is marked. *)

InsertsAreLive == \A u \in Url : queue[u] = INSERT => Live(u)

SavedNotDeleted ==
    \A u \in DOMAIN saved.cache : saved.posts[u].id # 0 /\ ~saved.posts[u].deleted

CursorCoversCache == pc # "down" => \A u \in DOMAIN cache : posts[u].id <= lastId

RecoveryProceeds ==
    pc = "recover" /\ Missing(lastId) # {} => \E u \in Missing(lastId) : queue[u] = INSERT

CacheInv ==
    /\ TypeOK
    /\ InsertsAreLive
    /\ InsertIsNew
    /\ DeletedNotCached
    /\ SavedNotDeleted
    /\ CursorCoversCache
    /\ RecoveryProceeds
    /\ SafeGap

(* A mark keeps the posts queued for insertion queued for it. *)
LEMMA DirtyInserts ==
    ASSUME NEW q \in [Url -> Levels \cup {CLEAN}], NEW u \in Url, NEW level \in Levels
    PROVE  /\ \A v \in Url : q[v] = INSERT => Dirty(q, u, level)[v] = INSERT
           /\ level # INSERT =>
                \A v \in Url : Dirty(q, u, level)[v] = INSERT => q[v] = INSERT
           /\ level = INSERT => Dirty(q, u, level)[u] = INSERT
           /\ \A v \in Url \ {u} : Dirty(q, u, level)[v] = q[v]
BY DEF Dirty, Levels, CLEAN, INSERT, RECOUNT

(* What an operation does to the posts, the cache and the insertions decides
   whether the invariant survives it. *)
LEMMA ProcessOpInv ==
    ASSUME CacheInv, ProcessOp
    PROVE  CacheInv'
<1>1. TypeOK /\ TypeOK'
  BY ProcessOpType DEF CacheInv
<1>2. PICK u \in Url :
        \/ InsertPost(u) \/ UpdatePost(u) \/ UndeleteNew(u) \/ UndeleteCached(u)
        \/ DeletePost(u) \/ VotePost(u) \/ PayPost(u) \/ PayUnknown(u)
        \/ PassPayout(u)
  BY DEF ProcessOp
<1>3. /\ posts \in [Url -> Post] /\ queue \in [Url -> Levels \cup {CLEAN}]
      /\ DOMAIN cache \subseteq Url
      /\ lastId \in Nat \cup {-1}
      /\ \A v \in Url : posts[v].id \in Nat /\ posts[v].deleted \in BOOLEAN
  BY <1>1 DEF TypeOK, CacheTable, Post
<1>4. /\ lastId' = lastId /\ saved' = saved /\ pc' = pc
      /\ pc \in {"fast", "live"}
  BY <1>2 DEF Processing, InsertPost, UpdatePost, UndeleteNew, UndeleteCached,
              DeletePost, VotePost, PayPost, PayUnknown, PassPayout, memVars
<1>5. SavedNotDeleted' /\ RecoveryProceeds'
  BY <1>4 DEF CacheInv, SavedNotDeleted, RecoveryProceeds
<1>6. Up /\ Up' /\ pc # "down"
  BY <1>4 DEF Up
<1>7. /\ INSERT \in Levels /\ UPDATE \in Levels /\ UPVOTE \in Levels /\ RECOUNT \in Levels
      /\ INSERT # UPDATE /\ INSERT # UPVOTE /\ INSERT # RECOUNT /\ INSERT # CLEAN
  BY DEF Levels, INSERT, UPDATE, UPVOTE, RECOUNT, CLEAN
<1>8. SUFFICES InsertsAreLive' /\ InsertIsNew' /\ DeletedNotCached'
               /\ CursorCoversCache' /\ SafeGap'
  BY <1>1, <1>5 DEF CacheInv
<1>9. CASE InsertPost(u)
  <2> DEFINE p == feed[at + 1].parent
             q == Dirty(queue, u, INSERT)
  <2>1. /\ ~Exists(u) /\ cache' = cache
        /\ \A v \in Url \ {u} : posts'[v] = posts[v]
        /\ posts'[u].deleted = FALSE /\ posts'[u].id = nextId /\ nextId # 0
    BY <1>1, <1>3, <1>9 DEF InsertPost, TypeOK
  <2>2. Live(u)' /\ \A v \in Url \ {u} : Live(v)' <=> Live(v)
    BY <2>1 DEF Live, Exists
  <2>3. u \notin DOMAIN cache
    BY <2>1 DEF CacheInv, DeletedNotCached, Live
  <2>4. q \in [Url -> Levels \cup {CLEAN}]
    BY <1>3, <1>7, DirtyType
  <2>5. q[u] = INSERT /\ \A v \in Url \ {u} : q[v] = queue[v]
    BY <1>3, <1>7, DirtyInserts
  <2>6. \A v \in Url : queue'[v] = INSERT <=> q[v] = INSERT
    <3>1. CASE p = NoParent
      BY <1>9, <3>1 DEF InsertPost
    <3>2. CASE p # NoParent
      <4>1. queue' = Dirty(q, p, RECOUNT)
        BY <1>9, <3>2 DEF InsertPost
      <4>2. p \in Url
        <5>1. at \in 0..Len(feed) /\ at < Len(feed) /\ feed \in Seq(Ops \cup {BlockMark})
          BY <1>1, <1>9, FeedType DEF InsertPost, Processing
        <5>2. feed[at + 1] \in Ops \cup {BlockMark} /\ feed[at + 1].kind = "comment"
          BY <1>9, <5>1 DEF InsertPost, Processing
        <5> QED BY <3>2, <5>2 DEF Ops, BlockMark
      <4> HIDE DEF p, q
      <4> QED BY <1>7, <2>4, <4>1, <4>2, DirtyInserts
    <3> QED BY <3>1, <3>2
  <2> HIDE DEF q, p
  <2>7. InsertsAreLive' /\ InsertIsNew' /\ DeletedNotCached'
    BY <1>3, <2>1, <2>2, <2>3, <2>5, <2>6
       DEF CacheInv, InsertsAreLive, InsertIsNew, DeletedNotCached
  <2>8. CursorCoversCache'
    BY <1>3, <1>4, <2>1, <2>3 DEF CacheInv, CursorCoversCache
  <2>9. SafeGap'
    BY <1>4, <1>6, <2>1, <2>2, <2>5, <2>6 DEF CacheInv, SafeGap, Missing
  <2> QED BY <2>7, <2>8, <2>9
<1>10. ASSUME NEW level \in Levels \ {INSERT}, queue' = Dirty(queue, u, level),
              cache' = cache,
              \A v \in Url : posts'[v].id = posts[v].id /\ posts'[v].deleted = posts[v].deleted
       PROVE  /\ InsertsAreLive' /\ InsertIsNew' /\ DeletedNotCached'
              /\ CursorCoversCache' /\ SafeGap'
  <2>1. \A v \in Url : queue'[v] = INSERT <=> queue[v] = INSERT
    BY <1>3, <1>10, DirtyInserts
  <2>2. \A v \in Url : Live(v)' <=> Live(v)
    BY <1>10 DEF Live, Exists
  <2> QED BY <1>3, <1>4, <1>6, <1>10, <2>1, <2>2
          DEF CacheInv, InsertsAreLive, InsertIsNew, DeletedNotCached, CursorCoversCache,
              SafeGap, Missing
<1>11. CASE UpdatePost(u) \/ VotePost(u)
  BY <1>7, <1>10, <1>11 DEF UpdatePost, VotePost
<1>12. CASE PayPost(u)
  <2>1. \A v \in Url : posts'[v].id = posts[v].id /\ posts'[v].deleted = posts[v].deleted
    BY <1>3, <1>12 DEF PayPost, Post
  <2> QED BY <1>7, <1>10, <1>12, <2>1 DEF PayPost
<1>13. CASE PayUnknown(u) \/ PassPayout(u)
  <2>1. UNCHANGED <<posts, cache, queue>>
    BY <1>13 DEF PayUnknown, PassPayout, memVars
  <2> QED BY <1>4, <1>6, <2>1
          DEF CacheInv, InsertsAreLive, InsertIsNew, DeletedNotCached, CursorCoversCache,
              SafeGap, Missing, Live, Exists
<1>14. ASSUME Reinstate(u), Exists(u)
       PROVE  /\ Live(u)' /\ \A v \in Url \ {u} : posts'[v] = posts[v] /\ (Live(v)' <=> Live(v))
              /\ posts'[u].id = posts[u].id
  BY <1>3, <1>14 DEF Reinstate, Live, Exists
<1>15. CASE UndeleteNew(u)
  <2>1. /\ Live(u)' /\ \A v \in Url \ {u} : posts'[v] = posts[v] /\ (Live(v)' <=> Live(v))
        /\ posts'[u].id = posts[u].id
    BY <1>14, <1>15 DEF UndeleteNew
  <2>2. cache' = cache /\ u \notin DOMAIN cache /\ queue' = Dirty(queue, u, INSERT)
    BY <1>15 DEF UndeleteNew, CacheInv, DeletedNotCached, Live
  <2>3. queue'[u] = INSERT /\ \A v \in Url \ {u} : queue'[v] = queue[v]
    BY <1>3, <1>7, <2>2, DirtyInserts
  <2>4. InsertsAreLive' /\ InsertIsNew' /\ DeletedNotCached'
    BY <1>3, <2>1, <2>2, <2>3
       DEF CacheInv, InsertsAreLive, InsertIsNew, DeletedNotCached
  <2>5. CursorCoversCache'
    BY <1>3, <1>4, <2>1, <2>2 DEF CacheInv, CursorCoversCache
  <2>6. SafeGap'
    BY <1>4, <1>6, <2>1, <2>3 DEF CacheInv, SafeGap, Missing
  <2> QED BY <2>4, <2>5, <2>6
<1>16. CASE UndeleteCached(u)
  <2>1. /\ Live(u)' /\ \A v \in Url \ {u} : posts'[v] = posts[v] /\ (Live(v)' <=> Live(v))
        /\ posts'[u].id = posts[u].id /\ posts[u].id <= lastId
    BY <1>14, <1>16 DEF UndeleteCached
  <2>2. DOMAIN cache' = DOMAIN cache \cup {u} /\ queue' = Dirty(queue, u, UPDATE)
    BY <1>16 DEF UndeleteCached
  <2>3. \A v \in Url : queue'[v] = INSERT <=> queue[v] = INSERT
    BY <1>3, <1>7, <2>2, DirtyInserts
  <2>4. queue[u] # INSERT
    BY <1>16 DEF UndeleteCached, CacheInv, InsertsAreLive, Live
  <2>5. InsertsAreLive' /\ InsertIsNew' /\ DeletedNotCached'
    BY <1>3, <2>1, <2>2, <2>3, <2>4
       DEF CacheInv, InsertsAreLive, InsertIsNew, DeletedNotCached
  <2>6. CursorCoversCache'
    BY <1>3, <1>4, <1>6, <2>1, <2>2 DEF CacheInv, CursorCoversCache
  <2>7. SafeGap'
    BY <1>3, <1>4, <1>6, <2>1, <2>3 DEF CacheInv, SafeGap, Missing
  <2> QED BY <2>5, <2>6, <2>7
<1>17. CASE DeletePost(u)
  <2> DEFINE p == posts[u].parent
             q == [queue EXCEPT ![u] = CLEAN]
  <2>1. /\ ~Live(u)' /\ \A v \in Url \ {u} : Live(v)' <=> Live(v)
        /\ \A v \in Url : posts'[v].id = posts[v].id
        /\ DOMAIN cache' = DOMAIN cache \ {u}
    BY <1>3, <1>17 DEF DeletePost, Live, Exists, Post
  <2>2. q \in [Url -> Levels \cup {CLEAN}] /\ q[u] # INSERT
        /\ \A v \in Url \ {u} : q[v] = queue[v]
    BY <1>3, <1>7
  <2>3. \A v \in Url : queue'[v] = INSERT <=> q[v] = INSERT
    <3>1. CASE p = NoParent
      BY <1>17, <3>1 DEF DeletePost
    <3>2. CASE p # NoParent
      <4>1. queue' = Dirty(q, p, RECOUNT) /\ p \in Url
        BY <1>3, <1>17, <3>2 DEF DeletePost, Post
      <4> HIDE DEF p, q
      <4> QED BY <1>7, <2>2, <4>1, DirtyInserts
    <3> QED BY <3>1, <3>2
  <2> HIDE DEF p, q
  <2>4. InsertsAreLive' /\ InsertIsNew' /\ DeletedNotCached'
    BY <1>3, <2>1, <2>2, <2>3
       DEF CacheInv, InsertsAreLive, InsertIsNew, DeletedNotCached
  <2>5. CursorCoversCache'
    BY <1>3, <1>4, <2>1 DEF CacheInv, CursorCoversCache
  <2>6. SafeGap'
    BY <1>4, <1>6, <2>1, <2>2, <2>3 DEF CacheInv, SafeGap, Missing
  <2> QED BY <2>4, <2>5, <2>6
<1> QED BY <1>2, <1>9, <1>11, <1>12, <1>13, <1>15, <1>16, <1>17

(* After a flush no post is missing past the cursor, what stays queued for
   insertion was queued before and got no row, and the rows are those of posts
   that are not deleted. *)
LEMMA FlushInv ==
    ASSUME CacheInv, pc # "down",
           NEW q \in [Url -> Levels \cup {CLEAN}],
           \A u \in Url : q[u] = INSERT <=> queue[u] = INSERT,
           NEW found \in SUBSET Queued(q),
           FlushWrites(q, found), UNCHANGED posts
    PROVE  /\ \A u \in Url : FlushedQueue(q, found)[u] = INSERT =>
                  queue[u] = INSERT /\ u \notin found
           /\ DOMAIN cache' = DOMAIN cache \cup {u \in found : q[u] = INSERT}
           /\ \A u \in DOMAIN cache' : Live(u) /\ posts[u].id <= lastId'
           /\ lastId' >= lastId
           /\ \A u \in Url : q[u] = INSERT => posts[u].id <= lastId'
<1>1. TypeOK /\ found \subseteq Url
  BY DEF CacheInv, Queued
<1>2. lastId \in Nat \cup {-1} /\ \A u \in Url : posts[u].id \in Nat
  BY <1>1 DEF TypeOK, Post
<1>3. /\ lastId' \in Nat \cup {-1} /\ lastId' >= lastId
      /\ \A u \in Queued(q) : posts[u].id <= lastId'
  BY <1>1, BumpedType DEF FlushWrites
<1>4. \A u \in Url : q[u] = INSERT => u \in Queued(q)
  BY DEF Queued, INSERT, CLEAN
<1>5. \A u \in Url : FlushedQueue(q, found)[u] = INSERT => queue[u] = INSERT /\ u \notin found
  BY DEF FlushedQueue, INSERT, RECOUNT, CLEAN
<1>6. DOMAIN cache' = DOMAIN cache \cup {u \in found : q[u] = INSERT}
  BY DEF FlushWrites, FlushedCache
<1>7. ASSUME NEW u \in DOMAIN cache' PROVE Live(u) /\ posts[u].id <= lastId'
  <2>1. CASE u \in DOMAIN cache
    <3>1. Live(u) /\ posts[u].id <= lastId /\ u \in Url
      BY <1>1, <2>1 DEF CacheInv, DeletedNotCached, CursorCoversCache, TypeOK, CacheTable
    <3> QED BY <1>2, <1>3, <3>1
  <2>2. CASE u \in found /\ q[u] = INSERT
    <3>1. u \in Url /\ u \in Queued(q)
      BY <1>1, <2>2
    <3> QED BY <1>3, <2>2, <3>1 DEF CacheInv, InsertsAreLive
  <2> QED BY <1>6, <1>7, <2>1, <2>2
<1> QED BY <1>3, <1>4, <1>5, <1>6, <1>7

(* Steps of the process between operations. *)
LEMMA PhaseInv ==
    ASSUME CacheInv,
           \/ Restart \/ StartFast \/ SkipFast \/ NextFastBlock \/ CommitFast \/ LeaveLive
    PROVE  CacheInv'
<1>1. TypeOK /\ TypeOK'
  BY PhaseType DEF CacheInv
<1>2. CASE Restart
  <2>1. /\ pc = "down" /\ pc' = "recover" /\ UNCHANGED <<posts, cache, saved>>
        /\ lastId' \in Largest({posts[u].id : u \in DOMAIN cache} \cup {0})
    BY <1>2 DEF Restart, dbVars
  <2>2. PICK S \in SUBSET Url : MissingPrefix(lastId', S) /\ queue' = DirtyMissing(queue, S)
    BY <1>2 DEF Restart
  <2>3. \A u \in Url : Live(u)' <=> Live(u)
    BY <2>1 DEF Live, Exists
  <2>4. \A u \in DOMAIN cache : posts[u].id <= lastId'
    BY <2>1 DEF Largest
  <2>5. CursorCoversCache' /\ SavedNotDeleted' /\ DeletedNotCached'
    BY <1>1, <2>1, <2>3, <2>4
       DEF CacheInv, CursorCoversCache, SavedNotDeleted, DeletedNotCached, TypeOK, CacheTable
  <2>6. \A u \in S : Live(u) /\ posts[u].id > lastId'
    BY <2>2 DEF MissingPrefix, Missing
  <2>7. \A u \in Url : posts[u].id \in Nat /\ lastId' \in Nat \cup {-1}
    BY <1>1 DEF TypeOK, Post
  <2>8. \A u \in S : u \notin DOMAIN cache
    BY <2>4, <2>6, <2>7
  <2>9. \A u \in Url : queue'[u] = INSERT <=> u \in S \/ queue[u] = INSERT
    BY <2>2 DEF DirtyMissing
  <2>10. InsertsAreLive' /\ InsertIsNew'
    BY <2>1, <2>3, <2>6, <2>8, <2>9 DEF CacheInv, InsertsAreLive, InsertIsNew
  <2>11. RecoveryProceeds'
    <3>1. Missing(lastId)' = Missing(lastId')
      BY <2>1, <2>3 DEF Missing
    <3>2. Missing(lastId') # {} => S # {} /\ S \subseteq Missing(lastId')
      BY <2>2 DEF MissingPrefix
    <3> QED BY <2>9, <3>1, <3>2 DEF RecoveryProceeds
  <2>12. SafeGap'
    BY <2>1 DEF SafeGap, Up
  <2> QED BY <1>1, <2>5, <2>10, <2>11, <2>12 DEF CacheInv
<1>3. CASE StartFast \/ SkipFast \/ LeaveLive \/ NextFastBlock
  <2>1. /\ UNCHANGED <<posts, cache, saved, queue, lastId>>
        /\ Up /\ Up' /\ pc # "down" /\ pc' # "recover"
    BY <1>3 DEF StartFast, SkipFast, LeaveLive, NextFastBlock, dbVars, memVars, Up
  <2> QED BY <1>1, <2>1
          DEF CacheInv, InsertsAreLive, InsertIsNew, DeletedNotCached, SavedNotDeleted,
              CursorCoversCache, RecoveryProceeds, SafeGap, Missing, Live, Exists
<1>4. CASE CommitFast
  <2>1. /\ UNCHANGED <<posts, cache, queue, lastId>>
        /\ Up /\ Up' /\ pc # "down" /\ pc' # "recover"
        /\ saved'.posts = posts /\ saved'.cache = cache
    BY <1>4 DEF CommitFast, Commit, memVars, Up
  <2>2. SavedNotDeleted'
    BY <2>1 DEF CacheInv, DeletedNotCached, SavedNotDeleted, Live, Exists
  <2> QED BY <1>1, <2>1, <2>2
          DEF CacheInv, InsertsAreLive, InsertIsNew, DeletedNotCached,
              CursorCoversCache, RecoveryProceeds, SafeGap, Missing, Live, Exists
<1> QED BY <1>2, <1>3, <1>4

(* The phases that flush: afterwards nothing is missing past the cursor, or
   recovery has marked a next part of what is. *)
LEMMA FlushPhaseInv ==
    ASSUME CacheInv, NEW lag,
           RecoverPass(lag) \/ FlushFast(lag) \/ SweepFlush(lag) \/ CommitLive(lag)
    PROVE  CacheInv'
<1>1. TypeOK /\ TypeOK'
  BY FlushPhaseType DEF CacheInv
<1>2. /\ \A u \in Url : posts[u].id \in Nat
      /\ lastId \in Nat \cup {-1} /\ lastId' \in Nat \cup {-1}
      /\ queue \in [Url -> Levels \cup {CLEAN}]
      /\ DOMAIN cache' \subseteq Url
  BY <1>1 DEF TypeOK, Post, CacheTable
<1>3. /\ UNCHANGED posts /\ pc # "down" /\ pc' # "down"
      /\ saved'.posts = posts /\ saved'.cache = cache'
  <2>1. CASE RecoverPass(lag)
    <3>1. UNCHANGED posts /\ pc = "recover" /\ Commit
      BY <2>1 DEF RecoverPass
    <3>2. pc' # "down"
      BY <2>1 DEF RecoverPass
    <3> QED BY <3>1, <3>2 DEF Commit
  <2>2. CASE FlushFast(lag) \/ SweepFlush(lag)
    BY <2>2 DEF FlushFast, SweepFlush, Commit
  <2>3. CASE CommitLive(lag)
    BY <2>3 DEF CommitLive, Commit
  <2> QED BY <2>1, <2>2, <2>3
<1>4. \A u \in Url : Live(u)' <=> Live(u)
  BY <1>3 DEF Live, Exists
<1>5. ASSUME \A u \in DOMAIN cache' : Live(u) /\ posts[u].id <= lastId'
      PROVE  DeletedNotCached' /\ SavedNotDeleted' /\ CursorCoversCache'
  BY <1>2, <1>3, <1>4, <1>5
     DEF DeletedNotCached, SavedNotDeleted, CursorCoversCache, Live, Exists
<1>6. CASE FlushFast(lag) \/ SweepFlush(lag) \/ CommitLive(lag)
  <2> DEFINE q == FlushQueue
             found == Found(q, lag)
  <2>1. /\ FlushWrites(q, found) /\ queue' = FlushedQueue(q, found)
        /\ Up /\ Up' /\ pc' # "recover"
    BY <1>6 DEF FlushFast, SweepFlush, CommitLive, Flush, Up
  <2>2. /\ q \in [Url -> Levels \cup {CLEAN}] /\ found \in SUBSET Queued(q)
        /\ \A u \in Url : q[u] = INSERT <=> queue[u] = INSERT
    BY <1>1, FlushQueueType, FoundType
  <2> HIDE DEF q, found
  <2>3. /\ \A u \in Url : queue'[u] = INSERT => queue[u] = INSERT /\ u \notin found
        /\ DOMAIN cache' = DOMAIN cache \cup {u \in found : q[u] = INSERT}
        /\ \A u \in DOMAIN cache' : Live(u) /\ posts[u].id <= lastId'
        /\ lastId' >= lastId
        /\ \A u \in Url : q[u] = INSERT => posts[u].id <= lastId'
    BY <1>3, <2>1, <2>2, FlushInv
  <2>4. DeletedNotCached' /\ SavedNotDeleted' /\ CursorCoversCache'
    BY <1>5, <2>3
  <2>5. InsertsAreLive' /\ InsertIsNew'
    BY <1>4, <2>3 DEF CacheInv, InsertsAreLive, InsertIsNew
  <2>6. RecoveryProceeds'
    BY <2>1 DEF RecoveryProceeds
  <2>7. SafeGap'
    <3> SUFFICES ASSUME NEW u \in Url, Live(u), posts[u].id > lastId' PROVE FALSE
      BY <1>3, <1>4 DEF SafeGap, Missing
    <3>1. posts[u].id > lastId
      BY <1>2, <2>3
    <3>2. q[u] = INSERT
      BY <2>1, <2>2, <3>1 DEF CacheInv, SafeGap, Missing
    <3> QED BY <1>2, <2>3, <3>2
  <2> QED BY <1>1, <2>4, <2>5, <2>6, <2>7 DEF CacheInv
<1>7. CASE RecoverPass(lag)
  <2> DEFINE found == Found(queue, lag)
             left == FlushedQueue(queue, found)
  <2>1. FlushWrites(queue, found) /\ pc = "recover"
    BY <1>7 DEF RecoverPass
  <2>2. found \in SUBSET Queued(queue)
    BY FoundType
  <2>3. /\ \A u \in Url : left[u] = INSERT => queue[u] = INSERT /\ u \notin found
        /\ DOMAIN cache' = DOMAIN cache \cup {u \in found : queue[u] = INSERT}
        /\ \A u \in DOMAIN cache' : Live(u) /\ posts[u].id <= lastId'
        /\ lastId' >= lastId
        /\ \A u \in Url : queue[u] = INSERT => posts[u].id <= lastId'
    BY <1>2, <1>3, <2>1, <2>2, FlushInv
  <2>4. DeletedNotCached' /\ SavedNotDeleted' /\ CursorCoversCache'
    BY <1>5, <2>3
  <2>5. \A last \in Nat \cup {-1} : Missing(last)' = Missing(last)
    BY <1>3, <1>4 DEF Missing
  <2>6. CASE \E u \in Url : queue[u] = INSERT
    <3>1. PICK S \in SUBSET Url :
            /\ MissingPrefix(lastId', S)
            /\ queue' = DirtyMissing(left, S)
      BY <1>7, <2>6 DEF RecoverPass
    <3>2. pc' = IF lastId' = lastId THEN "ready" ELSE "recover"
      BY <1>7, <2>6 DEF RecoverPass
    <3> HIDE DEF left, found
    <3>3. \A u \in S : Live(u) /\ posts[u].id > lastId'
      BY <3>1 DEF MissingPrefix, Missing
    <3>4. \A u \in Url : queue'[u] = INSERT <=> u \in S \/ left[u] = INSERT
      BY <3>1 DEF DirtyMissing
    <3>5. \A u \in S : u \notin DOMAIN cache'
      BY <1>2, <2>3, <3>3
    <3>6. InsertsAreLive' /\ InsertIsNew'
      BY <1>4, <2>3, <3>3, <3>4, <3>5 DEF CacheInv, InsertsAreLive, InsertIsNew
    <3>7. RecoveryProceeds'
      BY <1>2, <2>5, <3>1, <3>4 DEF RecoveryProceeds, MissingPrefix
    <3>8. SafeGap'
      <4>1. CASE lastId' = lastId
        <5>1. Missing(lastId) = {}
          <6> SUFFICES ASSUME Missing(lastId) # {} PROVE FALSE
            OBVIOUS
          <6>1. PICK u \in Missing(lastId) : queue[u] = INSERT
            BY <2>1 DEF CacheInv, RecoveryProceeds
          <6>2. u \in Url /\ posts[u].id > lastId
            BY <6>1 DEF Missing
          <6> QED BY <1>2, <2>3, <4>1, <6>1, <6>2
        <5> QED BY <1>2, <2>5, <4>1, <5>1 DEF SafeGap
      <4>2. CASE lastId' # lastId
        BY <3>2, <4>2 DEF SafeGap, Up
      <4> QED BY <4>1, <4>2
    <3> QED BY <1>1, <2>4, <3>6, <3>7, <3>8 DEF CacheInv
  <2>7. CASE ~ \E u \in Url : queue[u] = INSERT
    <3>1. queue' = left /\ pc' = "ready"
      BY <1>7, <2>7 DEF RecoverPass
    <3> HIDE DEF left, found
    <3>2. \A u \in Url : queue'[u] # INSERT
      BY <2>3, <2>7, <3>1
    <3>3. InsertsAreLive' /\ InsertIsNew' /\ RecoveryProceeds'
      BY <3>1, <3>2 DEF InsertsAreLive, InsertIsNew, RecoveryProceeds
    <3>4. Missing(lastId) = {}
      BY <2>1, <2>7 DEF CacheInv, RecoveryProceeds, Missing
    <3>5. \A u \in Url : Live(u) => posts[u].id <= lastId
      BY <1>2, <3>4 DEF Missing
    <3>6. \A u \in Url : ~(Live(u) /\ posts[u].id > lastId')
      BY <1>2, <2>3, <3>5
    <3>7. SafeGap'
      BY <1>3, <1>4, <3>6 DEF SafeGap, Missing
    <3> QED BY <1>1, <2>4, <3>3, <3>7 DEF CacheInv
  <2> QED BY <2>6, <2>7
<1> QED BY <1>6, <1>7

(* The end of the process leaves tables whose rows are of posts that are not
   deleted: those of the last commit, or those of a flush cut short. *)
LEMMA EndInv ==
    ASSUME CacheInv, NEW lag, Crash \/ CrashMidFlush(lag) \/ FlushRaises(lag)
    PROVE  CacheInv'
<1>1. TypeOK /\ TypeOK'
  BY EndType DEF CacheInv
<1>2. PICK tables :
        /\ Die(tables)
        /\ \A u \in DOMAIN tables.cache : tables.posts[u].id # 0 /\ ~tables.posts[u].deleted
  <2>1. CASE Die(saved)
    BY <2>1 DEF CacheInv, SavedNotDeleted
  <2>2. CASE \E n : Die(CommittedUpTo(Found(FlushQueue, lag), n))
    <3>1. PICK n : Die(CommittedUpTo(Found(FlushQueue, lag), n))
      BY <2>2
    <3> DEFINE done == {u \in Found(FlushQueue, lag) : posts[u].id <= n}
    <3>2. DOMAIN FlushedCache(FlushQueue, done)
            = DOMAIN cache \cup {v \in done : FlushQueue[v] = INSERT}
      BY DEF FlushedCache
    <3>3. done \subseteq Url /\ \A v \in Url : FlushQueue[v] = INSERT <=> queue[v] = INSERT
      BY <1>1, FoundType, FlushQueueType
    <3>4. \A v \in DOMAIN FlushedCache(FlushQueue, done) : Live(v)
      BY <3>2, <3>3 DEF CacheInv, DeletedNotCached, InsertsAreLive
    <3> QED BY <3>1, <3>4 DEF Live, Exists, CommittedUpTo
  <2> QED BY <2>1, <2>2, EndTables
<1>3. /\ posts' = tables.posts /\ cache' = tables.cache /\ saved' = tables /\ pc' = "down"
      /\ \A u \in Url : queue'[u] = CLEAN
  BY <1>2 DEF Die
<1>4. DeletedNotCached' /\ SavedNotDeleted'
  BY <1>2, <1>3 DEF DeletedNotCached, SavedNotDeleted, Live, Exists
<1>5. InsertsAreLive' /\ InsertIsNew'
  BY <1>3 DEF InsertsAreLive, InsertIsNew, CLEAN, INSERT
<1>6. CursorCoversCache' /\ RecoveryProceeds' /\ SafeGap'
  BY <1>3 DEF CursorCoversCache, RecoveryProceeds, SafeGap, Up
<1> QED BY <1>1, <1>4, <1>5, <1>6 DEF CacheInv

(* Every step of the chain, the indexer and the host preserves CacheInv. *)
LEMMA NextCacheInv ==
    ASSUME CacheInv, [Next]_vars
    PROVE  CacheInv'
<1>1. TypeOK'
  BY NextType DEF CacheInv
<1>2. CASE ChainStep \/ UNCHANGED vars
  <2>1. UNCHANGED <<dbVars, memVars, pc>>
    BY <1>2 DEF ChainStep, vars
  <2> QED BY <1>1, <2>1
          DEF CacheInv, InsertsAreLive, InsertIsNew, DeletedNotCached, SavedNotDeleted,
              CursorCoversCache, RecoveryProceeds, SafeGap, Missing, Live, Exists, Up,
              dbVars, memVars
<1>3. CASE IndexerStep
  BY <1>3, ProcessOpInv, PhaseInv, FlushPhaseInv, EndInv DEF IndexerStep
<1>4. CASE Crash \/ \E lag \in SUBSET Lagging : CrashMidFlush(lag)
  BY <1>4, EndInv
<1> QED BY <1>2, <1>3, <1>4 DEF Next

(* CacheInv holds of the empty tables of a process not yet started. *)
LEMMA InitCacheInv == Init => CacheInv
<1> SUFFICES ASSUME Init PROVE CacheInv
  OBVIOUS
<1>1. TypeOK
  BY InitType
<1>2. /\ \A u \in Url : queue[u] = CLEAN
      /\ DOMAIN cache = {} /\ DOMAIN saved.cache = {} /\ pc = "down"
  BY DEF Init
<1>3. InsertsAreLive /\ InsertIsNew /\ DeletedNotCached /\ SavedNotDeleted
  BY <1>2 DEF InsertsAreLive, InsertIsNew, DeletedNotCached, SavedNotDeleted, CLEAN, INSERT
<1>4. CursorCoversCache /\ RecoveryProceeds /\ SafeGap
  BY <1>2 DEF CursorCoversCache, RecoveryProceeds, SafeGap, Up
<1> QED BY <1>1, <1>3, <1>4 DEF CacheInv

(* CacheInv is an invariant of the specification. *)
LEMMA CacheInvariant == Spec => []CacheInv
<1>1. Init => CacheInv
  BY InitCacheInv
<1>2. CacheInv /\ [Next]_vars => CacheInv'
  BY NextCacheInv
<1> QED BY <1>1, <1>2, PTL DEF Spec

(* The operating assumption of _bump_last_id: while the indexer runs, every
   post past last_id that is not deleted is queued for insertion. *)
THEOREM SafeGapAlways == Spec => []SafeGap
<1>1. CacheInv => SafeGap
  BY DEF CacheInv
<1> QED BY <1>1, CacheInvariant, PTL

(* No row of worth_posts_cache is that of a deleted post, whatever was queued,
   deferred, rolled back or recovered. *)
THEOREM DeletedNeverCached == Spec => []DeletedNotCached
<1>1. CacheInv => DeletedNotCached
  BY DEF CacheInv
<1> QED BY <1>1, CacheInvariant, PTL

(* A post queued for insertion has no row: the INSERT statements of
   CachedPost never meet the primary key of an earlier one. *)
THEOREM InsertsAreNew == Spec => []InsertIsNew
<1>1. CacheInv => InsertIsNew
  BY DEF CacheInv
<1> QED BY <1>1, CacheInvariant, PTL

-----------------------------------------------------------------------------
(* The pending promotions. A url without a post has no balance, so that what is
   pending for a url is pending for its post. *)
Unpaid(table) == \A u \in Url : table[u].id = 0 => table[u].promoted = 0

PendingInv == TypeOK /\ PendingIsCurrent /\ Unpaid(posts) /\ Unpaid(saved.posts)

(* The handlers: only a payment moves a balance, and it makes it pending. *)
LEMMA ProcessOpPending ==
    ASSUME PendingInv, ProcessOp
    PROVE  PendingIsCurrent' /\ Unpaid(posts') /\ saved' = saved
<1>1. PICK u \in Url : InsertPost(u) \/ UpdatePost(u) \/ UndeleteNew(u) \/ UndeleteCached(u)
        \/ DeletePost(u) \/ VotePost(u) \/ PayPost(u) \/ PayUnknown(u) \/ PassPayout(u)
  BY DEF ProcessOp
<1>2. /\ posts \in [Url -> Post] /\ pend \in [Url -> Nat]
      /\ \A v \in Url : posts[v].id \in Nat /\ posts[v].promoted \in Nat
  BY DEF PendingInv, TypeOK, Post
<1>3. saved' = saved
  BY <1>1 DEF InsertPost, UpdatePost, UndeleteNew, UndeleteCached, DeletePost, VotePost,
              PayPost, PayUnknown, PassPayout, Processing
<1>4. ASSUME pend' = pend,
             \A v \in Url : posts'[v].promoted = posts[v].promoted
                /\ (posts'[v].id = 0 => posts[v].id = 0)
      PROVE  PendingIsCurrent' /\ Unpaid(posts')
  BY <1>4 DEF PendingInv, PendingIsCurrent, Unpaid
<1>5. CASE UpdatePost(u) \/ VotePost(u) \/ PayUnknown(u) \/ PassPayout(u)
  <2>1. posts' = posts /\ pend' = pend
    BY <1>5 DEF UpdatePost, VotePost, PayUnknown, PassPayout, memVars
  <2> QED BY <1>3, <1>4, <2>1
<1>6. CASE DeletePost(u)
  <2>1. posts' = [posts EXCEPT ![u].deleted = TRUE] /\ pend' = pend
    BY <1>6 DEF DeletePost
  <2>2. \A v \in Url : posts'[v].promoted = posts[v].promoted /\ posts'[v].id = posts[v].id
    BY <1>2, <2>1 DEF Post
  <2> QED BY <1>3, <1>4, <2>1, <2>2
<1>7. CASE UndeleteNew(u) \/ UndeleteCached(u)
  <2>1. Reinstate(u) /\ pend' = pend
    BY <1>7 DEF UndeleteNew, UndeleteCached
  <2>2. \A v \in Url : posts'[v].promoted = posts[v].promoted /\ posts'[v].id = posts[v].id
    BY <1>2, <2>1 DEF Reinstate
  <2> QED BY <1>3, <1>4, <2>1, <2>2
<1>8. CASE InsertPost(u)
  <2>1. /\ posts[u].id = 0 /\ pend' = pend /\ nextId \in Nat \ {0}
        /\ posts' = [posts EXCEPT ![u] = [id |-> nextId, deleted |-> FALSE, promoted |-> 0,
                                          parent |-> feed[at + 1].parent]]
    BY <1>8 DEF InsertPost, Exists, PendingInv, TypeOK
  <2>2. posts[u].promoted = 0
    BY <2>1 DEF PendingInv, Unpaid
  <2>3. \A v \in Url : posts'[v].promoted = posts[v].promoted
           /\ (posts'[v].id = 0 => posts[v].id = 0)
    BY <1>2, <2>1, <2>2
  <2> QED BY <1>3, <1>4, <2>1, <2>3
<1>9. CASE PayPost(u)
  <2>1. /\ posts' = [posts EXCEPT ![u].promoted = @ + 1] /\ posts[u].id # 0
        /\ pend' = [pend EXCEPT ![u] = posts[u].promoted + 1]
    BY <1>9 DEF PayPost, Exists
  <2>2. /\ posts'[u].promoted = posts[u].promoted + 1 /\ posts'[u].id = posts[u].id
        /\ \A v \in Url \ {u} : posts'[v] = posts[v]
    BY <1>2, <2>1 DEF Post
  <2>3. pend'[u] = posts[u].promoted + 1 /\ \A v \in Url \ {u} : pend'[v] = pend[v]
    BY <1>2, <2>1
  <2> QED BY <1>3, <2>1, <2>2, <2>3 DEF PendingInv, PendingIsCurrent, Unpaid
<1> QED BY <1>1, <1>5, <1>6, <1>7, <1>8, <1>9

(* The other steps: a flush writes some of what is pending, a restart takes up
   balances of worth_posts, and the end of the process forgets everything. *)
LEMMA NextPending ==
    ASSUME PendingInv, [Next]_vars
    PROVE  PendingInv'
<1>1. TypeOK' /\ pend \in [Url -> Nat]
  BY NextType DEF PendingInv, TypeOK
<1>2. CASE ProcessOp
  BY <1>1, <1>2, ProcessOpPending DEF PendingInv
<1>3. ASSUME posts' = posts, saved' = saved \/ saved'.posts = posts',
             \A u \in Url : pend'[u] \in {0, pend[u], posts[u].promoted}
      PROVE  PendingInv'
  BY <1>1, <1>3 DEF PendingInv, PendingIsCurrent, Unpaid
<1>4. ASSUME NEW amounts \in [Url -> Nat], NEW S,
             \A u \in Url : amounts[u] \in {0, pend[u]},
             pend' = MissingPromoted(amounts, S)
      PROVE  \A u \in Url : pend'[u] \in {0, pend[u], posts[u].promoted}
  BY <1>4 DEF MissingPromoted
<1>5. CASE ChainStep \/ UNCHANGED vars \/ StartFast \/ SkipFast \/ NextFastBlock \/ LeaveLive
  BY <1>3, <1>5 DEF ChainStep, vars, dbVars, memVars, StartFast, SkipFast, NextFastBlock, LeaveLive
<1>6. CASE CommitFast
  <2>1. posts' = posts /\ pend' = pend /\ saved'.posts = posts'
    BY <1>6 DEF CommitFast, Commit, memVars
  <2> QED BY <1>3, <2>1
<1>7. CASE Restart
  <2>1. posts' = posts /\ saved' = saved /\ \E S : pend' = MissingPromoted(pend, S)
    BY <1>7 DEF Restart, dbVars
  <2> QED BY <1>1, <1>3, <1>4, <2>1
<1>8. ASSUME NEW lag, FlushFast(lag) \/ SweepFlush(lag) \/ CommitLive(lag)
      PROVE  PendingInv'
  <2>1. posts' = posts /\ saved'.posts = posts'
    BY <1>8 DEF FlushFast, SweepFlush, CommitLive, Commit
  <2>2. \E done : pend' = [u \in Url |-> IF u \in done THEN 0 ELSE pend[u]]
    BY <1>8 DEF FlushFast, SweepFlush, CommitLive, Flush
  <2> QED BY <1>3, <2>1, <2>2
<1>9. ASSUME NEW lag, RecoverPass(lag) PROVE PendingInv'
  <2> DEFINE rest == [u \in Url |-> IF u \in Found(queue, lag) THEN 0 ELSE pend[u]]
  <2>1. posts' = posts /\ saved'.posts = posts'
    BY <1>9 DEF RecoverPass, Commit
  <2>2. pend' = rest \/ \E S : pend' = MissingPromoted(rest, S)
    BY <1>9 DEF RecoverPass
  <2>3. rest \in [Url -> Nat] /\ \A u \in Url : rest[u] \in {0, pend[u]}
    BY <1>1
  <2> HIDE DEF rest
  <2>4. CASE pend' = rest
    BY <1>3, <2>1, <2>3, <2>4
  <2>5. CASE \E S : pend' = MissingPromoted(rest, S)
    BY <1>3, <1>4, <2>1, <2>3, <2>5
  <2> QED BY <2>2, <2>4, <2>5
<1>10. ASSUME NEW lag, Crash \/ CrashMidFlush(lag) \/ FlushRaises(lag)
       PROVE  PendingInv'
  <2>1. /\ \A u \in Url : pend'[u] = 0
        /\ \E tables : posts' = tables.posts /\ saved' = tables
    BY <1>10, EndTables DEF Die
  <2>2. posts' = saved.posts \/ posts' = posts
    BY <1>10, EndTables DEF Die, CommittedUpTo
  <2>3. posts' = saved'.posts
    BY <2>1
  <2> QED BY <1>1, <2>1, <2>2, <2>3 DEF PendingInv, PendingIsCurrent, Unpaid
<1> QED BY <1>2, <1>5, <1>6, <1>7, <1>8, <1>9, <1>10 DEF Next, IndexerStep

(* A pending promoted amount is the balance worth_posts has, whatever payments,
   deletions, crashes and partial flushes come between. *)
THEOREM PendingAlwaysCurrent == Spec => []PendingIsCurrent
<1>1. Init => PendingInv
  <2> SUFFICES ASSUME Init PROVE PendingInv
    OBVIOUS
  <2>1. TypeOK
    BY InitType
  <2>2. /\ \A u \in Url : pend[u] = 0 /\ posts[u].promoted = 0
        /\ saved.posts = posts
    BY DEF Init, NoPost
  <2> QED BY <2>1, <2>2 DEF PendingInv, PendingIsCurrent, Unpaid
<1>2. PendingInv /\ [Next]_vars => PendingInv'
  BY NextPending
<1>3. PendingInv => PendingIsCurrent
  BY DEF PendingInv
<1> QED BY <1>1, <1>2, <1>3, PTL DEF Spec

-----------------------------------------------------------------------------
(* No check of the flush fails, and nothing is lost before a crash. What the
   indexer has yet to commit tells how the posts of the last commit become those
   of the open transaction, and these those of the node: each operation was
   valid when it was made. *)

Views == [made : SUBSET Url, live : SUBSET Url, parent : [Url -> Url \cup {NoParent}]]

PostsView == [made   |-> {u \in Url : Exists(u)},
              live   |-> {u \in Url : Live(u)},
              parent |-> [u \in Url |-> posts[u].parent]]

SavedView == [made   |-> {u \in Url : saved.posts[u].id # 0},
              live   |-> {u \in Url : saved.posts[u].id # 0 /\ ~saved.posts[u].deleted},
              parent |-> [u \in Url |-> saved.posts[u].parent]]

NodeView == [made   |-> {u \in Url : node[u].ver > 0},
             live   |-> {u \in Url : node[u].live},
             parent |-> [u \in Url |-> node[u].parent]]

(* The posts hang under live ones, where the node has them for ever. *)
Sound(V) ==
    /\ V.live \subseteq V.made
    /\ \A u \in V.live : V.parent[u] # NoParent => V.parent[u] \in V.live
    /\ \A u \in V.made :
          V.parent[u] # u /\ node[u].ver > 0 /\ V.parent[u] = node[u].parent

Tells(op, V, W) ==
    \/ /\ op.kind = "comment"
       /\ W = [made   |-> V.made \cup {op.url},
               live   |-> V.live \cup {op.url},
               parent |-> [V.parent EXCEPT ![op.url] = op.parent]]
    \/ /\ op.kind = "delete" /\ op.url \in V.live
       /\ W = [made |-> V.made, live |-> V.live \ {op.url}, parent |-> V.parent]
    \/ op.kind \in {"vote", "pay", "payout"} /\ op.url \in V.live /\ W = V
    \/ op.kind = "block" /\ W = V

Told ==
    \E h \in [0..Len(feed) -> Views] :
        /\ h[0] = SavedView /\ h[at] = PostsView /\ h[Len(feed)] = NodeView
        /\ \A i \in 0..Len(feed) : Sound(h[i])
        /\ \A i \in 1..Len(feed) : Tells(feed[i], h[i - 1], h[i])

(* The chain lets a comment be made again under its parent only, and payments
   name live posts. *)
PlainChain == "pay_deleted" \notin Kinds /\ "reparent" \notin Kinds

(* What is made stays made, where it is. *)
Stays ==
    \A u \in Url :
        /\ node'[u].ver >= node[u].ver
        /\ node[u].ver > 0 => node'[u].parent = node[u].parent

LEMMA StaysSound ==
    ASSUME ChainTypeOK, ChainTypeOK', Stays, NEW V \in Views, Sound(V)
    PROVE  Sound(V)'
<1>1. \A u \in Url : node[u].ver \in Nat /\ node'[u].ver \in Nat
  BY DEF ChainTypeOK, NodePost
<1>2. V.made \subseteq Url
  BY DEF Views
<1> QED BY <1>1, <1>2 DEF Sound, Stays

(* An operation of the chain is valid for what the node has. *)
LEMMA ChainTells ==
    ASSUME ChainTypeOK, PlainChain, ChainNext, Sound(NodeView)
    PROVE  \E op \in Ops \cup {BlockMark} :
              /\ feed' = Append(feed, op)
              /\ Tells(op, NodeView, NodeView') /\ Sound(NodeView)' /\ Stays
<1>1. /\ node \in [Url -> NodePost]
      /\ \A u \in Url : /\ node[u].ver \in Nat /\ node[u].live \in BOOLEAN
                        /\ node[u].parent \in Url \cup {NoParent}
                        /\ node[u] = [live |-> node[u].live, ver |-> node[u].ver,
                                      parent |-> node[u].parent, paid |-> node[u].paid,
                                      late |-> node[u].late, voted |-> node[u].voted]
  BY DEF ChainTypeOK, NodePost
<1>2. /\ \A u \in Url : node[u].live => node[u].ver > 0
      /\ \A u \in Url : node[u].live /\ node[u].parent # NoParent =>
            node[u].parent \in Url /\ node[node[u].parent].live
      /\ \A u \in Url : node[u].ver > 0 => node[u].parent # u
  BY <1>1 DEF Sound, NodeView
<1>3. ASSUME \A u \in Url : node'[u].live => node'[u].ver > 0,
             \A u \in Url : node'[u].live /\ node'[u].parent # NoParent =>
                node'[u].parent \in Url /\ node'[node'[u].parent].live,
             \A u \in Url : node'[u].ver > 0 => node'[u].parent # u
      PROVE  Sound(NodeView)'
  BY <1>3 DEF Sound, NodeView
<1>4. CASE ChainBlock
  <2>1. feed' = Append(feed, BlockMark) /\ node' = node /\ NodeView' = NodeView
    BY <1>4 DEF ChainBlock, NodeView
  <2>2. Tells(BlockMark, NodeView, NodeView')
    BY <2>1 DEF Tells, BlockMark
  <2>3. Stays /\ Sound(NodeView)'
    BY <1>1, <1>2, <1>3, <2>1 DEF Stays
  <2> QED BY <2>1, <2>2, <2>3
<1>5. CASE ChainOp
  <2>1. PICK u \in Url :
        \/ \E p \in Url \cup {NoParent} : ChainCreate(u, p)
        \/ ChainEdit(u) \/ ChainDelete(u) \/ ChainVote(u)
        \/ ChainPay(u) \/ ChainPayout(u)
    BY <1>5 DEF ChainOp
  <2>2. ASSUME NEW p \in Url \cup {NoParent},
               node'[u].live /\ node'[u].ver = node[u].ver + 1 /\ node'[u].parent = p,
               \A v \in Url \ {u} : node'[v] = node[v],
               node[u].ver > 0 => p = node[u].parent,
               p # NoParent => node[p].live, p # u,
               feed' = Append(feed, [kind |-> "comment", url |-> u, parent |-> p])
        PROVE  \E op \in Ops \cup {BlockMark} :
                 /\ feed' = Append(feed, op)
                 /\ Tells(op, NodeView, NodeView') /\ Sound(NodeView)' /\ Stays
    <3>1. Stays
      BY <1>1, <2>2 DEF Stays
    <3>2. Sound(NodeView)'
      <4>1. ASSUME NEW v \in Url, node'[v].live PROVE node'[v].ver > 0
        BY <1>1, <1>2, <2>2, <4>1
      <4>2. ASSUME NEW v \in Url, node'[v].ver > 0 PROVE node'[v].parent # v
        BY <1>1, <1>2, <2>2, <4>2
      <4>3. ASSUME NEW v \in Url, node'[v].live, node'[v].parent # NoParent
            PROVE  node'[v].parent \in Url /\ node'[node'[v].parent].live
        <5>1. CASE v = u
          BY <1>1, <2>2, <4>3, <5>1
        <5>2. CASE v # u
          <6>1. node'[v] = node[v]
            BY <2>2, <5>2
          <6>2. node[v].parent \in Url /\ node[node[v].parent].live
            BY <1>2, <4>3, <6>1
          <6>3. node[v].parent = u \/ node'[node[v].parent] = node[node[v].parent]
            BY <2>2, <6>2
          <6> QED BY <2>2, <6>1, <6>2, <6>3
        <5> QED BY <5>1, <5>2
      <4> QED BY <1>3, <4>1, <4>2, <4>3
    <3> DEFINE op == [kind |-> "comment", url |-> u, parent |-> p]
    <3>3. {v \in Url : node'[v].ver > 0} = {v \in Url : node[v].ver > 0} \cup {u}
      BY <1>1, <2>2
    <3>4. {v \in Url : node'[v].live} = {v \in Url : node[v].live} \cup {u}
      BY <2>2
    <3>5. [v \in Url |-> node'[v].parent] = [[v \in Url |-> node[v].parent] EXCEPT ![u] = p]
      BY <2>2
    <3>6. Tells(op, NodeView, NodeView')
      BY <3>3, <3>4, <3>5 DEF Tells, NodeView
    <3>7. op \in Ops
      BY DEF Ops
    <3> QED BY <2>2, <3>1, <3>2, <3>6, <3>7
  <2>3. ASSUME NEW p \in Url \cup {NoParent}, ChainCreate(u, p)
        PROVE  \E op \in Ops \cup {BlockMark} :
                 /\ feed' = Append(feed, op)
                 /\ Tells(op, NodeView, NodeView') /\ Sound(NodeView)' /\ Stays
    <3>1. /\ ~node[u].live /\ (p # NoParent => node[p].live)
          /\ feed' = Append(feed, [kind |-> "comment", url |-> u, parent |-> p])
          /\ node[u].ver > 0 => p = node[u].parent
      BY <2>3 DEF ChainCreate, Emit, PlainChain
    <3>2. /\ node'[u].live /\ node'[u].ver = node[u].ver + 1 /\ node'[u].parent = p
          /\ \A v \in Url \ {u} : node'[v] = node[v]
      BY <1>1, <2>3 DEF ChainCreate
    <3>3. p # u
      BY <3>1, NoParentAssumption
    <3> QED BY <2>2, <3>1, <3>2, <3>3
  <2>4. CASE ChainEdit(u)
    <3> DEFINE p == node[u].parent
    <3>1. /\ node[u].live /\ p \in Url \cup {NoParent}
          /\ feed' = Append(feed, [kind |-> "comment", url |-> u, parent |-> p])
      BY <1>1, <2>4 DEF ChainEdit, Emit
    <3>2. /\ node'[u].live /\ node'[u].ver = node[u].ver + 1 /\ node'[u].parent = p
          /\ \A v \in Url \ {u} : node'[v] = node[v]
      BY <1>1, <2>4 DEF ChainEdit
    <3>3. p # u /\ (p # NoParent => node[p].live)
      BY <1>2, <3>1
    <3> HIDE DEF p
    <3>4. node[u].ver > 0 => p = node[u].parent
      BY DEF p
    <3> QED BY <2>2, <3>1, <3>2, <3>3, <3>4
  <2>5. CASE ChainDelete(u)
    <3> DEFINE op == [kind |-> "delete", url |-> u]
    <3>1. /\ node[u].live /\ feed' = Append(feed, op) /\ op \in Ops
          /\ \A v \in Url : node[v].live => node[v].parent # u
      BY <2>5 DEF ChainDelete, Emit, Ops
    <3>2. /\ ~node'[u].live /\ node'[u].ver = node[u].ver /\ node'[u].parent = node[u].parent
          /\ \A v \in Url \ {u} : node'[v] = node[v]
      BY <1>1, <2>5 DEF ChainDelete
    <3>3. Stays
      BY <1>1, <3>2 DEF Stays
    <3>6. Sound(NodeView)'
      <4>1. ASSUME NEW v \in Url, node'[v].live PROVE node'[v].ver > 0
        BY <1>1, <1>2, <3>2, <4>1
      <4>2. ASSUME NEW v \in Url, node'[v].ver > 0 PROVE node'[v].parent # v
        BY <1>1, <1>2, <3>2, <4>2
      <4>3. ASSUME NEW v \in Url, node'[v].live, node'[v].parent # NoParent
            PROVE  node'[v].parent \in Url /\ node'[node'[v].parent].live
        <5>1. v # u
          BY <3>2, <4>3
        <5> QED BY <1>1, <1>2, <3>1, <3>2, <4>3, <5>1
      <4> QED BY <1>3, <4>1, <4>2, <4>3
    <3>4. /\ {v \in Url : node'[v].ver > 0} = {v \in Url : node[v].ver > 0}
          /\ {v \in Url : node'[v].live} = {v \in Url : node[v].live} \ {u}
          /\ [v \in Url |-> node'[v].parent] = [v \in Url |-> node[v].parent]
      BY <1>1, <3>2
    <3>5. Tells(op, NodeView, NodeView')
      BY <3>1, <3>4 DEF Tells, NodeView
    <3> HIDE DEF op
    <3> QED BY <3>1, <3>3, <3>5, <3>6
  <2>6. CASE ChainVote(u) \/ ChainPay(u) \/ ChainPayout(u)
    <3>1. PICK kind \in {"vote", "pay", "payout"} :
            node[u].live /\ feed' = Append(feed, [kind |-> kind, url |-> u])
      BY <2>6 DEF ChainVote, ChainPay, ChainPayout, Emit, PlainChain
    <3> DEFINE op == [kind |-> kind, url |-> u]
    <3>2. /\ \A v \in Url : /\ node'[v].live = node[v].live /\ node'[v].ver = node[v].ver
                            /\ node'[v].parent = node[v].parent
      BY <1>1, <2>6 DEF ChainVote, ChainPay, ChainPayout
    <3>3. Stays /\ Sound(NodeView)'
      BY <1>1, <1>2, <1>3, <3>2 DEF Stays
    <3>4. NodeView' = NodeView
      BY <3>2 DEF NodeView
    <3>5. Tells(op, NodeView, NodeView') /\ op \in Ops
      BY <3>1, <3>4 DEF Tells, NodeView, Ops
    <3> HIDE DEF op
    <3>6. feed' = Append(feed, op)
      BY <3>1 DEF op
    <3> QED BY <3>3, <3>5, <3>6
  <2> QED BY <2>1, <2>3, <2>4, <2>5, <2>6
<1> QED BY <1>4, <1>5 DEF ChainNext

(* Told gives the posts the parents the node names, and live ones to live posts. *)
LEMMA ToldFacts ==
    ASSUME TypeOK, Told, NEW u \in Url, Exists(u)
    PROVE  /\ posts[u].parent = node[u].parent /\ posts[u].parent # u
           /\ Live(u) /\ posts[u].parent # NoParent =>
                 posts[u].parent \in Url /\ Live(posts[u].parent)
<1>1. Sound(PostsView)
  BY FeedType DEF Told
<1> QED BY <1>1 DEF Sound, PostsView

(* What the next operation tells, and that what is told goes on past it. *)
LEMMA ToldNext ==
    ASSUME TypeOK, Told, at < Len(feed)
    PROVE  \E W \in Views :
              /\ Tells(feed[at + 1], PostsView, W) /\ Sound(W)
              /\ (at' = at + 1 /\ PostsView' = W /\ UNCHANGED <<node, feed, saved>>) => Told'
<1>1. /\ at \in Nat /\ Len(feed) \in Nat /\ at + 1 \in 0..Len(feed)
      /\ at + 1 \in 1..Len(feed) /\ (at + 1) - 1 = at
  BY FeedType
<1>2. PICK h \in [0..Len(feed) -> Views] :
        /\ h[0] = SavedView /\ h[at] = PostsView /\ h[Len(feed)] = NodeView
        /\ \A i \in 0..Len(feed) : Sound(h[i])
        /\ \A i \in 1..Len(feed) : Tells(feed[i], h[i - 1], h[i])
  BY DEF Told
<1>3. h[at + 1] \in Views /\ Tells(feed[at + 1], PostsView, h[at + 1]) /\ Sound(h[at + 1])
  <2>1. Tells(feed[at + 1], h[(at + 1) - 1], h[at + 1])
    BY <1>1, <1>2
  <2> QED BY <1>1, <1>2, <2>1
<1>4. ASSUME at' = at + 1, PostsView' = h[at + 1], UNCHANGED <<node, feed, saved>>
      PROVE  Told'
  <2>1. NodeView' = NodeView /\ SavedView' = SavedView
    BY <1>4 DEF NodeView, SavedView
  <2>2. \A i \in 0..Len(feed) : Sound(h[i])'
    BY <1>2, <1>4 DEF Sound
  <2> QED BY <1>2, <1>4, <2>1, <2>2 DEF Told
<1> QED BY <1>3, <1>4

(* A step of the chain adds its operation to what is told. *)
LEMMA ToldChain ==
    ASSUME TypeOK, PlainChain, Told, ChainStep, ChainTypeOK'
    PROVE  Told'
<1>1. /\ ChainTypeOK /\ Len(feed) \in Nat /\ at \in 0..Len(feed)
      /\ feed \in Seq(Ops \cup {BlockMark})
  <2>1. Len(feed) \in Nat /\ at \in 0..Len(feed) /\ feed \in Seq(Ops \cup {BlockMark})
    BY FeedType
  <2>2. ChainTypeOK
    BY DEF TypeOK
  <2> QED BY <2>1, <2>2
<1>2. PICK h \in [0..Len(feed) -> Views] :
        /\ h[0] = SavedView /\ h[at] = PostsView /\ h[Len(feed)] = NodeView
        /\ \A i \in 0..Len(feed) : Sound(h[i])
        /\ \A i \in 1..Len(feed) : Tells(feed[i], h[i - 1], h[i])
  BY DEF Told
<1>3. Sound(NodeView)
  BY <1>1, <1>2
<1>4. PICK op \in Ops \cup {BlockMark} :
        feed' = Append(feed, op) /\ Tells(op, NodeView, NodeView') /\ Sound(NodeView)' /\ Stays
  BY <1>1, <1>3, ChainTells DEF ChainStep
<1>5. PICK n : n = Len(feed)
  OBVIOUS
<1>6. PICK k : k = [i \in 0..(n + 1) |-> IF i = n + 1 THEN NodeView' ELSE h[i]]
  OBVIOUS
<1>7. /\ Len(feed') = n + 1 /\ feed'[n + 1] = op /\ n \in Nat
      /\ \A i \in 1..n : feed'[i] = feed[i]
  BY <1>1, <1>4, <1>5
<1>8. NodeView' \in Views
  BY DEF ChainTypeOK, NodePost, NodeView, Views
<1>9. /\ \A i \in 0..n : i \in 0..(n + 1) /\ i # n + 1
      /\ \A i \in 0..(n + 1) : i # n + 1 => i \in 0..n
      /\ n + 1 \in 0..(n + 1)
  BY <1>7
<1>10. /\ k[n + 1] = NodeView' /\ \A i \in 0..n : k[i] = h[i]
       /\ k \in [0..(n + 1) -> Views]
  BY <1>2, <1>5, <1>6, <1>8, <1>9
<1>11. at' = at /\ PostsView' = k[at] /\ SavedView' = k[0]
  <2>1. at \in 0..n /\ 0 \in 0..n
    BY <1>1, <1>5
  <2>2. PostsView' = PostsView /\ SavedView' = SavedView /\ at' = at
    BY DEF ChainStep, dbVars, PostsView, SavedView, Exists, Live
  <2> QED BY <1>2, <1>10, <2>1, <2>2
<1>12. ASSUME NEW i \in 0..(n + 1) PROVE Sound(k[i])'
  <2>1. CASE i = n + 1
    BY ZenonT(30), <1>4, <1>10, <2>1 DEF Sound, NodeView
  <2>2. CASE i # n + 1
    <3>1. i \in 0..n /\ k[i] = h[i] /\ h[i] \in Views /\ Sound(h[i])
      BY <1>2, <1>5, <1>9, <1>10, <2>2
    <3>2. \A V \in Views : Sound(V) => Sound(V)'
      BY <1>1, <1>4, StaysSound
    <3> QED BY <3>1, <3>2 DEF Sound
  <2> QED BY <2>1, <2>2
<1>13. ASSUME NEW i \in 1..(n + 1) PROVE Tells(feed'[i], k[i - 1], k[i])
  <2>1. i - 1 \in 0..n
    BY <1>7
  <2>2. CASE i = n + 1
    <3>1. i - 1 = n
      BY <1>7, <2>2
    <3> QED BY <1>2, <1>4, <1>5, <1>7, <1>10, <2>1, <2>2, <3>1
  <2>3. CASE i # n + 1
    <3>1. i \in 1..n /\ i \in 0..n
      BY <1>7, <2>3
    <3> QED BY <1>2, <1>5, <1>7, <1>10, <2>1, <3>1
  <2> QED BY <2>2, <2>3
<1> QED BY <1>7, <1>10, <1>11, <1>12, <1>13 DEF Told

(* Passing a block mark tells nothing; committing forgets what is passed. *)
LEMMA ToldCommit ==
    ASSUME TypeOK, Told, AtBlockEnd, feed' = SubSeq(feed, at + 2, Len(feed)), at' = 0,
           UNCHANGED <<node, posts>>, saved'.posts = posts
    PROVE  Told'
<1>1. /\ at \in Nat /\ Len(feed) \in Nat /\ at < Len(feed) /\ feed[at + 1] = BlockMark
      /\ feed \in Seq(Ops \cup {BlockMark})
  BY FeedType DEF AtBlockEnd
<1>2. PICK h \in [0..Len(feed) -> Views] :
        /\ h[0] = SavedView /\ h[at] = PostsView /\ h[Len(feed)] = NodeView
        /\ \A i \in 0..Len(feed) : Sound(h[i])
        /\ \A i \in 1..Len(feed) : Tells(feed[i], h[i - 1], h[i])
  BY DEF Told
<1>3. PICK n : n = Len(feed) - (at + 1)
  OBVIOUS
<1>12. n \in Nat /\ n + (at + 1) = Len(feed)
  BY <1>1, <1>3
<1>4. PICK k : k = [i \in 0..n |-> h[i + (at + 1)]]
  OBVIOUS
<1>5. h[at + 1] = PostsView
  <2>1. Tells(feed[at + 1], h[(at + 1) - 1], h[at + 1]) /\ (at + 1) - 1 = at
    BY <1>1, <1>2
  <2> QED BY <1>1, <1>2, <2>1 DEF Tells, BlockMark
<1>6. /\ Len(feed') = n /\ n \in Nat
      /\ \A i \in 1..n : feed'[i] = feed[i + (at + 1)]
  <2>1. n \in Nat /\ at + 2 \in 1..(Len(feed) + 1)
    BY <1>1, <1>3
  <2>2. feed' = SubSeq(feed, at + 2, Len(feed)) /\ Len(feed) - (at + 2) + 1 = n
    BY <1>1, <1>3
  <2>3. Len(feed') = n
    BY <1>1, <2>1, <2>2
  <2>4. ASSUME NEW i \in 1..n PROVE feed'[i] = feed[i + (at + 1)]
    BY <1>1, <2>1, <2>2, <2>4
  <2> QED BY <2>1, <2>3, <2>4
<1>7. \A i \in 0..n : i + (at + 1) \in 0..Len(feed) /\ k[i] = h[i + (at + 1)]
  BY <1>1, <1>3, <1>4
<1>8. k \in [0..n -> Views] /\ k[0] = PostsView /\ k[n] = NodeView
  <2>1. 0 \in 0..n /\ n \in 0..n /\ n + (at + 1) = Len(feed)
    BY <1>1, <1>12
  <2> QED BY <1>1, <1>2, <1>4, <1>5, <1>7, <2>1
<1>9. PostsView' = PostsView /\ SavedView' = PostsView /\ NodeView' = NodeView
  BY DEF PostsView, SavedView, NodeView, Exists, Live
<1>10. \A i \in 0..n : Sound(k[i])'
  <2>1. \A i \in 0..n : Sound(k[i])
    BY <1>2, <1>7
  <2> QED BY <2>1 DEF Sound
<1>11. ASSUME NEW i \in 1..n PROVE Tells(feed'[i], k[i - 1], k[i])
  <2>1. /\ i \in 0..n /\ i - 1 \in 0..n /\ i + (at + 1) \in 1..Len(feed)
        /\ (i + (at + 1)) - 1 = (i - 1) + (at + 1)
    BY <1>1, <1>12
  <2>2. Tells(feed[i + (at + 1)], h[(i + (at + 1)) - 1], h[i + (at + 1)])
    BY <1>2, <2>1
  <2> QED BY <1>6, <1>7, <2>1, <2>2
<1> QED BY <1>6, <1>8, <1>9, <1>10, <1>11 DEF Told

(* Between blocks what is told starts with the posts, and so does what a crash
   falls back to. *)
LEMMA ToldStart ==
    ASSUME Told, UNCHANGED <<node, feed>>, at' = 0, saved'.posts = posts',
           \/ posts' = saved.posts
           \/ posts' = posts /\ at = 0
    PROVE  Told'
<1>1. PICK h \in [0..Len(feed) -> Views] :
        /\ h[0] = SavedView /\ h[at] = PostsView /\ h[Len(feed)] = NodeView
        /\ \A i \in 0..Len(feed) : Sound(h[i])
        /\ \A i \in 1..Len(feed) : Tells(feed[i], h[i - 1], h[i])
  BY DEF Told
<1>2. PostsView' = SavedView' /\ NodeView' = NodeView
  BY DEF PostsView, SavedView, NodeView, Exists, Live
<1>3. PostsView' = h[0]
  BY <1>1 DEF PostsView, SavedView, Exists, Live
<1>4. \A i \in 0..Len(feed) : Sound(h[i])'
  BY <1>1 DEF Sound
<1> QED BY <1>1, <1>2, <1>3, <1>4 DEF Told

(* A step that leaves the chain and the posts where they are tells the same. *)
LEMMA ToldSame ==
    ASSUME Told, UNCHANGED <<node, feed, at, posts, saved>>
    PROVE  Told'
<1>1. PICK h \in [0..Len(feed) -> Views] :
        /\ h[0] = SavedView /\ h[at] = PostsView /\ h[Len(feed)] = NodeView
        /\ \A i \in 0..Len(feed) : Sound(h[i])
        /\ \A i \in 1..Len(feed) : Tells(feed[i], h[i - 1], h[i])
  BY DEF Told
<1>2. PostsView' = PostsView /\ SavedView' = SavedView /\ NodeView' = NodeView
  BY DEF PostsView, SavedView, NodeView, Exists, Live
<1>3. \A i \in 0..Len(feed) : Sound(h[i])'
  BY <1>1 DEF Sound
<1> QED BY <1>1, <1>2, <1>3 DEF Told

(* What is queued has a live post, whose id the flush can find. A process that
   starts only queues insertions, in the order of the ids. Until the first crash
   there is nothing to recover, and what the indexer knows is in the cache or on
   its way there. *)
QueuedLive == \A u \in Url : queue[u] # CLEAN => Live(u) /\ u \in ids \cup noids

NoidsExist == \A u \in noids : Exists(u)

Restarting ==
    /\ pc = "down" => \A u \in Url : queue[u] = CLEAN
    /\ pc \in {"down", "recover"} =>
          noids = {} /\ \A u \in Url : queue[u] \in {INSERT, CLEAN}
    /\ pc = "recover" =>
          \A u \in Missing(lastId), v \in Queued(queue) :
             posts[u].id < posts[v].id => u \in Queued(queue)

BetweenBlocks == pc \notin {"fast", "live"} => at = 0

Unstarted == crashes = 0 /\ pc \in {"down", "recover"} => \A u \in Url : ~Exists(u)

NoneLost ==
    crashes = 0 => \A u \in Url : Live(u) => u \in DOMAIN cache \/ queue[u] = INSERT

KeptInv ==
    /\ CacheInv
    /\ Told
    /\ QueuedLive
    /\ NoidsExist
    /\ Restarting
    /\ BetweenBlocks
    /\ Unstarted
    /\ NoneLost
    /\ NoFault

(* A mark makes a url queued and leaves the others as they are. *)
LEMMA DirtyMarks ==
    ASSUME NEW q \in [Url -> Levels \cup {CLEAN}], NEW u \in Url, NEW level \in Levels
    PROVE  \A v \in Url : Dirty(q, u, level)[v] # CLEAN => v = u \/ q[v] # CLEAN
BY DEF Dirty, Levels, CLEAN, INSERT, RECOUNT

(* The operation a handler takes up, and what it tells. *)
LEMMA Handled ==
    ASSUME KeptInv, NEW u \in Url, NEW kind,
           at < Len(feed), feed[at + 1].kind = kind, feed[at + 1].url = u,
           kind \in {"comment", "delete", "vote", "pay", "payout"}
    PROVE  /\ kind # "comment" => Live(u)
           /\ kind = "comment" =>
                LET p == feed[at + 1].parent
                IN /\ p \in Url \cup {NoParent} /\ p # u
                   /\ p # NoParent => p \in Url /\ Live(p)
                   /\ Exists(u) => p = posts[u].parent
           /\ (at' = at + 1 /\ UNCHANGED <<node, feed, saved>> /\
               PostsView' = [made |-> IF kind = "comment" THEN PostsView.made \cup {u}
                                      ELSE PostsView.made,
                             live |-> IF kind = "comment" THEN PostsView.live \cup {u}
                                      ELSE IF kind = "delete" THEN PostsView.live \ {u}
                                      ELSE PostsView.live,
                             parent |-> IF kind = "comment"
                                        THEN [PostsView.parent EXCEPT ![u] = feed[at + 1].parent]
                                        ELSE PostsView.parent]) => Told'
<1>1. TypeOK /\ Told
  BY DEF KeptInv, CacheInv
<1>2. PICK W \in Views :
        /\ Tells(feed[at + 1], PostsView, W) /\ Sound(W)
        /\ (at' = at + 1 /\ PostsView' = W /\ UNCHANGED <<node, feed, saved>>) => Told'
  BY <1>1, ToldNext
<1>3. Sound(PostsView)
  BY <1>1, FeedType DEF Told
<1>4. CASE kind = "comment"
  <2> DEFINE p == feed[at + 1].parent
  <2>1. W = [made |-> PostsView.made \cup {u}, live |-> PostsView.live \cup {u},
             parent |-> [PostsView.parent EXCEPT ![u] = p]]
    BY <1>2, <1>4 DEF Tells
  <2>2. u \in W.made /\ u \in W.live /\ W.parent[u] = p /\ W.parent \in [Url -> Url \cup {NoParent}]
    BY <2>1 DEF PostsView, Views
  <2>3. p \in Url \cup {NoParent} /\ p # u /\ (p # NoParent => p \in W.live)
        /\ p = node[u].parent
    BY <1>2, <2>2 DEF Sound
  <2>4. p # NoParent => p \in Url /\ Live(p)
    BY <2>1, <2>3 DEF PostsView
  <2>5. Exists(u) => p = posts[u].parent
    BY <1>1, <2>3, ToldFacts
  <2> QED BY <1>2, <1>4, <2>1, <2>3, <2>4, <2>5
<1>5. CASE kind = "delete"
  <2>1. /\ u \in PostsView.live
        /\ W = [made |-> PostsView.made, live |-> PostsView.live \ {u}, parent |-> PostsView.parent]
    BY <1>2, <1>5 DEF Tells
  <2>2. Live(u)
    BY <2>1 DEF PostsView
  <2> QED BY <1>2, <1>5, <2>1, <2>2
<1>6. CASE kind \in {"vote", "pay", "payout"}
  <2>1. /\ u \in PostsView.live /\ W = PostsView
    BY <1>2, <1>6 DEF Tells
  <2>2. Live(u)
    BY <2>1 DEF PostsView
  <2>3. PostsView = [made |-> PostsView.made, live |-> PostsView.live, parent |-> PostsView.parent]
    BY DEF PostsView
  <2> QED BY <1>2, <1>6, <2>1, <2>2, <2>3
<1> QED BY <1>4, <1>5, <1>6

(* The handlers: what they mark is live, and no mark takes an insertion away. *)
LEMMA ProcessOpKept ==
    ASSUME KeptInv, ProcessOp
    PROVE  KeptInv'
<1>1. /\ CacheInv /\ CacheInv' /\ TypeOK
      /\ posts \in [Url -> Post] /\ queue \in [Url -> Levels \cup {CLEAN}]
      /\ ids \subseteq Url /\ noids \subseteq Url /\ nextId # 0
      /\ \A v \in Url : posts[v].id \in Nat /\ posts[v].deleted \in BOOLEAN
  BY ProcessOpInv DEF KeptInv, CacheInv, TypeOK, Post
<1>2. PICK u \in Url :
        \/ InsertPost(u) \/ UpdatePost(u) \/ UndeleteNew(u) \/ UndeleteCached(u)
        \/ DeletePost(u) \/ VotePost(u) \/ PayPost(u) \/ PayUnknown(u)
        \/ PassPayout(u)
  BY DEF ProcessOp
<1>3. /\ fault' = fault /\ pc' = pc /\ pc \in {"fast", "live"} /\ at < Len(feed)
      /\ at' = at + 1 /\ UNCHANGED <<node, feed, saved, crashes>> /\ feed[at + 1].url = u
  BY <1>2 DEF Processing, chainVars, InsertPost, UpdatePost, UndeleteNew, UndeleteCached,
              DeletePost, VotePost, PayPost, PayUnknown, PassPayout
<1>4. NoFault' /\ Unstarted' /\ Restarting' /\ BetweenBlocks'
  BY <1>3 DEF KeptInv, NoFault, Unstarted, Restarting, BetweenBlocks
<1>5. /\ INSERT \in Levels /\ UPDATE \in Levels /\ UPVOTE \in Levels /\ RECOUNT \in Levels
      /\ INSERT # CLEAN
  BY DEF Levels, INSERT, UPDATE, UPVOTE, RECOUNT, CLEAN
<1>6. /\ \A v \in Url : queue[v] # CLEAN => Live(v) /\ v \in ids \cup noids
      /\ \A v \in noids : Exists(v)
      /\ crashes = 0 => \A v \in Url : Live(v) => v \in DOMAIN cache \/ queue[v] = INSERT
  BY DEF KeptInv, QueuedLive, NoidsExist, NoneLost
<1>7. SUFFICES Told' /\ QueuedLive' /\ NoidsExist' /\ NoneLost'
  BY <1>1, <1>4 DEF KeptInv
<1>8. ASSUME NEW level \in Levels, queue' = Dirty(queue, u, level), Live(u)',
             \A v \in Url : Live(v) => Live(v)',
             \A v \in Url \ {u} : Live(v)' => Live(v),
             \A v \in Url : Exists(v) => Exists(v)',
             DOMAIN cache \subseteq DOMAIN cache',
             Live(u) \/ u \in DOMAIN cache' \/ level = INSERT,
             \/ ids' = ids \cup {u} /\ noids' = noids
             \/ noids' = noids \cup {u} /\ ids' = ids
      PROVE  QueuedLive' /\ NoidsExist' /\ NoneLost'
  <2>1. \A v \in Url : queue'[v] # CLEAN => v = u \/ queue[v] # CLEAN
    BY <1>1, <1>8, DirtyMarks
  <2>2. QueuedLive'
    BY <1>6, <1>8, <2>1 DEF QueuedLive
  <2>3. NoidsExist'
    <3>1. Exists(u)'
      BY <1>8 DEF Live
    <3> QED BY <1>6, <1>8, <1>1, <3>1 DEF NoidsExist
  <2>4. /\ \A v \in Url : queue[v] = INSERT => queue'[v] = INSERT
        /\ level = INSERT => queue'[u] = INSERT
    BY <1>1, <1>8, DirtyInserts
  <2>5. NoneLost'
    BY <1>3, <1>6, <1>8, <2>4 DEF NoneLost
  <2> QED BY <2>2, <2>3, <2>5
<1>9. CASE InsertPost(u)
  <2> DEFINE p == feed[at + 1].parent
             q == Dirty(queue, u, INSERT)
             row == [id |-> nextId, deleted |-> FALSE, promoted |-> 0, parent |-> p]
  <2>1. /\ feed[at + 1].kind = "comment" /\ ~Exists(u)
        /\ posts' = [posts EXCEPT ![u] = row]
        /\ queue' = (IF p = NoParent THEN q ELSE Dirty(q, p, RECOUNT))
        /\ ids' = ids \cup ({u, p} \ {NoParent}) /\ noids' = noids /\ cache' = cache
    BY <1>9 DEF InsertPost, Processing
  <2>2. p \in Url \cup {NoParent} /\ p # u /\ (p # NoParent => p \in Url /\ Live(p))
    BY <1>3, <2>1, Handled
  <2> HIDE DEF p
  <2>3. /\ \A v \in Url \ {u} : posts'[v] = posts[v]
        /\ posts'[u].id = nextId /\ ~posts'[u].deleted /\ posts'[u].parent = p
    BY <1>1, <2>1
  <2>4. Live(u)' /\ Exists(u)' /\ \A v \in Url \ {u} : (Live(v)' <=> Live(v)) /\ (Exists(v)' <=> Exists(v))
    BY <1>1, <2>3 DEF Live, Exists
  <2>5. Told'
    <3>1. /\ {v \in Url : Exists(v)'} = {v \in Url : Exists(v)} \cup {u}
          /\ {v \in Url : Live(v)'} = {v \in Url : Live(v)} \cup {u}
      BY <2>4
    <3>2. [v \in Url |-> posts'[v].parent] = [[v \in Url |-> posts[v].parent] EXCEPT ![u] = p]
      BY <2>3
    <3> QED BY <1>3, <2>1, <3>1, <3>2, Handled DEF PostsView, p
  <2>6. /\ q \in [Url -> Levels \cup {CLEAN}]
        /\ \A v \in Url : q[v] # CLEAN => v = u \/ queue[v] # CLEAN
        /\ q[u] = INSERT /\ \A v \in Url : queue[v] = INSERT => q[v] = INSERT
    BY <1>1, <1>5, DirtyType, DirtyMarks, DirtyInserts
  <2> HIDE DEF q
  <2>7. \A v \in Url : queue'[v] # CLEAN => v = u \/ v = p \/ queue[v] # CLEAN
    BY <1>5, <2>1, <2>2, <2>6, DirtyMarks
  <2>8. queue'[u] = INSERT /\ \A v \in Url : queue[v] = INSERT => queue'[v] = INSERT
    BY <1>5, <2>1, <2>2, <2>6, DirtyInserts
  <2>9. QueuedLive'
    <3> SUFFICES ASSUME NEW v \in Url, queue'[v] # CLEAN
                 PROVE  Live(v)' /\ v \in ids' \cup noids'
      BY DEF QueuedLive
    <3>1. v # NoParent /\ u # NoParent
      BY NoParentAssumption
    <3> QED BY <1>6, <2>1, <2>2, <2>4, <2>7, <3>1
  <2>10. NoidsExist'
    BY <1>1, <1>6, <2>1, <2>4 DEF NoidsExist
  <2>11. NoneLost'
    BY <1>3, <1>6, <2>1, <2>4, <2>8 DEF NoneLost
  <2> QED BY <2>5, <2>9, <2>10, <2>11
<1>10. ASSUME NEW kind \in {"vote", "pay", "payout"}, feed[at + 1].kind = kind,
              \A v \in Url : /\ posts'[v].id = posts[v].id /\ posts'[v].deleted = posts[v].deleted
                             /\ posts'[v].parent = posts[v].parent
       PROVE  /\ Told' /\ Live(u)
              /\ \A v \in Url : (Live(v)' <=> Live(v)) /\ (Exists(v)' <=> Exists(v))
  <2>1. \A v \in Url : (Live(v)' <=> Live(v)) /\ (Exists(v)' <=> Exists(v))
    BY <1>10 DEF Live, Exists
  <2>2. PostsView' = PostsView
    BY <1>10, <2>1 DEF PostsView
  <2>3. PostsView = [made |-> PostsView.made, live |-> PostsView.live, parent |-> PostsView.parent]
    BY DEF PostsView
  <2> QED BY <1>3, <1>10, <2>1, <2>2, <2>3, Handled
<1>11. CASE VotePost(u) \/ PayPost(u)
  <2>1. PICK kind \in {"vote", "pay"} : feed[at + 1].kind = kind
    BY <1>11 DEF VotePost, PayPost, Processing
  <2>2. \A v \in Url : /\ posts'[v].id = posts[v].id /\ posts'[v].deleted = posts[v].deleted
                       /\ posts'[v].parent = posts[v].parent
    BY <1>1, <1>11 DEF VotePost, PayPost, Post
  <2>3. /\ queue' = Dirty(queue, u, UPVOTE) /\ cache' = cache
        /\ \/ ids' = ids \cup {u} /\ noids' = noids
           \/ noids' = noids \cup {u} /\ ids' = ids
    BY <1>11 DEF VotePost, PayPost
  <2> QED BY <1>5, <1>8, <1>10, <2>1, <2>2, <2>3
<1>12. CASE PayUnknown(u) \/ PassPayout(u)
  <2>1. PICK kind \in {"payout", "pay"} : feed[at + 1].kind = kind
    BY <1>12 DEF PayUnknown, PassPayout, Processing
  <2>2. UNCHANGED <<posts, cache, queue, ids, noids>>
    BY <1>12 DEF PayUnknown, PassPayout, memVars
  <2>3. Told' /\ \A v \in Url : (Live(v)' <=> Live(v)) /\ (Exists(v)' <=> Exists(v))
    BY <1>10, <2>1, <2>2
  <2> QED BY <1>1, <1>3, <1>6, <2>2, <2>3 DEF QueuedLive, NoidsExist, NoneLost
<1>13. ASSUME feed[at + 1].kind = "comment", Exists(u), Live(u)', Exists(u)',
              \A v \in Url \ {u} : posts'[v] = posts[v],
              posts'[u].parent = feed[at + 1].parent
       PROVE  /\ Told'
              /\ \A v \in Url : Live(v) => Live(v)'
              /\ \A v \in Url : Exists(v) => Exists(v)'
              /\ \A v \in Url \ {u} : Live(v)' => Live(v)
  <2>1. \A v \in Url \ {u} : (Live(v)' <=> Live(v)) /\ (Exists(v)' <=> Exists(v))
    BY <1>13 DEF Live, Exists
  <2>2. /\ {v \in Url : Exists(v)'} = {v \in Url : Exists(v)} \cup {u}
        /\ {v \in Url : Live(v)'} = {v \in Url : Live(v)} \cup {u}
    BY <1>13, <2>1
  <2>3. [v \in Url |-> posts'[v].parent]
          = [[v \in Url |-> posts[v].parent] EXCEPT ![u] = feed[at + 1].parent]
    BY <1>13
  <2>4. Told'
    BY <1>3, <1>13, <2>2, <2>3, Handled DEF PostsView
  <2> QED BY <1>13, <2>1, <2>4
<1>14. CASE UpdatePost(u)
  <2>1. /\ feed[at + 1].kind = "comment" /\ Live(u) /\ posts' = posts /\ cache' = cache
        /\ queue' = Dirty(queue, u, UPDATE) /\ ids' = ids \cup {u} /\ noids' = noids
    BY <1>14 DEF UpdatePost, Processing
  <2>2. Exists(u) /\ posts[u].parent = feed[at + 1].parent /\ Live(u)' /\ Exists(u)'
    BY <1>3, <2>1, Handled DEF Live, Exists
  <2> QED BY <1>5, <1>8, <1>13, <2>1, <2>2
<1>15. CASE UndeleteNew(u) \/ UndeleteCached(u)
  <2>1. /\ feed[at + 1].kind = "comment" /\ Exists(u) /\ Reinstate(u)
        /\ ids' = ids \cup {u} /\ noids' = noids
    BY <1>15 DEF UndeleteNew, UndeleteCached, Processing
  <2>2. /\ \A v \in Url \ {u} : posts'[v] = posts[v]
        /\ posts'[u].parent = feed[at + 1].parent /\ ~posts'[u].deleted
        /\ posts'[u].id = posts[u].id
    BY <1>1, <2>1 DEF Reinstate
  <2>3. Live(u)' /\ Exists(u)'
    BY <2>1, <2>2 DEF Live, Exists
  <2>4. CASE UndeleteNew(u)
    <3>1. cache' = cache /\ queue' = Dirty(queue, u, INSERT)
      BY <2>4 DEF UndeleteNew
    <3> QED BY <1>5, <1>8, <1>13, <2>1, <2>2, <2>3, <3>1
  <2>5. CASE UndeleteCached(u)
    <3>1. DOMAIN cache' = DOMAIN cache \cup {u} /\ queue' = Dirty(queue, u, UPDATE)
      BY <2>5 DEF UndeleteCached
    <3> QED BY <1>5, <1>8, <1>13, <2>1, <2>2, <2>3, <3>1
  <2> QED BY <1>15, <2>4, <2>5
<1>16. CASE DeletePost(u)
  <2> DEFINE p == posts[u].parent
             q == [queue EXCEPT ![u] = CLEAN]
  <2>1. /\ feed[at + 1].kind = "delete"
        /\ posts' = [posts EXCEPT ![u].deleted = TRUE]
        /\ queue' = (IF p = NoParent THEN q ELSE Dirty(q, p, RECOUNT))
        /\ DOMAIN cache' = DOMAIN cache \ {u} /\ noids' = noids
        /\ ids' = (IF queue[u] = CLEAN THEN ids ELSE ids \ {u}) \cup ({p} \ {NoParent})
    BY <1>16 DEF DeletePost, Processing
  <2>2. Live(u)
    BY <1>3, <2>1, Handled
  <2>3. p \in Url \cup {NoParent} /\ p # u /\ (p # NoParent => p \in Url /\ Live(p))
    <3>1. p \in Url \cup {NoParent}
      BY <1>1 DEF Post
    <3> QED BY <1>1, <2>2, <3>1, ToldFacts DEF KeptInv, Live
  <2>4. /\ \A v \in Url : posts'[v].id = posts[v].id /\ posts'[v].parent = posts[v].parent
        /\ \A v \in Url \ {u} : posts'[v] = posts[v]
        /\ posts'[u].deleted
    BY <1>1, <2>1 DEF Post
  <2>5. /\ ~Live(u)' /\ \A v \in Url \ {u} : Live(v)' <=> Live(v)
        /\ \A v \in Url : Exists(v)' <=> Exists(v)
    BY <2>4 DEF Live, Exists
  <2>6. Told'
    <3>1. /\ {v \in Url : Exists(v)'} = {v \in Url : Exists(v)}
          /\ {v \in Url : Live(v)'} = {v \in Url : Live(v)} \ {u}
          /\ [v \in Url |-> posts'[v].parent] = [v \in Url |-> posts[v].parent]
      BY <2>4, <2>5
    <3> QED BY <1>3, <2>1, <3>1, Handled DEF PostsView
  <2> HIDE DEF p
  <2>7. /\ q \in [Url -> Levels \cup {CLEAN}] /\ q[u] = CLEAN
        /\ \A v \in Url \ {u} : q[v] = queue[v]
    BY <1>1
  <2> HIDE DEF q
  <2>8. queue'[u] = CLEAN /\ \A v \in Url \ {u} : queue'[v] # CLEAN => v = p \/ queue[v] # CLEAN
    <3>1. p # NoParent => \A v \in Url \ {p} : queue'[v] = q[v]
      BY <1>5, <2>1, <2>3, <2>7, DirtyType
    <3> QED BY <2>1, <2>3, <2>7, <3>1
  <2>9. \A v \in Url \ {u} : queue[v] = INSERT => queue'[v] = INSERT
    BY <1>5, <2>1, <2>3, <2>7, DirtyInserts
  <2>10. QueuedLive'
    <3> SUFFICES ASSUME NEW v \in Url, queue'[v] # CLEAN
                 PROVE  Live(v)' /\ v \in ids' \cup noids'
      BY DEF QueuedLive
    <3>1. v # NoParent /\ v # u
      BY <2>8, NoParentAssumption
    <3> QED BY <1>6, <2>1, <2>3, <2>5, <2>8, <3>1
  <2>11. NoidsExist'
    BY <1>1, <1>6, <2>1, <2>5 DEF NoidsExist
  <2>12. NoneLost'
    BY <1>3, <1>6, <2>1, <2>5, <2>9 DEF NoneLost
  <2> QED BY <2>6, <2>10, <2>11, <2>12
<1> QED BY <1>2, <1>9, <1>11, <1>12, <1>14, <1>15, <1>16
(* None of the checks of a flush fails, and afterwards what is still queued is
   live, what is still to be inserted was, and what was not found is queued as
   it was. *)
LEMMA FlushKept ==
    ASSUME KeptInv, pc # "down",
           NEW q \in [Url -> Levels \cup {CLEAN}],
           q = FlushQueue \/ (q = queue /\ pc = "recover"),
           NEW lag
    PROVE  /\ FlushFault(q, Found(q, lag)) = "none"
           /\ \A u \in RecountParents(q, Found(q, lag)) : u \in Url /\ Live(u)
           /\ \A u \in Url : FlushedQueue(q, Found(q, lag))[u] # CLEAN =>
                 /\ Live(u)
                 /\ \/ u \in RecountParents(q, Found(q, lag))
                    \/ u \in FlushedIds(q, Found(q, lag))
           /\ crashes = 0 => \A u \in Url : Live(u) =>
                 \/ u \in DOMAIN cache
                 \/ u \in Found(q, lag) /\ q[u] = INSERT
                 \/ FlushedQueue(q, Found(q, lag))[u] = INSERT
<1> DEFINE found == Found(q, lag)
<1>1. /\ TypeOK /\ CacheInv /\ lastId \in Nat \cup {-1}
      /\ queue \in [Url -> Levels \cup {CLEAN}] /\ ids \subseteq Url /\ noids \subseteq Url
      /\ \A u \in Url : posts[u].id \in Nat /\ posts[u].deleted \in BOOLEAN
      /\ DOMAIN cache \subseteq Url
  BY DEF KeptInv, CacheInv, TypeOK, Post, CacheTable
<1>2. /\ found \subseteq Queued(q) /\ Queued(q) \subseteq Url
      /\ \A u \in Queued(q) : q[u] # CLEAN
      /\ \A u \in Url : q[u] # CLEAN => u \in Queued(q)
  BY FoundType DEF Queued
<1>3. \A u \in Url : q[u] = INSERT <=> queue[u] = INSERT
  BY <1>1, FlushQueueType
<1>4. ASSUME NEW u \in Url, q[u] # CLEAN PROVE Live(u) /\ u \in FlushIds \cup noids
  <2>1. CASE queue[u] # CLEAN
    BY <1>4, <2>1 DEF KeptInv, QueuedLive, FlushIds
  <2>2. CASE queue[u] = CLEAN
    <3>1. pc \in {"sweep", "live"} /\ u \in PaidOut
      BY <1>4, <2>2 DEF FlushQueue
    <3> QED BY <1>1, <3>1 DEF FlushIds, PaidOut, CacheInv, DeletedNotCached
  <2> QED BY <2>1, <2>2
<1>5. ASSUME Up, NEW u \in Missing(lastId) PROVE q[u] = INSERT /\ u \in Queued(q)
  <2>1. u \in Url
    BY <1>5 DEF Missing
  <2> QED BY <1>1, <1>2, <1>3, <1>5, <2>1 DEF CacheInv, SafeGap, INSERT, CLEAN
<1>6. FlushFault(q, found) = "none"
  <2>1. ~ \E u \in noids \ FlushIds : ~Exists(u)
    BY DEF KeptInv, NoidsExist
  <2>2. ~ \E u \in Queued(q) : u \notin FlushIds \cup noids
    BY <1>2, <1>4
  <2>3. pc = "recover" => q = queue /\ \A u \in Url : q[u] \in {INSERT, CLEAN}
    BY DEF FlushQueue, KeptInv, Restarting
  <2>4. ~ \E u \in found : q[u] # INSERT /\ posts[u].id > lastId
    <3> SUFFICES ASSUME NEW u \in found, q[u] # INSERT, posts[u].id > lastId PROVE FALSE
      OBVIOUS
    <3>1. u \in Missing(lastId) /\ u \in Url /\ q[u] # CLEAN
      BY <1>2, <1>4 DEF Missing
    <3>2. CASE pc = "recover"
      BY <2>3, <3>1, <3>2
    <3>3. CASE Up
      BY <1>5, <3>1, <3>3
    <3> QED BY <3>2, <3>3 DEF Up
  <2>5. ~ \E u \in Missing(lastId) \ Queued(q), v \in Queued(q) : posts[u].id < posts[v].id
    <3>1. CASE pc = "recover"
      BY <2>3, <3>1 DEF KeptInv, Restarting
    <3>2. CASE Up
      BY <1>5, <3>2
    <3> QED BY <3>1, <3>2 DEF Up
  <2>6. ~ \E u \in found : q[u] = INSERT /\ u \in DOMAIN cache
    BY <1>1, <1>2, <1>3 DEF CacheInv, InsertIsNew
  <2> HIDE DEF found
  <2> QED BY <2>1, <2>2, <2>4, <2>5, <2>6 DEF FlushFault
<1>7. ASSUME NEW p \in RecountParents(q, found) PROVE p \in Url /\ Live(p)
  <2>1. PICK u \in found : q[u] = RECOUNT /\ p = node[u].parent /\ p # NoParent
    BY <1>7 DEF RecountParents
  <2>2. u \in Url /\ Live(u)
    BY <1>2, <1>4, <2>1
  <2> QED BY <1>1, <2>1, <2>2, ToldFacts DEF KeptInv, Live
<1> HIDE DEF found
<1>8. ASSUME NEW u \in Url, FlushedQueue(q, found)[u] # CLEAN
      PROVE  /\ Live(u)
             /\ \/ u \in RecountParents(q, found)
                \/ u \in FlushedIds(q, found)
  <2>1. CASE u \in RecountParents(q, found)
    BY <1>7, <2>1
  <2>2. CASE u \notin RecountParents(q, found)
    <3>1. u \in Queued(q)
      BY <1>8, <2>2 DEF FlushedQueue
    <3>2. Live(u) /\ u \in FlushIds \cup noids
      BY <1>2, <1>4, <3>1
    <3>3. u \in Queued(FlushedQueue(q, found))
      BY <1>8 DEF Queued
    <3> QED BY <3>2, <3>3 DEF FlushedIds
  <2> QED BY <2>1, <2>2
<1>9. ASSUME crashes = 0, NEW u \in Url, Live(u)
      PROVE  \/ u \in DOMAIN cache
             \/ u \in found /\ q[u] = INSERT
             \/ FlushedQueue(q, found)[u] = INSERT
  <2>1. u \in DOMAIN cache \/ q[u] = INSERT
    BY <1>3, <1>9 DEF KeptInv, NoneLost
  <2>2. CASE q[u] = INSERT /\ u \notin found
    <3>1. u \in Queued(q)
      BY <2>2 DEF Queued, INSERT, CLEAN
    <3> QED BY <1>9, <2>2, <3>1 DEF FlushedQueue, Live
  <2> QED BY <2>1, <2>2
<1> QED BY <1>6, <1>7, <1>8, <1>9 DEF found

(* The flushes of fast sync, of the sweep and of live sync. *)
LEMMA FlushPhaseKept ==
    ASSUME KeptInv, NEW lag, FlushFast(lag) \/ SweepFlush(lag) \/ CommitLive(lag)
    PROVE  KeptInv'
<1> DEFINE q == FlushQueue
           found == Found(q, lag)
<1>1. CacheInv /\ CacheInv' /\ TypeOK
  BY FlushPhaseInv DEF KeptInv, CacheInv
<1>2. /\ UNCHANGED <<node, posts, fault, crashes>> /\ saved'.posts = posts
      /\ pc # "down" /\ pc' \notin {"down", "recover"}
      /\ pc = "live" \/ (pc \in {"flush", "sweep"} /\ feed' = feed /\ at' = at)
      /\ cache' = FlushedCache(q, found) /\ noids' = RecountParents(q, found)
      /\ queue' = FlushedQueue(q, found) /\ ids' = FlushedIds(q, found)
  BY DEF FlushFast, SweepFlush, CommitLive, Flush, FlushWrites, Commit, chainVars
<1>3. \A u \in Url : (Live(u)' <=> Live(u)) /\ (Exists(u)' <=> Exists(u))
  BY <1>2 DEF Live, Exists
<1>4. Told' /\ at' = 0
  <2>1. CASE CommitLive(lag)
    BY <1>1, <1>2, <2>1, ToldCommit DEF CommitLive, KeptInv
  <2>2. CASE FlushFast(lag) \/ SweepFlush(lag)
    <3>1. at = 0 /\ UNCHANGED <<node, feed, at, posts>>
      BY <2>2 DEF FlushFast, SweepFlush, chainVars, KeptInv, BetweenBlocks
    <3> QED BY <1>2, <3>1, ToldStart DEF KeptInv
  <2> QED BY <2>1, <2>2
<1>5. q \in [Url -> Levels \cup {CLEAN}]
  BY <1>1, FlushQueueType
<1>6. /\ \A u \in RecountParents(q, found) : u \in Url /\ Live(u)
      /\ \A u \in Url : FlushedQueue(q, found)[u] # CLEAN =>
            /\ Live(u)
            /\ \/ u \in RecountParents(q, found)
               \/ u \in FlushedIds(q, found)
      /\ crashes = 0 => \A u \in Url : Live(u) =>
            \/ u \in DOMAIN cache
            \/ u \in found /\ q[u] = INSERT
            \/ FlushedQueue(q, found)[u] = INSERT
  BY <1>2, <1>5, FlushKept
<1>7. DOMAIN cache' = DOMAIN cache \cup {v \in found : q[v] = INSERT}
  BY <1>2 DEF FlushedCache
<1> HIDE DEF q, found
<1>8. QueuedLive' /\ NoidsExist'
  BY <1>2, <1>3, <1>6 DEF QueuedLive, NoidsExist, Live
<1>9. NoneLost'
  BY <1>2, <1>3, <1>6, <1>7 DEF NoneLost
<1>10. Unstarted' /\ Restarting' /\ BetweenBlocks' /\ NoFault'
  BY <1>2, <1>4 DEF Unstarted, Restarting, BetweenBlocks, KeptInv, NoFault
<1> QED BY <1>1, <1>4, <1>8, <1>9, <1>10 DEF KeptInv

(* A turn of recovery: what it marks is missing past the new cursor, what it
   leaves queued is behind it. *)
LEMMA RecoverPassKept ==
    ASSUME KeptInv, NEW lag, RecoverPass(lag)
    PROVE  KeptInv'
<1> DEFINE found == Found(queue, lag)
           left == FlushedQueue(queue, found)
<1>1. /\ CacheInv /\ CacheInv' /\ TypeOK
      /\ queue \in [Url -> Levels \cup {CLEAN}]
      /\ \A u \in Url : posts[u].id \in Nat
  BY FlushPhaseInv DEF KeptInv, CacheInv, TypeOK, Post
<1>2. /\ UNCHANGED <<node, feed, posts, at, fault, crashes>> /\ saved'.posts = posts
      /\ pc = "recover" /\ FlushWrites(queue, found)
      /\ cache' = FlushedCache(queue, found) /\ noids' = RecountParents(queue, found)
  BY DEF RecoverPass, FlushWrites, Commit, chainVars
<1>3. pc' \in {"recover", "ready"}
  <2>1. CASE \E u \in Url : queue[u] = INSERT
    BY <2>1 DEF RecoverPass
  <2>2. CASE ~ \E u \in Url : queue[u] = INSERT
    BY <2>2 DEF RecoverPass
  <2> QED BY <2>1, <2>2
<1>4. \A u \in Url : (Live(u)' <=> Live(u)) /\ (Exists(u)' <=> Exists(u))
  BY <1>2 DEF Live, Exists
<1>5. at = 0 /\ Told' /\ BetweenBlocks'
  <2>1. at = 0
    BY <1>2 DEF KeptInv, BetweenBlocks
  <2> QED BY <1>2, <2>1, ToldStart DEF KeptInv, BetweenBlocks
<1>6. /\ \A u \in Url : queue[u] \in {INSERT, CLEAN}
      /\ RecountParents(queue, found) = {}
  <2>1. \A u \in Url : queue[u] \in {INSERT, CLEAN}
    BY <1>2 DEF KeptInv, Restarting
  <2>2. found \subseteq Url
    BY FoundType DEF Queued
  <2> QED BY <2>1, <2>2 DEF RecountParents, INSERT, CLEAN, RECOUNT
<1>7. /\ \A u \in Url : left[u] # CLEAN => Live(u) /\ u \in FlushedIds(queue, found)
      /\ crashes = 0 => \A u \in Url : Live(u) =>
            u \in DOMAIN cache \/ (u \in found /\ queue[u] = INSERT) \/ left[u] = INSERT
  <2>1. /\ \A u \in Url : left[u] # CLEAN =>
              /\ Live(u)
              /\ \/ u \in RecountParents(queue, found)
                 \/ u \in FlushedIds(queue, found)
        /\ crashes = 0 => \A u \in Url : Live(u) =>
              \/ u \in DOMAIN cache
              \/ u \in found /\ queue[u] = INSERT
              \/ left[u] = INSERT
    BY <1>1, <1>2, FlushKept
  <2> HIDE DEF left, found
  <2> QED BY <1>6, <2>1
<1>8. DOMAIN cache' = DOMAIN cache \cup {v \in found : queue[v] = INSERT}
  BY <1>2 DEF FlushedCache
<1>9. \A u \in Url : left[u] \in {INSERT, CLEAN} /\ (left[u] # CLEAN => u \in Queued(queue))
  BY <1>6 DEF FlushedQueue, Queued
<1>10. lastId' \in Nat \cup {-1} /\ \A u \in Queued(queue) : posts[u].id <= lastId'
  BY <1>1, <1>2, BumpedType DEF FlushWrites
<1>11. NoidsExist' /\ noids' = {} /\ Unstarted' /\ NoFault'
  BY <1>2, <1>3, <1>4, <1>6 DEF KeptInv, NoidsExist, Unstarted, NoFault
<1>12. CASE \E u \in Url : queue[u] = INSERT
  <2>1. PICK S \in SUBSET Url :
          /\ MissingPrefix(lastId', S)
          /\ queue' = DirtyMissing(left, S)
          /\ ids' = FlushedIds(queue, found) \cup S
    BY <1>12 DEF RecoverPass
  <2> HIDE DEF left, found
  <2>2. \A u \in S : Live(u) /\ posts[u].id > lastId'
    BY <2>1 DEF MissingPrefix, Missing
  <2>3. \A u \in Url : queue'[u] = IF u \in S THEN INSERT ELSE left[u]
    BY <2>1 DEF DirtyMissing
  <2>4. QueuedLive'
    BY <1>4, <1>7, <2>1, <2>2, <2>3 DEF QueuedLive
  <2>5. NoneLost'
    BY <1>2, <1>4, <1>7, <1>8, <2>3 DEF NoneLost
  <2>6. Restarting'
    <3>1. \A u \in Url : queue'[u] \in {INSERT, CLEAN}
      BY <1>9, <2>3
    <3>2. ASSUME NEW u \in Missing(lastId'), NEW v \in Queued(queue'), posts[u].id < posts[v].id
          PROVE  u \in Queued(queue')
      <4>1. u \in Url /\ posts[u].id > lastId' /\ v \in Url /\ queue'[v] # CLEAN
        BY <3>2 DEF Missing, Queued
      <4>2. v \in S
        BY <1>1, <1>9, <1>10, <2>3, <3>2, <4>1
      <4>3. u \in S
        BY <2>1, <3>2, <4>2 DEF MissingPrefix
      <4> QED BY <2>3, <4>1, <4>3 DEF Queued, INSERT, CLEAN
    <3>3. Missing(lastId)' = Missing(lastId') /\ Queued(queue)' = Queued(queue')
      BY <1>2, <1>4 DEF Missing, Queued
    <3> QED BY <1>2, <1>3, <1>11, <3>1, <3>2, <3>3 DEF Restarting
  <2> QED BY <1>1, <1>5, <1>11, <2>4, <2>5, <2>6 DEF KeptInv
<1>13. CASE ~ \E u \in Url : queue[u] = INSERT
  <2>1. queue' = left /\ ids' = FlushedIds(queue, found) /\ pc' = "ready"
    BY <1>13 DEF RecoverPass
  <2> HIDE DEF left, found
  <2>2. QueuedLive' /\ NoneLost'
    BY <1>2, <1>4, <1>7, <1>8, <2>1 DEF QueuedLive, NoneLost
  <2>3. Restarting'
    BY <2>1 DEF Restarting
  <2> QED BY <1>1, <1>5, <1>11, <2>2, <2>3 DEF KeptInv
<1> QED BY <1>12, <1>13

(* Every step preserves KeptInv, crashes included. *)
LEMMA NextKept ==
    ASSUME PlainChain, KeptInv, [Next]_vars
    PROVE  KeptInv'
<1>1. CacheInv /\ CacheInv' /\ TypeOK /\ TypeOK'
  BY NextCacheInv DEF KeptInv, CacheInv
<1>2. CASE ProcessOp
  BY <1>2, ProcessOpKept
<1>3. ASSUME Told', BetweenBlocks', UNCHANGED <<posts, cache, queue, ids, noids, fault>>,
             UNCHANGED <<lastId, crashes>>,
             pc' = pc \/ (Up /\ Up')
      PROVE  KeptInv'
  <2>1. \A u \in Url : (Live(u)' <=> Live(u)) /\ (Exists(u)' <=> Exists(u))
    BY <1>3 DEF Live, Exists
  <2>2. noids \subseteq Url
    BY <1>1 DEF TypeOK
  <2>3. QueuedLive' /\ NoidsExist'
    BY <1>3, <2>1, <2>2 DEF KeptInv, QueuedLive, NoidsExist
  <2>4. Unstarted' /\ NoneLost' /\ NoFault'
    BY <1>3, <2>1 DEF KeptInv, Unstarted, NoneLost, NoFault, Up
  <2>5. Restarting'
    <3>1. Missing(lastId)' = Missing(lastId) /\ Queued(queue)' = Queued(queue)
      BY <1>3, <2>1 DEF Missing, Queued
    <3> QED BY <1>3, <3>1 DEF KeptInv, Restarting, Up
  <2> QED BY <1>1, <1>3, <2>3, <2>4, <2>5 DEF KeptInv
<1>4. CASE ChainStep
  <2>1. /\ Told' /\ UNCHANGED <<posts, cache, queue, ids, noids, fault, pc, at>>
        /\ UNCHANGED <<lastId, crashes>>
    BY <1>1, <1>4, ToldChain DEF ChainStep, dbVars, memVars, KeptInv, TypeOK
  <2>2. BetweenBlocks'
    BY <2>1 DEF KeptInv, BetweenBlocks
  <2> QED BY <1>3, <2>1, <2>2
<1>5. CASE StartFast \/ SkipFast \/ LeaveLive \/ UNCHANGED vars
  <2>1. UNCHANGED <<node, feed, at, posts, saved, cache, queue, ids, noids, fault, lastId, crashes>>
    BY <1>5 DEF StartFast, SkipFast, LeaveLive, vars, chainVars, dbVars, memVars
  <2>2. pc' = pc \/ (Up /\ Up')
    BY <1>5 DEF StartFast, SkipFast, LeaveLive, vars, Up
  <2>3. BetweenBlocks'
    BY <1>5, <2>1 DEF StartFast, SkipFast, LeaveLive, vars, KeptInv, BetweenBlocks
  <2> QED BY <1>3, <2>1, <2>2, <2>3, ToldSame DEF KeptInv
<1>6. CASE NextFastBlock
  <2>1. /\ at < Len(feed) /\ feed[at + 1] = BlockMark /\ at' = at + 1 /\ UNCHANGED <<node, feed, saved>>
        /\ UNCHANGED <<posts, cache, queue, ids, noids, fault, pc, lastId, crashes>>
        /\ pc = "fast"
    BY <1>6 DEF NextFastBlock, AtBlockEnd, memVars, chainVars
  <2>2. Told /\ PostsView' = PostsView
    BY <2>1 DEF KeptInv, PostsView, Exists, Live
  <2>3. \A W : Tells(BlockMark, PostsView, W) => W = PostsView
    BY DEF Tells, BlockMark
  <2>4. Told'
    BY <1>1, <2>1, <2>2, <2>3, ToldNext
  <2> QED BY <1>3, <2>1, <2>4 DEF BetweenBlocks
<1>7. CASE CommitFast
  <2>1. /\ AtBlockEnd /\ feed' = SubSeq(feed, at + 2, Len(feed)) /\ at' = 0
        /\ UNCHANGED <<node, posts, cache, queue, ids, noids, fault, lastId, crashes>>
        /\ saved'.posts = posts /\ Up /\ Up'
    BY <1>7 DEF CommitFast, Commit, memVars, Up
  <2> QED BY <1>1, <1>3, <2>1, ToldCommit DEF KeptInv, BetweenBlocks
<1>8. CASE Restart
  <2>1. /\ pc = "down" /\ pc' = "recover" /\ fault' = "none"
        /\ UNCHANGED <<node, feed, at, posts, saved, cache, noids, crashes>>
    BY <1>8 DEF Restart, chainVars, dbVars
  <2>2. \A u \in Url : (Live(u)' <=> Live(u)) /\ (Exists(u)' <=> Exists(u))
    BY <2>1 DEF Live, Exists
  <2>3. PICK S \in SUBSET Url :
          MissingPrefix(lastId', S) /\ queue' = DirtyMissing(queue, S) /\ ids' = ids \cup S
    BY <1>8 DEF Restart
  <2>4. \A u \in Url : queue'[u] = IF u \in S THEN INSERT ELSE CLEAN
    BY <2>1, <2>3 DEF DirtyMissing, KeptInv, Restarting
  <2>5. Told' /\ BetweenBlocks' /\ NoFault' /\ Unstarted' /\ NoidsExist'
    <3>1. noids = {}
      BY <2>1 DEF KeptInv, Restarting
    <3> QED BY <2>1, <2>2, <3>1, ToldSame DEF KeptInv, BetweenBlocks, NoFault, Unstarted, NoidsExist
  <2>6. QueuedLive'
    BY <2>2, <2>3, <2>4 DEF QueuedLive, MissingPrefix, Missing
  <2>7. NoneLost'
    BY <2>1, <2>2, <2>4 DEF KeptInv, NoneLost, Unstarted, Live
  <2>8. Restarting'
    <3>1. noids = {}
      BY <2>1 DEF KeptInv, Restarting
    <3>2. Missing(lastId)' = Missing(lastId') /\ Queued(queue)' = S
      <4>1. \A u \in Url : u \in S <=> queue'[u] # CLEAN
        BY <2>4 DEF INSERT, CLEAN
      <4> QED BY <2>1, <2>2, <4>1 DEF Missing, Queued
    <3>3. \A u \in Missing(lastId'), v \in S : posts[u].id < posts[v].id => u \in S
      BY <2>3 DEF MissingPrefix
    <3> QED BY <2>1, <2>4, <3>1, <3>2, <3>3 DEF Restarting
  <2> QED BY <1>1, <2>5, <2>6, <2>7, <2>8 DEF KeptInv
<1>9. ASSUME NEW lag, FlushRaises(lag) PROVE KeptInv'
  <2>1. pc # "down" /\ FlushFault(FlushQueue, Found(FlushQueue, lag)) # "none"
    BY <1>9 DEF FlushRaises, Flushing
  <2>2. FlushQueue \in [Url -> Levels \cup {CLEAN}]
    BY <1>1, FlushQueueType
  <2> QED BY <2>1, <2>2, FlushKept
<1>10. ASSUME NEW lag, Crash \/ CrashMidFlush(lag) PROVE KeptInv'
  <2>1. /\ crashes' = crashes + 1 /\ fault' = fault
        /\ \E tables : /\ Die(tables)
                       /\ \/ tables.posts = saved.posts
                          \/ tables.posts = posts /\ at = 0
    <3>1. CASE Crash
      BY <3>1 DEF Crash
    <3>2. CASE CrashMidFlush(lag)
      <4>1. at = 0
        BY <3>2 DEF CrashMidFlush, Flushing, KeptInv, BetweenBlocks
      <4> QED BY <3>2, <4>1 DEF CrashMidFlush, CommittedUpTo
    <3> QED BY <1>10, <3>1, <3>2
  <2>2. crashes' # 0
    <3>1. crashes \in Nat
      BY <1>1 DEF TypeOK
    <3>2. crashes' = crashes + 1
      BY <2>1
    <3> QED BY <3>1, <3>2
  <2>3. /\ UNCHANGED <<node, feed>> /\ at' = 0 /\ pc' = "down" /\ noids' = {}
        /\ \A u \in Url : queue'[u] = CLEAN
        /\ saved'.posts = posts'
        /\ \/ posts' = saved.posts
           \/ posts' = posts /\ at = 0
    BY <2>1 DEF Die, chainVars
  <2>4. Told'
    BY <2>3, ToldStart DEF KeptInv
  <2> QED BY <1>1, <2>1, <2>2, <2>3, <2>4
          DEF KeptInv, QueuedLive, NoidsExist, Restarting, BetweenBlocks, Unstarted, NoneLost,
              NoFault
<1>11. CASE \E lag \in SUBSET Lagging :
               RecoverPass(lag) \/ FlushFast(lag) \/ SweepFlush(lag) \/ CommitLive(lag)
  BY <1>11, FlushPhaseKept, RecoverPassKept
<1> QED BY <1>2, <1>4, <1>5, <1>6, <1>7, <1>8, <1>9, <1>10, <1>11 DEF Next, IndexerStep

(* KeptInv holds before anything is made. *)
LEMMA InitKept == Init => KeptInv
<1> SUFFICES ASSUME Init PROVE KeptInv
  OBVIOUS
<1>1. CacheInv /\ TypeOK
  BY InitCacheInv, InitType
<1>2. /\ \A u \in Url : ~Exists(u) /\ ~Live(u) /\ queue[u] = CLEAN /\ posts[u].parent = NoParent
      /\ noids = {} /\ fault = "none" /\ pc = "down" /\ at = 0 /\ feed = <<>>
      /\ saved.posts = posts
  BY DEF Init, ChainInit, Exists, Live, NoPost
<1>3. \A u \in Url : node[u].ver = 0 /\ ~node[u].live /\ node[u].parent = NoParent
  BY DEF Init, ChainInit
<1>4. /\ PostsView = NodeView /\ SavedView = NodeView /\ Sound(NodeView)
      /\ NodeView \in Views
  <2>1. PostsView = [made |-> {}, live |-> {}, parent |-> [u \in Url |-> NoParent]]
    BY <1>2 DEF PostsView
  <2>2. NodeView = [made |-> {}, live |-> {}, parent |-> [u \in Url |-> NoParent]]
    <3>1. {u \in Url : node[u].ver > 0} = {}
      BY <1>3
    <3> QED BY <1>3, <3>1 DEF NodeView
  <2>3. SavedView = PostsView
    BY <1>2 DEF SavedView, PostsView, Exists, Live
  <2> QED BY <2>1, <2>2, <2>3 DEF Sound, Views
<1>5. Told
  <2>1. PICK h : h = [i \in 0..0 |-> NodeView]
    OBVIOUS
  <2>2. Len(feed) = 0 /\ \A i \in 0..0 : i = 0
    BY <1>2
  <2>3. h \in [0..Len(feed) -> Views] /\ h[0] = NodeView /\ \A i \in 0..Len(feed) : h[i] = NodeView
    BY <1>2, <1>4, <2>1, <2>2
  <2>4. 1..Len(feed) = {}
    BY <2>2
  <2> QED BY <1>2, <1>4, <2>2, <2>3, <2>4 DEF Told
<1> QED BY <1>1, <1>2, <1>5
        DEF KeptInv, QueuedLive, NoidsExist, Restarting, BetweenBlocks, Unstarted, NoneLost,
            NoFault, Queued

(* KeptInv is an invariant, whatever crashes. *)
LEMMA KeptInvariant ==
    ASSUME PlainChain
    PROVE  Spec => []KeptInv
<1>1. Init => KeptInv
  BY InitKept
<1>2. KeptInv /\ [Next]_vars => KeptInv'
  BY NextKept
<1> QED BY <1>1, <1>2, PTL DEF Spec

(* None of the checks of a flush ever fails, nor does an INSERT meet a row,
   whatever crashes and whatever a lagging node answers: the indexer is not the
   cause of its own end. *)
THEOREM NeverFaults ==
    ASSUME PlainChain
    PROVE  Spec => []NoFault
<1>1. KeptInv => NoFault
  BY DEF KeptInv
<1> QED BY <1>1, KeptInvariant, PTL

(* Until the first crash a post the indexer knows is in the cache or queued for
   insertion, whatever a lagging node answers. *)
THEOREM NothingLost ==
    ASSUME PlainChain
    PROVE  Spec => [](crashes = 0 => NoLostPost)
<1>1. KeptInv => (crashes = 0 => NoLostPost)
  BY DEF KeptInv, NoneLost, NoLostPost
<1> QED BY <1>1, KeptInvariant, PTL
=============================================================================
