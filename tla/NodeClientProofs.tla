-------------------------- MODULE NodeClientProofs --------------------------
(* Proofs about NodeClient, for any workers, nodes, batches and chunk sizes. *)
EXTENDS NodeClient, SequenceTheorems, FiniteSetTheorems, WellFoundedInduction, TLAPS

-----------------------------------------------------------------------------
(* How a batch is cut. *)

Size == batch.size
Params == batch.params

\* How many of the requests are in the first k chunks.
Upto(k) == IF k * Size < Len(Params) THEN k * Size ELSE Len(Params)

LEMMA BatchFacts ==
  ASSUME batch \in Batches
  PROVE  /\ Params \in Seq(Nat \ {0}) /\ Len(Params) \in Nat /\ Len(Params) > 0
         /\ Size \in Nat /\ Size > 0
<1>1. Params \in Seq(Nat \ {0}) /\ Params # <<>> /\ Size \in Nat \ {0}
  BY NodeClientAssumption DEF Params, Size
<1>2. Len(Params) \in Nat /\ Len(Params) # 0
  BY <1>1, EmptySeq
<1> QED BY <1>1, <1>2

\* The number of chunks is that of the requests over the size, rounded up.
LEMMA RoundedUp ==
  ASSUME NEW n \in Nat, n > 0, NEW s \in Nat, s > 0, NEW k, k = (n + s - 1) \div s
  PROVE  k \in Nat /\ k > 0 /\ (k - 1) * s < n /\ n <= k * s
<1>1. n + s - 1 \in Nat BY SMT
<1>2. k \in Int /\ s * k <= n + s - 1 /\ n + s - 1 < s * (k + 1)
  BY <1>1, SMT
<1> QED BY <1>2, SMT

\* The number of chunks.
Count == (Len(Params) + Size - 1) \div Size

LEMMA ChunkCount ==
  ASSUME batch \in Batches
  PROVE  /\ Count \in Nat /\ Count > 0
         /\ DOMAIN Chunks = 1..Count /\ Len(Chunks) = Count
         /\ Upto(0) = 0 /\ Upto(Count) = Len(Params)
<1>1. /\ Len(Params) \in Nat /\ Len(Params) > 0 /\ Size \in Nat /\ Size > 0
  BY BatchFacts
<1> DEFINE k == Count
<1>2. k \in Nat /\ k > 0 /\ (k - 1) * Size < Len(Params) /\ Len(Params) <= k * Size
  BY <1>1, RoundedUp DEF Count
<1>3. DOMAIN Chunks = 1..Count /\ Len(Chunks) = Count
  BY <1>2 DEF Chunks, Count, Params, Size
<1>4. Upto(0) = 0
  BY <1>1 DEF Upto
<1>5. Upto(Count) = Len(Params)
  BY <1>1, <1>2 DEF Upto
<1> QED BY <1>2, <1>3, <1>4, <1>5

\* The i-th chunk is the requests after those of the first i - 1 chunks.
LEMMA ChunkIs ==
  ASSUME batch \in Batches, NEW i \in 1..Count
  PROVE  /\ Upto(i - 1) \in Nat /\ Upto(i) \in Nat /\ Upto(i) <= Len(Params)
         /\ Upto(i - 1) < Upto(i)
         /\ Chunks[i] \in Seq(Nat \ {0})
         /\ Len(Chunks[i]) = Upto(i) - Upto(i - 1)
         /\ \A j \in 1..Len(Chunks[i]) : Chunks[i][j] = Params[Upto(i - 1) + j]
<1>1. /\ Len(Params) \in Nat /\ Len(Params) > 0 /\ Size \in Nat /\ Size > 0
      /\ Params \in Seq(Nat \ {0})
  BY BatchFacts
<1>2. Count \in Nat /\ (Count - 1) * Size < Len(Params)
  BY <1>1, RoundedUp DEF Count
<1>3. i \in Nat /\ i - 1 \in Nat /\ i - 1 <= Count - 1
  BY <1>2
<1>4. (i - 1) * Size <= (Count - 1) * Size
  BY <1>1, <1>2, <1>3
<1>5. (i - 1) * Size \in Nat /\ i * Size \in Nat /\ i * Size = (i - 1) * Size + Size
  BY <1>1, <1>3
<1>6. Upto(i - 1) = (i - 1) * Size /\ (i - 1) * Size < Len(Params)
  BY <1>1, <1>2, <1>3, <1>4, <1>5 DEF Upto
<1>7. Upto(i) \in Nat /\ Upto(i) <= Len(Params) /\ Upto(i - 1) < Upto(i)
  BY <1>1, <1>5, <1>6 DEF Upto
<1>8. DOMAIN Chunks = 1..Count
  BY ChunkCount
<1>9. Chunks[i] = SubSeq(Params, Upto(i - 1) + 1, Upto(i))
  BY <1>6, <1>8 DEF Chunks, Count, Upto, Params, Size
<1>10. Upto(i - 1) + 1 \in 1..Upto(i)
  BY <1>5, <1>6, <1>7
<1>11. Chunks[i] \in Seq(Nat \ {0}) /\ Len(Chunks[i]) = Upto(i) - Upto(i - 1)
       /\ \A j \in 1..(Upto(i) - Upto(i - 1)) : Chunks[i][j] = Params[Upto(i - 1) + 1 + j - 1]
  <2> DEFINE lo == Upto(i - 1) + 1
             hi == Upto(i)
  <2>1. lo \in 1..(Len(Params) + 1) /\ hi \in (lo - 1)..Len(Params)
    BY <1>1, <1>5, <1>6, <1>7
  <2>2. Chunks[i] = SubSeq(Params, lo, hi)
    BY <1>9
  <2> HIDE DEF lo, hi
  <2>3. /\ SubSeq(Params, lo, hi) \in Seq(Nat \ {0})
        /\ Len(SubSeq(Params, lo, hi)) = hi - lo + 1
        /\ \A j \in 1..(hi - lo + 1) : SubSeq(Params, lo, hi)[j] = Params[lo + j - 1]
    BY <1>1, <2>1, SubSeqProperties
  <2> QED BY <2>2, <2>3, <1>5, <1>6, <1>7 DEF lo, hi
<1> QED BY <1>5, <1>6, <1>7, <1>11

\* A set of numbers that is not empty has a least one.
LEMMA LeastExists ==
  ASSUME NEW S, S \subseteq Nat, S # {}
  PROVE  \E k \in S : \A j \in S : k <= j
<1>1. PICK n \in S : TRUE
  OBVIOUS
<1>2. PICK k \in S : \A j \in S : <<j, k>> \notin OpToRel(<, Nat)
  <2>1. IsWellFoundedOn(OpToRel(<, Nat), Nat)
    BY NatLessThanWellFounded
  <2> HIDE DEF OpToRel
  <2> QED BY <1>1, <2>1, WFMin
<1>3. ASSUME NEW j \in S PROVE k <= j
  <2>1. <<j, k>> \in Nat \X Nat /\ <<j, k>>[1] = j /\ <<j, k>>[2] = k
    OBVIOUS
  <2>2. ~(j < k)
    BY <1>2, <2>1 DEF OpToRel
  <2> QED BY <2>2
<1> QED BY <1>3

\* Every node has the names that the caller may count on.
Grown == created \in Seq(Names) /\ known \subseteq NamesUpTo(Settled)

LEMMA SameGrown ==
  ASSUME Grown, created' = created, known' = known
  PROVE  Grown'
BY DEF Grown, NamesUpTo, Settled

\* What a node knows: at least the settled names, at most all.
Accounts == NamesUpTo(Len(created))

LEMMA Views ==
  ASSUME created \in Seq(Names)
  PROVE  /\ Settled \in 0 .. Len(created) /\ (MaxLag = 0 => Settled = Len(created))
         /\ Accounts \subseteq Names
         /\ \A k \in Settled .. Len(created) :
               /\ NamesUpTo(Settled) \subseteq NamesUpTo(k)
               /\ NamesUpTo(k) \subseteq Accounts
<1>1. Settled \in 0 .. Len(created) /\ (MaxLag = 0 => Settled = Len(created))
  BY NodeClientAssumption DEF Settled
<1>2. \A i \in 1 .. Len(created) : created[i] \in Names
  BY ElementOfSeq
<1>3. \A k \in Settled .. Len(created) : 1 .. Settled \subseteq 1 .. k /\ 1 .. k \subseteq 1 .. Len(created)
  BY <1>1
<1> QED BY <1>1, <1>2, <1>3 DEF NamesUpTo, Accounts

\* A new account is known to whoever knows all, and unsettles none.
LEMMA ViewsGrow ==
  ASSUME created \in Seq(Names), NewAccount
  PROVE  /\ created' \in Seq(Names)
         /\ NamesUpTo(Settled) \subseteq NamesUpTo(Settled)'
         /\ Accounts \subseteq Accounts'
<1>1. PICK n \in Names : created' = Append(created, n)
  BY DEF NewAccount
<1>2. /\ created' \in Seq(Names) /\ Len(created') = Len(created) + 1
      /\ \A i \in 1 .. Len(created) : created'[i] = created[i]
  BY <1>1, AppendProperties
<1>3. Settled \in 0 .. Len(created) /\ Settled' \in Settled .. Len(created')
  BY <1>2, NodeClientAssumption DEF Settled
<1>4. /\ 1 .. Settled \subseteq 1 .. Len(created) /\ 1 .. Settled \subseteq 1 .. Settled'
      /\ 1 .. Len(created) \subseteq 1 .. Len(created')
  BY <1>2, <1>3
<1> QED BY <1>2, <1>4 DEF NamesUpTo, Accounts

-----------------------------------------------------------------------------
(* The inductive invariant. *)

PCs == {"idle", "send", "wait", "failed", "gaveup"}
States == {"pending", "running", "done", "raised", "read", "cancelled"}
Phases == {"new", "reading", "closing", "failing", "names", "returned", "raised"}

ThreadOf(S) == [pc : PCs, chunk : Nat, lower : S, tries : 0 .. MaxTries,
                called : SUBSET DOMAIN Nodes, alone : BOOLEAN]

Typed ==
    /\ phase \in Phases
    /\ batch \in Batches
    /\ futures \in Seq([state : States, items : Seq(Nat)])
    /\ yielded \in Nat
    /\ turn \in DOMAIN Nodes
    /\ Grown
    /\ \E S : threads \in [Threads -> ThreadOf(S)]

\* A thread works on a chunk of its own, the caller's own calls are those for
\* names, and no thread begins a try too many.
Busy(t) == threads[t].pc # "idle"

Pool ==
    /\ \A w \in Workers : Busy(w) =>
          /\ threads[w].chunk \in DOMAIN futures
          /\ futures[threads[w].chunk].state = "running"
    /\ \A w, v \in Workers : Busy(w) /\ Busy(v) /\ threads[w].chunk = threads[v].chunk => w = v
    /\ Busy(Main) <=> phase = "names"
    /\ \A t \in Threads : threads[t].pc = "send" => threads[t].tries < MaxTries

\* What the caller has read, and which chunks are left for the workers.
Reading ==
    /\ phase = "reading" =>
          /\ Len(futures) = Count
          /\ yielded < Len(futures)
          /\ \A i \in DOMAIN futures : i <= yielded <=> futures[i].state = "read"
    /\ phase = "closing" =>
          /\ Len(futures) = Count
          /\ yielded = Len(futures)
          /\ \A i \in DOMAIN futures : futures[i].state = "read"
    /\ phase \notin {"reading"} => Pending = {}
    /\ phase \in {"new", "names"} => futures = <<>>
    /\ Resting \/ phase = "names" => \A w \in Workers : ~Busy(w)
    /\ yielded <= Len(futures)

\* A chunk that is done holds the answers to its requests, and what has been read
\* those to the requests of the chunks read.
ItemOf(j, x) == x = Params[j] \/ (batch.method = "get_block" /\ x = NoBlock)

ItemsOf(i, items) ==
    /\ items \in Seq(Nat)
    /\ Len(items) = Upto(i) - Upto(i - 1)
    /\ \A j \in 1 .. Len(items) : ItemOf(Upto(i - 1) + j, items[j])

Data ==
    /\ futures # <<>> => Len(futures) = Count
    /\ \A i \in DOMAIN futures : futures[i].state = "done" => ItemsOf(i, futures[i].items)
    /\ phase \in {"reading", "closing"} =>
          /\ result \in Seq(Nat)
          /\ Len(result) = Upto(yielded)
          /\ \A j \in 1 .. Len(result) : ItemOf(j, result[j])
    /\ phase = "returned" /\ futures # <<>> => result = Params

ClientInv == Typed /\ Pool /\ Reading /\ Data

LEMMA InitInv == Init => ClientInv
<1> SUFFICES ASSUME Init PROVE ClientInv
  OBVIOUS
<1>1. MaxTries \in Nat /\ 1 \in DOMAIN Nodes
  BY NodeClientAssumption
<1>2. threads \in [Threads -> ThreadOf({0})]
  BY <1>1 DEF Init, Idle, ThreadOf, PCs
<1>3. futures \in Seq([state : States, items : Seq(Nat)]) /\ Len(futures) = 0 /\ DOMAIN futures = {}
  BY DEF Init
<1>4. Typed
  <2>1. created \in Seq(Names)
    <3>1. PICK T \in SUBSET Names : created \in [1 .. Cardinality(T) -> T]
      BY DEF Init
    <3>2. Cardinality(T) \in Nat
      BY NodeClientAssumption, FS_Subset, FS_CardinalityType
    <3> DEFINE n == Cardinality(T)
    <3> HIDE DEF n
    <3>3. created = [i \in 1 .. n |-> created[i]] /\ \A i \in 1 .. n : created[i] \in Names
      BY <3>1 DEF n
    <3>4. n \in Nat
      BY <3>2 DEF n
    <3> QED BY <3>3, <3>4, IsASeq
  <2>2. known = {}
    BY DEF Init
  <2>3. Grown
    BY <2>1, <2>2 DEF Grown
  <2> QED BY <1>1, <1>2, <1>3, <2>3 DEF Init, Typed, Phases
<1>5. \A t \in Threads : ~Busy(t) /\ threads[t].pc # "send"
  BY DEF Init, Busy, Idle
<1>6. Pool
  BY <1>5 DEF Init, Pool, Threads
<1>7. Reading
  BY <1>3, <1>5 DEF Init, Reading, Pending, Threads, Resting
<1>8. Data
  BY <1>3 DEF Init, Data
<1> QED BY <1>4, <1>6, <1>7, <1>8 DEF ClientInv

\* Chunks, counts and answers depend on the batch alone.
LEMMA SameBatch ==
  ASSUME batch' = batch
  PROVE  /\ Params' = Params /\ Size' = Size /\ Count' = Count
         /\ \A k : Upto(k)' = Upto(k)
         /\ \A j, x : ItemOf(j, x)' <=> ItemOf(j, x)
         /\ \A i, items : ItemsOf(i, items)' <=> ItemsOf(i, items)
BY DEF Params, Size, Count, Upto, ItemOf, ItemsOf

LEMMA SameData ==
  ASSUME Data, UNCHANGED <<phase, batch, futures, yielded, result>>
  PROVE  Data'
<1>1. batch' = batch BY DEF Data
<1> QED BY <1>1, SameBatch DEF Data

\* A try: the thread calls the current node.
LEMMA SendInv ==
  ASSUME ClientInv, NEW t \in Threads, Send(t)
  PROVE  ClientInv'
<1>1. PICK S : threads \in [Threads -> ThreadOf(S)]
  BY DEF ClientInv, Typed
<1>2. threads[t].tries \in 0..MaxTries /\ threads[t].tries < MaxTries
  BY <1>1 DEF Send, ClientInv, Pool, ThreadOf
<1>3. threads' = [threads EXCEPT ![t] = [threads[t] EXCEPT !.pc = "wait", !.tries = Tries(t), !.called = @ \cup {turn}]]
  BY <1>1 DEF Send
<1>4. [threads[t] EXCEPT !.pc = "wait", !.tries = Tries(t), !.called = @ \cup {turn}] \in ThreadOf(S)
  <2>1. Tries(t) \in 0..MaxTries
    BY <1>2, NodeClientAssumption DEF Tries
  <2>2. turn \in DOMAIN Nodes
    BY DEF ClientInv, Typed
  <2>3. threads[t] \in ThreadOf(S)
    BY <1>1
  <2>4. "wait" \in PCs
    BY DEF PCs
  <2> QED BY <2>1, <2>2, <2>3, <2>4 DEF ThreadOf
<1>5. threads' \in [Threads -> ThreadOf(S)]
  BY <1>1, <1>3, <1>4
<1>6. Typed'
  BY SameGrown, <1>5 DEF Send, ClientInv, Typed
<1>7. /\ \A u \in Threads : /\ Busy(u)' <=> Busy(u)
                            /\ threads'[u].chunk = threads[u].chunk
                            /\ threads'[u].pc = "send" => threads[u].pc = "send" /\ threads'[u].tries = threads[u].tries
  BY <1>1, <1>3 DEF Send, Busy, ThreadOf
<1>8. Pool'
  BY ZenonT(30), <1>7 DEF Send, ClientInv, Pool, Threads
<1>9. Reading'
  BY <1>7, SameBatch DEF Send, ClientInv, Reading, Threads, Pending, Resting
<1>10. Data'
  BY SameData DEF Send, ClientInv
<1> QED BY <1>6, <1>8, <1>9, <1>10 DEF ClientInv

\* A failed try: maybe another node, and another try or the end.
LEMMA RetryInv ==
  ASSUME ClientInv, NEW t \in Threads, Retry(t)
  PROVE  ClientInv'
<1>1. PICK S : threads \in [Threads -> ThreadOf(S)]
  BY DEF ClientInv, Typed
<1>2. turn' \in DOMAIN Nodes
  <2>1. turn \in 1..Len(Nodes) /\ Len(Nodes) \in Nat /\ Len(Nodes) > 0 /\ DOMAIN Nodes = 1..Len(Nodes)
    BY NodeClientAssumption DEF ClientInv, Typed
  <2>2. (turn % Len(Nodes)) \in 0..(Len(Nodes) - 1)
    BY <2>1
  <2> QED BY <2>1, <2>2 DEF Retry
<1>3. threads' = [u \in Threads |->
        IF u = t THEN [threads[t] EXCEPT !.pc = IF Again(t) THEN "send" ELSE "gaveup"]
        ELSE IF Switches(t) THEN [threads[u] EXCEPT !.alone = FALSE]
        ELSE threads[u]]
  BY DEF Retry
<1>4. ASSUME NEW u \in Threads PROVE threads'[u] \in ThreadOf(S)
  BY <1>1, <1>3 DEF ThreadOf, PCs
<1>5. threads' \in [Threads -> ThreadOf(S)]
  BY <1>3, <1>4
<1>6. Typed'
  BY SameGrown, <1>2, <1>5 DEF Retry, ClientInv, Typed
<1>7. ASSUME NEW u \in Threads
      PROVE  /\ Busy(u)' <=> Busy(u)
             /\ threads'[u].chunk = threads[u].chunk
             /\ threads'[u].pc = "send" => threads'[u].tries < MaxTries
  <2>1. threads[u] \in ThreadOf(S)
    BY <1>1
  <2>2. CASE u = t
    BY <1>3, <2>1, <2>2 DEF Retry, Busy, ThreadOf, Again
  <2>3. CASE u # t
    <3>1. threads[u].pc = "send" => threads[u].tries < MaxTries
      BY DEF ClientInv, Pool
    <3> QED BY <1>3, <2>1, <2>3, <3>1 DEF Busy, ThreadOf
  <2> QED BY <2>2, <2>3
<1>8. Pool'
  BY ZenonT(30), <1>7 DEF Retry, ClientInv, Pool, Threads
<1>9. Reading'
  BY <1>7, SameBatch DEF Retry, ClientInv, Reading, Threads, Pending, Resting
<1>10. Data'
  BY SameData DEF Retry, ClientInv
<1> QED BY <1>6, <1>8, <1>9, <1>10 DEF ClientInv

\* A new account, between two pages.
LEMMA NewAccountInv ==
  ASSUME ClientInv, NewAccount
  PROVE  ClientInv'
<1>1. Typed'
  <2>1. created' \in Seq(Names) /\ NamesUpTo(Settled) \subseteq NamesUpTo(Settled)'
    BY ViewsGrow DEF ClientInv, Typed, Grown
  <2> QED BY <2>1 DEF NewAccount, ClientInv, Typed, Grown
<1>2. \A t \in Threads : Busy(t)' <=> Busy(t)
  BY DEF NewAccount, Busy
<1>3. Pool'
  BY <1>2 DEF NewAccount, ClientInv, Pool, Threads
<1>4. Reading'
  BY <1>2, SameBatch DEF NewAccount, ClientInv, Reading, Threads, Pending, Resting
<1>5. Data'
  BY SameData DEF NewAccount, ClientInv
<1> QED BY <1>1, <1>3, <1>4, <1>5 DEF ClientInv

\* A call: all threads are at rest, and the chunks are those of the batch.
LEMMA CallInv ==
  ASSUME ClientInv, NEW b \in Batches, Call(b)
  PROVE  ClientInv'
<1>1. batch' = b /\ phase' = "reading" /\ yielded' = 0 /\ result' = <<>> /\ threads' = threads
  BY DEF Call
<1>2. /\ Count' \in Nat /\ Count' > 0
      /\ Len(Chunks)' = Count' /\ Upto(0)' = 0
  <2>1. Params' = b.params /\ Size' = b.size /\ b \in Batches
    BY <1>1 DEF Params, Size
  <2>2. Len(b.params) \in Nat /\ Len(b.params) > 0 /\ b.size \in Nat /\ b.size > 0
    BY <2>1, NodeClientAssumption, EmptySeq
  <2>3. Count' = (Len(b.params) + b.size - 1) \div b.size
    BY <2>1 DEF Count
  <2>4. Count' \in Nat /\ Count' > 0
    BY <2>2, <2>3, RoundedUp
  <2>5. Len(Chunks)' = Count'
    BY <1>1, <2>3, <2>4 DEF Chunks
  <2>6. Upto(0)' = 0
    BY <2>1, <2>2 DEF Upto
  <2> QED BY <2>4, <2>5, <2>6
<1>3. futures' = [i \in 1..Count' |-> [state |-> "pending", items |-> <<>>]]
  BY <1>2 DEF Call
<1>4. /\ futures' \in Seq([state : States, items : Seq(Nat)])
      /\ Len(futures') = Count' /\ DOMAIN futures' = 1..Count'
  <2>1. [state |-> "pending", items |-> <<>>] \in [state : States, items : Seq(Nat)]
    BY EmptySeq DEF States
  <2> DEFINE R == [state : States, items : Seq(Nat)]
             r == [state |-> "pending", items |-> <<>>]
  <2>2. r \in R
    BY <2>1
  <2>3. futures' = [i \in 1..Count' |-> r]
    BY <1>3
  <2> HIDE DEF R, r
  <2>4. futures' \in Seq(R) /\ Len(futures') = Count' /\ DOMAIN futures' = 1..Count'
    BY <1>2, <2>2, <2>3
  <2> QED BY <2>4 DEF R
<1>5. Typed'
  <2>1. Grown'
    <3>1. known' = {} /\ created' = created /\ created \in Seq(Names)
      BY DEF Call, ClientInv, Typed, Grown
    <3> QED BY <3>1 DEF Grown
  <2>2. /\ phase' \in Phases /\ batch' \in Batches /\ yielded' \in Nat
        /\ turn' \in DOMAIN Nodes /\ threads' = threads
    BY DEF Call, ClientInv, Typed, Phases
  <2>3. \E S : threads \in [Threads -> ThreadOf(S)]
    BY DEF ClientInv, Typed
  <2> QED BY <1>4, <2>1, <2>2, <2>3 DEF Typed
<1>6. \A t \in Threads : ~Busy(t) /\ threads[t].pc # "send"
  BY DEF Call, ClientInv, Reading, Pool, Resting, Threads, Busy
<1>7. Pool'
  BY <1>1, <1>6 DEF Pool, Threads, Busy
<1>8. \A i \in DOMAIN futures' : futures'[i].state = "pending"
  BY <1>3
<1>9. Reading'
  BY <1>1, <1>2, <1>4, <1>8 DEF Reading, Resting
<1>10. Data'
  <2>1. \A i \in DOMAIN futures' : futures'[i].state # "done"
    BY <1>8
  <2>2. result' \in Seq(Nat) /\ Len(result') = 0
    BY <1>1
  <2> QED BY <1>1, <1>2, <1>4, <2>1, <2>2 DEF Data
<1> QED BY <1>5, <1>7, <1>9, <1>10 DEF ClientInv

\* A worker begins the first chunk that waits.
LEMMA TakeInv ==
  ASSUME ClientInv, NEW w \in Workers, Take(w)
  PROVE  ClientInv'
<1>1. PICK S : threads \in [Threads -> ThreadOf(S)]
  BY DEF ClientInv, Typed
<1>2. /\ futures \in Seq([state : States, items : Seq(Nat)])
      /\ DOMAIN futures = 1..Len(futures) /\ Len(futures) \in Nat
  BY DEF ClientInv, Typed
<1>3. PICK i : i = (CHOOSE k \in Pending : \A j \in Pending : k <= j)
  OBVIOUS
<1>4. i \in Pending
  <2>1. Pending \subseteq Nat /\ Pending # {}
    BY <1>2 DEF Pending, Take
  <2>2. \E k \in Pending : \A j \in Pending : k <= j
    BY <2>1, LeastExists
  <2> QED BY <1>3, <2>2
<1>5. /\ futures' = [futures EXCEPT ![i].state = "running"]
      /\ threads' = [threads EXCEPT ![w] = Started(i, 0)]
      /\ threads[w].pc = "idle"
      /\ UNCHANGED <<phase, batch, yielded, result, turn, created, known>>
  BY <1>3 DEF Take
<1>6. i \in DOMAIN futures /\ futures[i].state = "pending" /\ i \in Nat
  BY <1>2, <1>4 DEF Pending
<1>7. /\ Started(i, 0) \in ThreadOf({0})
      /\ Started(i, 0).pc = "send" /\ Started(i, 0).tries = 0 /\ Started(i, 0).chunk = i
  <2>1. MaxTries \in Nat /\ 0 \in 0..MaxTries
    BY NodeClientAssumption
  <2>2. Idle \in ThreadOf({0}) /\ Idle.tries = 0
    BY <2>1 DEF Idle, ThreadOf, PCs
  <2>3. "send" \in PCs
    BY DEF PCs
  <2> HIDE DEF PCs
  <2> QED BY <1>6, <2>2, <2>3 DEF Started, ThreadOf
<1>8. threads' \in [Threads -> ThreadOf(S \cup {0})]
  <2>1. \A t \in Threads : threads[t] \in ThreadOf(S \cup {0})
    BY <1>1 DEF ThreadOf
  <2>2. Started(i, 0) \in ThreadOf(S \cup {0})
    BY <1>7 DEF ThreadOf
  <2> QED BY <1>1, <1>5, <2>1, <2>2
<1>9. /\ futures' \in Seq([state : States, items : Seq(Nat)])
      /\ Len(futures') = Len(futures) /\ DOMAIN futures' = DOMAIN futures
      /\ \A j \in DOMAIN futures : j # i => futures'[j] = futures[j]
      /\ futures'[i].state = "running"
  <2>1. [futures[i] EXCEPT !.state = "running"] \in [state : States, items : Seq(Nat)]
    <3>1. futures[i] \in [state : States, items : Seq(Nat)]
      BY <1>2, <1>6, ElementOfSeq
    <3>2. "running" \in States
      BY DEF States
    <3> QED BY <3>1, <3>2
  <2>2. futures' = [futures EXCEPT ![i] = [futures[i] EXCEPT !.state = "running"]]
    BY <1>5
  <2>3. [futures[i] EXCEPT !.state = "running"].state = "running"
    BY <1>2, <1>6
  <2> HIDE DEF States
  <2> QED BY <1>2, <1>6, <2>1, <2>2, <2>3
<1>10. Typed'
  BY SameGrown, <1>5, <1>8, <1>9 DEF ClientInv, Typed
<1>11. phase = "reading" /\ phase' = "reading"
  BY <1>4, <1>5 DEF ClientInv, Reading
<1>12. /\ \A t \in Threads : t # w => threads'[t] = threads[t]
       /\ threads'[w] = Started(i, 0)
       /\ w # Main
  BY <1>1, <1>5, NodeClientAssumption DEF Threads
<1>13. \A v \in Workers : Busy(v) => threads[v].chunk # i
  BY <1>6 DEF ClientInv, Pool
<1>14. Pool'
  <2>1. ASSUME NEW v \in Workers, Busy(v)'
        PROVE  threads'[v].chunk \in DOMAIN futures' /\ futures'[threads'[v].chunk].state = "running"
               /\ (v # w => Busy(v) /\ threads'[v] = threads[v])
    BY <2>1, <1>6, <1>7, <1>9, <1>12, <1>13 DEF Threads, ClientInv, Pool, Busy
  <2>2. ASSUME NEW u \in Workers, NEW v \in Workers, Busy(u)', Busy(v)', threads'[u].chunk = threads'[v].chunk
        PROVE  u = v
    BY <2>1, <2>2, <1>7, <1>12, <1>13 DEF ClientInv, Pool
  <2>3. ~Busy(Main)'
    BY <1>11, <1>12 DEF ClientInv, Pool, Busy, Threads
  <2>4. \A t \in Threads : threads'[t].pc = "send" => threads'[t].tries < MaxTries
    BY <1>7, <1>12, NodeClientAssumption DEF ClientInv, Pool
  <2> QED BY <2>1, <2>2, <2>3, <2>4, <1>11 DEF Pool
<1>15. Reading'
  <2>1. ~(i <= yielded)
    BY <1>6, <1>11 DEF ClientInv, Reading
  <2> QED BY <1>5, <1>9, <1>11, <2>1, SameBatch DEF ClientInv, Reading, Resting
<1>16. Data'
  <2>1. \A j \in DOMAIN futures' : futures'[j].state = "done" => futures[j].state = "done" /\ futures'[j] = futures[j]
    BY <1>9
  <2>2. futures # <<>>
    BY <1>6
  <2> QED BY <1>5, <1>9, <1>11, <2>1, <2>2, SameBatch DEF ClientInv, Data
<1> QED BY <1>10, <1>14, <1>15, <1>16 DEF ClientInv

\* A worker's chunk ends, with its answers or with an exception.
LEMMA ChunkEnds ==
  ASSUME ClientInv, NEW w \in Workers, Busy(w),
         NEW r \in [state : States, items : Seq(Nat)],
         r.state = "raised" \/ (r.state = "done" /\ ItemsOf(threads[w].chunk, r.items)),
         threads' = [threads EXCEPT ![w] = Idle],
         futures' = [futures EXCEPT ![threads[w].chunk] = r],
         UNCHANGED <<phase, batch, yielded, result, turn, created, known>>
  PROVE  ClientInv'
<1> DEFINE c == threads[w].chunk
           R == [state : States, items : Seq(Nat)]
<1>1. PICK S : threads \in [Threads -> ThreadOf(S)]
  BY DEF ClientInv, Typed
<1>2. /\ c \in DOMAIN futures /\ futures[c].state = "running"
      /\ futures \in Seq(R) /\ Len(futures) \in Nat /\ DOMAIN futures = 1..Len(futures)
  BY DEF ClientInv, Pool, Typed
<1>3. /\ futures' \in Seq(R)
      /\ Len(futures') = Len(futures) /\ DOMAIN futures' = DOMAIN futures
      /\ \A j \in DOMAIN futures : futures'[j] = IF j = c THEN r ELSE futures[j]
  <2>1. r \in R /\ futures' = [futures EXCEPT ![c] = r]
    OBVIOUS
  <2> HIDE DEF R, c
  <2> QED BY <1>2, <2>1, ExceptSeq, LenProperties
<1>4. /\ threads' \in [Threads -> ThreadOf(S \cup {0})]
      /\ \A t \in Threads : t # w => threads'[t] = threads[t]
      /\ threads'[w] = Idle /\ w # Main
  <2>1. \A t \in Threads : threads[t] \in ThreadOf(S \cup {0})
    BY <1>1 DEF ThreadOf
  <2>2. Idle \in ThreadOf(S \cup {0})
    BY NodeClientAssumption DEF Idle, ThreadOf, PCs
  <2> QED BY <1>1, <2>1, <2>2, NodeClientAssumption DEF Threads
<1>5. Idle.pc = "idle"
  BY DEF Idle
<1>6. Typed'
  BY SameGrown, <1>3, <1>4 DEF ClientInv, Typed
<1>7. Pool'
  <2>1. ASSUME NEW v \in Workers, Busy(v)'
        PROVE  v # w /\ Busy(v) /\ threads'[v] = threads[v] /\ threads[v].chunk # c
    BY <2>1, <1>4, <1>5 DEF Threads, ClientInv, Pool, Busy
  <2>2. ASSUME NEW v \in Workers, Busy(v)'
        PROVE  threads'[v].chunk \in DOMAIN futures' /\ futures'[threads'[v].chunk].state = "running"
    BY <2>1, <2>2, <1>3 DEF ClientInv, Pool
  <2>3. ASSUME NEW u \in Workers, NEW v \in Workers, Busy(u)', Busy(v)', threads'[u].chunk = threads'[v].chunk
        PROVE  u = v
    BY <2>1, <2>3 DEF ClientInv, Pool
  <2>4. Busy(Main)' <=> phase' = "names"
    BY <1>4 DEF ClientInv, Pool, Busy, Threads
  <2>5. \A t \in Threads : threads'[t].pc = "send" => threads'[t].tries < MaxTries
    BY <1>4, <1>5 DEF ClientInv, Pool
  <2> QED BY <2>2, <2>3, <2>4, <2>5 DEF Pool
<1>8. Reading'
  <2>1. ~Resting /\ phase # "names" /\ phase # "closing" /\ phase # "new"
    BY <1>2 DEF ClientInv, Reading, Resting
  <2>2. \A j \in DOMAIN futures : /\ futures'[j].state = "read" <=> futures[j].state = "read"
                                  /\ futures'[j].state = "pending" <=> futures[j].state = "pending"
    BY <1>2, <1>3
  <2> QED BY <1>3, <2>1, <2>2, SameBatch DEF ClientInv, Reading, Resting, Pending
<1>9. Data'
  <2>1. phase # "returned"
    BY DEF ClientInv, Reading, Resting
  <2>2. ASSUME NEW j \in DOMAIN futures', futures'[j].state = "done"
        PROVE  ItemsOf(j, futures'[j].items)
    BY <1>3, <2>2 DEF ClientInv, Data
  <2>3. futures' # <<>> => Len(futures') = Count
    BY <1>2, <1>3 DEF ClientInv, Data
  <2> QED BY <2>1, <2>2, <2>3, SameBatch DEF ClientInv, Data
<1> QED BY <1>6, <1>7, <1>8, <1>9 DEF ClientInv

\* The answers that a chunk is given are those to its requests.
LEMMA ContentsFit ==
  ASSUME batch \in Batches, NEW i \in 1..Count, NEW head
  PROVE  ItemsOf(i, Contents(Chunks[i], head))
<1> DEFINE chunk == Chunks[i]
           items == Contents(chunk, head)
<1>1. /\ chunk \in Seq(Nat \ {0}) /\ Len(chunk) = Upto(i) - Upto(i - 1)
      /\ \A j \in 1..Len(chunk) : chunk[j] = Params[Upto(i - 1) + j]
  BY ChunkIs
<1> HIDE DEF chunk
<1>2. Len(chunk) \in Nat /\ DOMAIN chunk = 1..Len(chunk)
  BY <1>1
<1>3. items \in Seq(Nat) /\ Len(items) = Len(chunk)
  <2>1. items \in [1..Len(chunk) -> Nat]
    BY <1>1, <1>2 DEF Contents, NoBlock
  <2> QED BY <1>2, <2>1
<1>4. \A j \in 1..Len(chunk) : ItemOf(Upto(i - 1) + j, items[j])
  BY <1>1, <1>2 DEF Contents, ItemOf
<1> QED BY <1>1, <1>3, <1>4 DEF ItemsOf, chunk

\* An answer to a worker.
LEMMA ReceiveInv ==
  ASSUME ClientInv, NEW w \in Workers, Receive(w)
  PROVE  ClientInv'
<1> DEFINE c == threads[w].chunk
           R == [state : States, items : Seq(Nat)]
<1>1. PICK S : threads \in [Threads -> ThreadOf(S)]
  BY DEF ClientInv, Typed
<1>2. PICK answer \in Answers(Len(Chunks[c])), head \in Heads :
        LET verdict == Verdict(answer, Len(Chunks[c])) IN
          /\ threads' = [threads EXCEPT
                ![w] = IF verdict = "retry" THEN [@ EXCEPT !.pc = "failed"] ELSE Idle]
          /\ futures' = CASE verdict = "ok" ->
                              [futures EXCEPT ![c] =
                                  [state |-> "done", items |-> Contents(Chunks[c], head)]]
                          [] verdict = "raise" -> [futures EXCEPT ![c].state = "raised"]
                          [] OTHER -> futures
  BY DEF Receive
<1> DEFINE verdict == Verdict(answer, Len(Chunks[c]))
<1>3. /\ Busy(w) /\ threads[w].pc = "wait"
      /\ UNCHANGED <<phase, batch, yielded, result, turn, created, known>>
  BY DEF Receive, Busy
<1>4. /\ c \in DOMAIN futures /\ c \in 1..Count /\ batch \in Batches
      /\ futures \in Seq(R) /\ DOMAIN futures = 1..Len(futures)
  <2>1. c \in DOMAIN futures /\ futures \in Seq(R)
    BY <1>3 DEF ClientInv, Pool, Typed
  <2>2. DOMAIN futures = 1..Len(futures) /\ futures # <<>>
    BY <2>1
  <2> QED BY <2>1, <2>2 DEF ClientInv, Data, Typed
<1>5. "done" \in States /\ "raised" \in States
  BY DEF States
<1>6. CASE verdict = "ok"
  <2> DEFINE r == [state |-> "done", items |-> Contents(Chunks[c], head)]
  <2>1. ItemsOf(c, Contents(Chunks[c], head))
    BY <1>4, ContentsFit
  <2>2. Contents(Chunks[c], head) \in Seq(Nat)
    BY <2>1 DEF ItemsOf
  <2>3. r \in R
    BY <1>5, <2>2
  <2>4. threads' = [threads EXCEPT ![w] = Idle] /\ futures' = [futures EXCEPT ![c] = r]
    BY <1>2, <1>6
  <2> QED BY <1>3, <2>1, <2>3, <2>4, ChunkEnds
<1>7. CASE verdict = "raise"
  <2> DEFINE r == [futures[c] EXCEPT !.state = "raised"]
  <2>1. futures[c] \in R
    BY <1>4, ElementOfSeq
  <2>2. r \in R /\ r.state = "raised"
    BY <1>5, <2>1
  <2>3. threads' = [threads EXCEPT ![w] = Idle] /\ futures' = [futures EXCEPT ![c] = r]
    BY <1>2, <1>7
  <2> QED BY <1>3, <2>2, <2>3, ChunkEnds
<1>8. CASE verdict # "ok" /\ verdict # "raise"
  <2>1. verdict = "retry"
    BY <1>8 DEF Verdict, ErrorVerdict
  <2>2. /\ threads' = [threads EXCEPT ![w] = [threads[w] EXCEPT !.pc = "failed"]]
        /\ futures' = futures
    BY <1>2, <2>1
  <2>3. [threads[w] EXCEPT !.pc = "failed"] \in ThreadOf(S)
    BY <1>1 DEF ThreadOf, PCs, Threads
  <2>4. threads' \in [Threads -> ThreadOf(S)]
    BY <1>1, <2>2, <2>3
  <2>5. Typed'
    BY SameGrown, <1>3, <2>2, <2>4 DEF ClientInv, Typed
  <2>6. \A u \in Threads : /\ Busy(u)' <=> Busy(u)
                           /\ threads'[u].chunk = threads[u].chunk
                           /\ threads'[u].pc = "send" => threads[u].pc = "send" /\ threads'[u].tries = threads[u].tries
    BY <1>1, <1>3, <2>2 DEF Busy, ThreadOf
  <2>7. Pool'
    BY <1>3, <2>2, <2>6 DEF ClientInv, Pool, Threads
  <2>8. Reading'
    BY <1>3, <2>2, <2>6, SameBatch DEF ClientInv, Reading, Threads, Pending, Resting
  <2>9. Data'
    BY <1>3, <2>2, SameData DEF ClientInv
  <2> QED BY <2>5, <2>7, <2>8, <2>9 DEF ClientInv
<1> QED BY <1>6, <1>7, <1>8

\* The last try failed.
LEMMA GiveUpInv ==
  ASSUME ClientInv, NEW t \in Threads, GiveUp(t)
  PROVE  ClientInv'
<1> DEFINE R == [state : States, items : Seq(Nat)]
<1>1. Busy(t) /\ threads' = [threads EXCEPT ![t] = Idle]
  BY DEF GiveUp, Busy
<1>2. CASE t # Main
  <2> DEFINE c == threads[t].chunk
             r == [futures[c] EXCEPT !.state = "raised"]
  <2>1. t \in Workers
    BY <1>2 DEF Threads
  <2>2. c \in DOMAIN futures /\ futures \in Seq(R)
    BY <1>1, <2>1 DEF ClientInv, Pool, Typed
  <2>3. futures[c] \in R
    <3>1. DOMAIN futures = 1..Len(futures)
      BY <2>2
    <3> QED BY <2>2, <3>1, ElementOfSeq
  <2>4. r \in R /\ r.state = "raised"
    BY <2>3 DEF States
  <2>5. /\ futures' = [futures EXCEPT ![c] = r]
        /\ UNCHANGED <<phase, batch, yielded, result, turn, created, known>>
    BY <1>2 DEF GiveUp
  <2> QED BY <1>1, <2>1, <2>4, <2>5, ChunkEnds
<1>3. CASE t = Main
  <2>1. PICK S : threads \in [Threads -> ThreadOf(S)]
    BY DEF ClientInv, Typed
  <2>2. /\ phase = "names" /\ phase' = "raised" /\ futures = <<>>
        /\ UNCHANGED <<batch, futures, yielded, result, turn, created, known>>
    BY <1>1, <1>3 DEF GiveUp, ClientInv, Pool, Reading
  <2>3. Idle \in ThreadOf({0}) /\ Idle.pc = "idle"
    BY NodeClientAssumption DEF Idle, ThreadOf, PCs
  <2>4. threads' \in [Threads -> ThreadOf(S \cup {0})]
    <3>1. \A u \in Threads : threads[u] \in ThreadOf(S \cup {0})
      BY <2>1 DEF ThreadOf
    <3>2. Idle \in ThreadOf(S \cup {0})
      BY <2>3 DEF ThreadOf
    <3> QED BY <1>1, <2>1, <3>1, <3>2
  <2>5. Typed'
    BY SameGrown, <2>2, <2>4 DEF ClientInv, Typed, Phases
  <2>6. \A u \in Threads : threads'[u] = IF u = Main THEN Idle ELSE threads[u]
    BY <1>1, <1>3, <2>1
  <2>7. \A u \in Threads : ~Busy(u)'
    BY <2>2, <2>3, <2>6 DEF ClientInv, Reading, Busy, Threads
  <2>8. Pool'
    BY <2>2, <2>7 DEF Pool, Threads, Busy
  <2>9. Reading'
    BY <2>2, <2>7 DEF ClientInv, Reading, Pending, Resting, Threads
  <2>10. Data'
    BY <2>2, SameBatch DEF ClientInv, Data
  <2> QED BY <2>5, <2>8, <2>9, <2>10 DEF ClientInv
<1> QED BY <1>2, <1>3

\* The caller reads the answers of the next chunk.
LEMMA ReadDoneInv ==
  ASSUME ClientInv, phase = "reading", NEW i \in Ready, futures[i].state = "done",
         result' = result \o futures[i].items,
         yielded' = yielded + 1,
         futures' = [futures EXCEPT ![i].state = "read"],
         phase' = IF yielded' = Len(futures) THEN "closing" ELSE phase,
         UNCHANGED <<batch, threads, turn, created, known>>
  PROVE  ClientInv'
<1> DEFINE R == [state : States, items : Seq(Nat)]
           r == [futures[i] EXCEPT !.state = "read"]
<1>1. /\ i = yielded + 1 /\ i \in DOMAIN futures /\ futures \in Seq(R)
      /\ DOMAIN futures = 1..Len(futures) /\ Len(futures) \in Nat /\ yielded \in Nat
  BY DEF ClientInv, Typed, Ready
<1>2. futures[i] \in R
  BY <1>1, ElementOfSeq
<1>3. r \in R /\ r.state = "read"
  BY <1>2 DEF States
<1>4. /\ futures' \in Seq(R)
      /\ Len(futures') = Len(futures) /\ DOMAIN futures' = DOMAIN futures
      /\ \A j \in DOMAIN futures : futures'[j] = IF j = i THEN r ELSE futures[j]
  <2>1. futures' = [futures EXCEPT ![i] = r]
    OBVIOUS
  <2> HIDE DEF R, r
  <2> QED BY <1>1, <1>3, <2>1, ExceptSeq, LenProperties
<1>5. /\ futures # <<>> /\ Len(futures) = Count /\ i \in 1..Count /\ batch \in Batches
      /\ yielded < Len(futures)
      /\ \A j \in DOMAIN futures : j <= yielded <=> futures[j].state = "read"
  BY <1>1 DEF ClientInv, Reading, Typed
<1>6. Typed'
  <2>1. phase' \in Phases /\ yielded' \in Nat
    BY <1>1 DEF Phases
  <2> QED BY SameGrown, <1>4, <2>1 DEF ClientInv, Typed
<1>7. Pool'
  <2>1. \A w \in Workers : Busy(w) => threads[w].chunk # i
    BY DEF ClientInv, Pool
  <2>2. phase' # "names"
    OBVIOUS
  <2> QED BY <1>4, <2>1, <2>2 DEF ClientInv, Pool, Busy
<1>8. Reading'
  <2>1. \A j \in DOMAIN futures' : j <= yielded' <=> futures'[j].state = "read"
    BY <1>1, <1>3, <1>4, <1>5
  <2>2. CASE yielded' = Len(futures)
    <3>1. phase' = "closing" /\ yielded' = Len(futures')
      <4>1. phase' = "closing"
        BY <2>2
      <4> QED BY <1>4, <2>2, <4>1
    <3>2. \A j \in DOMAIN futures' : futures'[j].state = "read"
      BY <1>1, <1>4, <2>1, <3>1
    <3> QED BY <1>4, <1>5, <3>1, <3>2, SameBatch DEF Reading, Resting, Pending
  <2>3. CASE yielded' # Len(futures)
    <3>1. phase' = "reading" /\ yielded' < Len(futures')
      BY <1>1, <1>4, <1>5, <2>3
    <3>2. Len(futures') = Count'
      BY <1>4, <1>5, SameBatch
    <3>3. ~(Resting' \/ phase' = "names") /\ phase' \notin {"new", "names", "closing"}
      BY <3>1 DEF Resting
    <3>4. yielded' <= Len(futures')
      BY <1>1, <1>4, <1>5
    <3> QED BY <2>1, <3>1, <3>2, <3>3, <3>4 DEF Reading
  <2> QED BY <2>2, <2>3
<1>9. Data'
  <2> DEFINE items == futures[i].items
  <2>1. /\ ItemsOf(i, items) /\ result \in Seq(Nat) /\ Len(result) = Upto(yielded)
        /\ \A j \in 1..Len(result) : ItemOf(j, result[j])
    BY <1>1 DEF ClientInv, Data
  <2> HIDE DEF items
  <2>2. /\ items \in Seq(Nat) /\ Len(items) = Upto(i) - Upto(yielded)
        /\ \A j \in 1..Len(items) : ItemOf(Upto(yielded) + j, items[j])
    BY <2>1, <1>1 DEF ItemsOf
  <2>3. Upto(yielded) \in Nat /\ Upto(i) \in Nat /\ Upto(yielded) < Upto(i)
    BY <1>1, <1>5, ChunkIs
  <2>4. /\ result' \in Seq(Nat) /\ Len(result') = Len(result) + Len(items)
        /\ \A j \in 1..Len(result') :
              result'[j] = IF j <= Len(result) THEN result[j] ELSE items[j - Len(result)]
    <3>1. result' = result \o items
      BY DEF items
    <3>2. /\ result \o items \in Seq(Nat)
          /\ Len(result \o items) = Len(result) + Len(items)
          /\ \A j \in 1 .. Len(result) + Len(items) :
                (result \o items)[j] = IF j <= Len(result) THEN result[j] ELSE items[j - Len(result)]
      BY <2>1, <2>2, ConcatProperties
    <3> QED BY <3>1, <3>2
  <2>5. Len(result') = Upto(yielded')
    BY <1>1, <2>1, <2>2, <2>3, <2>4
  <2>6. ASSUME NEW j \in 1..Len(result')
        PROVE  ItemOf(j, result'[j])
    <3>1. CASE j <= Len(result)
      BY <2>1, <2>4, <3>1
    <3>2. CASE ~(j <= Len(result))
      <4>1. j - Len(result) \in 1..Len(items) /\ Upto(yielded) + (j - Len(result)) = j
        BY <2>1, <2>2, <2>3, <2>4, <3>2
      <4> QED BY <2>2, <2>4, <3>2, <4>1
    <3> QED BY <3>1, <3>2
  <2>7. \A j \in DOMAIN futures' : futures'[j].state = "done" => ItemsOf(j, futures'[j].items)
    BY <1>3, <1>4 DEF ClientInv, Data
  <2>8. phase' # "returned"
    OBVIOUS
  <2> QED BY <1>4, <1>5, <2>4, <2>5, <2>6, <2>7, <2>8, SameBatch DEF Data
<1> QED BY <1>6, <1>7, <1>8, <1>9 DEF ClientInv

\* The caller meets an exception: what waits is cancelled.
LEMMA ReadRaisedInv ==
  ASSUME ClientInv, phase = "reading",
         phase' = "failing",
         futures' = [j \in DOMAIN futures |->
             IF j \in Pending THEN [futures[j] EXCEPT !.state = "cancelled"]
             ELSE futures[j]],
         UNCHANGED <<result, yielded, batch, threads, turn, created, known>>
  PROVE  ClientInv'
<1> DEFINE R == [state : States, items : Seq(Nat)]
<1>1. /\ futures \in Seq(R) /\ DOMAIN futures = 1..Len(futures) /\ Len(futures) \in Nat
      /\ Len(futures) = Count
  BY DEF ClientInv, Typed, Reading
<1>2. ASSUME NEW j \in DOMAIN futures
      PROVE  /\ futures'[j] \in R
             /\ futures'[j].state = IF futures[j].state = "pending" THEN "cancelled"
                                    ELSE futures[j].state
             /\ futures'[j].items = futures[j].items
  <2>1. futures[j] \in R
    BY <1>1, ElementOfSeq
  <2>2. "cancelled" \in States
    BY DEF States
  <2>3. CASE j \in Pending
    <3>1. futures'[j] = [futures[j] EXCEPT !.state = "cancelled"] /\ futures[j].state = "pending"
      BY <2>3 DEF Pending
    <3> HIDE DEF States
    <3> QED BY <2>1, <2>2, <3>1
  <2>4. CASE j \notin Pending
    BY <2>1, <2>4 DEF Pending
  <2> QED BY <2>3, <2>4
<1>3. futures' \in Seq(R) /\ DOMAIN futures' = DOMAIN futures /\ Len(futures') = Len(futures)
  <2> HIDE DEF R
  <2>1. DOMAIN futures' = 1..Len(futures)
    BY <1>1
  <2>2. futures' \in [1..Len(futures) -> R]
    BY <1>1, <1>2
  <2> QED BY <1>1, <2>1, <2>2
<1>4. Typed'
  BY SameGrown, <1>3 DEF ClientInv, Typed, Phases
<1>5. Pool'
  BY <1>2, <1>3 DEF ClientInv, Pool, Busy
<1>6. Reading'
  BY <1>2, <1>3 DEF ClientInv, Reading, Resting, Pending
<1>7. Data'
  BY <1>1, <1>2, <1>3, SameBatch DEF ClientInv, Data
<1> QED BY <1>4, <1>5, <1>6, <1>7 DEF ClientInv

\* The pool is shut down.
LEMMA CloseInv ==
  ASSUME ClientInv, Close
  PROVE  ClientInv'
<1>1. /\ UNCHANGED <<batch, futures, yielded, result, threads, turn, created, known>>
      /\ phase' \in {"returned", "raised"}
      /\ phase \in {"closing", "failing"}
      /\ \A w \in Workers : threads[w].pc = "idle"
  BY DEF Close, Quiet
<1>2. Typed'
  BY SameGrown, <1>1 DEF ClientInv, Typed, Phases
<1>3. Pool'
  BY <1>1 DEF ClientInv, Pool, Busy
<1>4. Reading'
  BY <1>1 DEF ClientInv, Reading, Resting, Pending, Busy
<1>5. Data'
  <2>1. CASE phase' = "raised"
    BY <1>1, <2>1, SameBatch DEF ClientInv, Data
  <2>2. CASE phase' = "returned"
    <3>1. phase = "closing" /\ Sane /\ batch \in Batches
      BY <2>2 DEF Close, ClientInv, Typed
    <3>2. /\ result \in Seq(Nat) /\ Len(result) = Upto(Count)
          /\ \A j \in 1..Len(result) : ItemOf(j, result[j])
      BY <3>1 DEF ClientInv, Data, Reading
    <3>3. Upto(Count) = Len(Params) /\ Params \in Seq(Nat)
      BY <3>1, ChunkCount, BatchFacts, SeqMonotonic
    <3>4. \A j \in 1..Len(result) : result[j] = Params[j]
      BY <3>1, <3>2 DEF ItemOf, Sane
    <3>5. result = Params
      BY <3>2, <3>3, <3>4, SeqEqual
    <3> QED BY <1>1, <2>2, <3>5, SameBatch DEF ClientInv, Data
  <2> QED BY <1>1, <2>1, <2>2
<1> QED BY <1>2, <1>3, <1>4, <1>5 DEF ClientInv

\* A call for the names.
LEMMA CallNamesInv ==
  ASSUME ClientInv, CallNames
  PROVE  ClientInv'
<1>1. PICK S : threads \in [Threads -> ThreadOf(S)]
  BY DEF ClientInv, Typed
<1>2. /\ Started(0, 0) \in ThreadOf(S \cup {0})
      /\ Started(0, 0).pc = "send" /\ Started(0, 0).tries = 0
  <2>1. Idle \in ThreadOf(S \cup {0}) /\ Idle.tries = 0
    BY NodeClientAssumption DEF Idle, ThreadOf, PCs
  <2> QED BY <2>1 DEF Started, ThreadOf, PCs
<1>3. threads' = [threads EXCEPT ![Main] = Started(0, 0)]
  BY DEF CallNames
<1>4. /\ threads' \in [Threads -> ThreadOf(S \cup {0})]
      /\ \A t \in Threads : threads'[t] = IF t = Main THEN Started(0, 0) ELSE threads[t]
  <2>1. \A t \in Threads : threads[t] \in ThreadOf(S \cup {0})
    BY <1>1 DEF ThreadOf
  <2> QED BY <1>1, <1>2, <1>3, <2>1
<1>5. /\ futures' \in Seq([state : States, items : Seq(Nat)])
      /\ futures' = <<>> /\ Len(futures') = 0 /\ DOMAIN futures' = {}
  BY EmptySeq DEF CallNames
<1>6. Typed'
  <2>1. Grown'
    BY DEF CallNames, ClientInv, Typed, Grown, NamesUpTo, Settled
  <2> QED BY <1>4, <1>5, <2>1 DEF CallNames, ClientInv, Typed, Phases
<1>7. \A w \in Workers : ~Busy(w) /\ w # Main /\ w \in Threads
  BY NodeClientAssumption DEF CallNames, ClientInv, Reading, Threads
<1>8. \A w \in Workers : ~Busy(w)'
  BY <1>4, <1>7 DEF Busy
<1>9. Pool'
  <2>1. Busy(Main)' /\ phase' = "names"
    BY <1>2, <1>4 DEF CallNames, Busy, Threads
  <2>2. \A t \in Threads : threads'[t].pc = "send" => threads'[t].tries < MaxTries
    BY <1>2, <1>4, NodeClientAssumption DEF ClientInv, Pool
  <2> QED BY <1>8, <2>1, <2>2 DEF Pool
<1>10. Reading'
  BY <1>5, <1>8 DEF CallNames, Reading, Resting, Pending
<1>11. Data'
  BY <1>5 DEF CallNames, Data
<1> QED BY <1>6, <1>9, <1>10, <1>11 DEF ClientInv

\* A page of names, or none.
LEMMA ReceiveNamesInv ==
  ASSUME ClientInv, ReceiveNames
  PROVE  ClientInv'
<1>1. PICK S : threads \in [Threads -> ThreadOf(S)]
  BY DEF ClientInv, Typed
<1>2. Main \in Threads /\ Busy(Main) /\ threads[Main].pc = "wait"
  BY DEF ReceiveNames, Busy, Threads
<1>3. /\ phase = "names" /\ futures = <<>>
      /\ \A w \in Workers : ~Busy(w) /\ w # Main /\ w \in Threads
      /\ UNCHANGED <<batch, futures, yielded, turn, created, known>>
  BY <1>2, NodeClientAssumption DEF ReceiveNames, ClientInv, Pool, Reading, Threads
<1>4. PICK r : /\ threads' = [threads EXCEPT ![Main] = r]
               /\ \/ r = [threads[Main] EXCEPT !.pc = "failed"] /\ phase' = phase
                  \/ r = Idle /\ phase' \in {"raised", "returned"}
                  \/ phase' = phase /\ \E lower : r = Started(0, lower)
  BY DEF ReceiveNames
<1>5. PICK lower : r \in ThreadOf(S \cup {0, lower})
  <2>1. \A x : threads[Main] \in ThreadOf(S \cup {0, x}) /\ Idle \in ThreadOf(S \cup {0, x})
    BY <1>1, <1>2, NodeClientAssumption DEF Idle, ThreadOf, PCs
  <2>2. CASE r = [threads[Main] EXCEPT !.pc = "failed"]
    BY <2>1, <2>2 DEF ThreadOf, PCs
  <2>3. CASE r = Idle
    BY <2>1, <2>3
  <2>4. CASE \E lower : r = Started(0, lower)
    <3>1. PICK x : r = Started(0, x)
      BY <2>4
    <3>2. Idle \in ThreadOf(S \cup {0, x}) /\ "send" \in PCs
      BY <2>1 DEF PCs
    <3>3. Started(0, x) \in ThreadOf(S \cup {0, x})
      BY <3>2 DEF Started, ThreadOf
    <3> QED BY <3>1, <3>3
  <2> QED BY <1>4, <2>2, <2>3, <2>4
<1>6. /\ r.pc = "send" => r.tries = 0
      /\ r.pc # "idle" <=> phase' = "names"
      /\ phase' \in {"names", "raised", "returned"}
  <2>1. CASE r = [threads[Main] EXCEPT !.pc = "failed"] /\ phase' = phase
    <3>1. threads[Main] \in ThreadOf(S)
      BY <1>1, <1>2
    <3>2. r.pc = "failed"
      BY <2>1, <3>1 DEF ThreadOf
    <3> QED BY <1>3, <2>1, <3>2
  <2>2. CASE r = Idle /\ phase' \in {"raised", "returned"}
    BY <2>2 DEF Idle
  <2>3. CASE phase' = phase /\ \E x : r = Started(0, x)
    <3>1. r.pc = "send" /\ r.tries = 0
      BY <2>3 DEF Started, Idle
    <3> QED BY <1>3, <2>3, <3>1
  <2> QED BY <1>4, <2>1, <2>2, <2>3
<1>7. /\ threads' \in [Threads -> ThreadOf(S \cup {0, lower})]
      /\ \A t \in Threads : threads'[t] = IF t = Main THEN r ELSE threads[t]
  <2>1. \A t \in Threads : threads[t] \in ThreadOf(S \cup {0, lower})
    BY <1>1 DEF ThreadOf
  <2> QED BY <1>1, <1>4, <1>5, <2>1
<1>8. Typed'
  BY SameGrown, <1>3, <1>6, <1>7 DEF ClientInv, Typed, Phases
<1>9. \A w \in Workers : ~Busy(w)'
  BY <1>3, <1>7 DEF Busy
<1>10. Pool'
  <2>1. Busy(Main)' <=> phase' = "names"
    BY <1>2, <1>6, <1>7 DEF Busy
  <2>2. \A t \in Threads : threads'[t].pc = "send" => threads'[t].tries < MaxTries
    BY <1>6, <1>7, NodeClientAssumption DEF ClientInv, Pool
  <2> QED BY <1>9, <2>1, <2>2 DEF Pool
<1>11. Reading'
  BY <1>3, <1>6, <1>9 DEF ClientInv, Reading, Resting, Pending
<1>12. Data'
  BY <1>3, <1>6, SameBatch DEF ClientInv, Data
<1> QED BY <1>8, <1>10, <1>11, <1>12 DEF ClientInv

\* The caller reads what the next chunk has become.
LEMMA ReadInv ==
  ASSUME ClientInv, Read
  PROVE  ClientInv'
<1>1. PICK i \in Ready :
        IF futures[i].state = "done"
        THEN /\ result' = result \o futures[i].items
             /\ yielded' = yielded + 1
             /\ futures' = [futures EXCEPT ![i].state = "read"]
             /\ phase' = IF yielded' = Len(futures) THEN "closing" ELSE phase
        ELSE /\ phase' = "failing"
             /\ futures' = [j \in DOMAIN futures |->
                    IF j \in Pending THEN [futures[j] EXCEPT !.state = "cancelled"]
                    ELSE futures[j]]
             /\ UNCHANGED <<result, yielded>>
  BY DEF Read
<1>2. phase = "reading" /\ UNCHANGED <<batch, threads, turn, created, known>>
  BY DEF Read
<1>3. CASE futures[i].state = "done"
  BY <1>1, <1>2, <1>3, ReadDoneInv
<1>4. CASE futures[i].state # "done"
  BY <1>1, <1>2, <1>4, ReadRaisedInv
<1> QED BY <1>3, <1>4

LEMMA StepInv == ClientInv /\ [Next]_vars => ClientInv'
<1> SUFFICES ASSUME ClientInv, [Next]_vars PROVE ClientInv'
  OBVIOUS
<1>1. CASE \E b \in Batches : Call(b)
  BY <1>1, CallInv
<1>2. CASE CallNames
  BY <1>2, CallNamesInv
<1>3. CASE MainStep
  <2>1. Main \in Threads
    BY DEF Threads
  <2> QED BY <1>3, <2>1, ReadInv, CloseInv, SendInv, ReceiveNamesInv, RetryInv, GiveUpInv
      DEF MainStep
<1>4. CASE \E w \in Workers : WorkerStep(w)
  <2>1. PICK w \in Workers : WorkerStep(w)
    BY <1>4
  <2>2. w \in Threads
    BY DEF Threads
  <2> QED BY <2>1, <2>2, TakeInv, SendInv, ReceiveInv, RetryInv, GiveUpInv DEF WorkerStep
<1>5. CASE NewAccount
  BY <1>5, NewAccountInv
<1>6. CASE UNCHANGED vars
  <2> USE <1>6 DEF vars
  <2>1. Typed' /\ Pool'
    BY SameGrown DEF ClientInv, Typed, Pool, Busy
  <2>2. Reading'
    BY SameBatch DEF ClientInv, Reading, Resting, Pending, Busy
  <2>3. Data'
    BY SameData DEF ClientInv
  <2> QED BY <2>1, <2>2, <2>3 DEF ClientInv
<1> QED BY <1>1, <1>2, <1>3, <1>4, <1>5, <1>6 DEF Next

-----------------------------------------------------------------------------
(* What the client promises. *)

LEMMA Invariant == Spec => []ClientInv
BY InitInv, StepInv, PTL DEF Spec

\* Every variable holds a value of its type, no thread begins more than MaxTries
\* tries, and every busy worker has a chunk that exists and is running
\* (http_client.py exec, exec_multi).
THEOREM TypeCorrect == Spec => []TypeOK
<1>1. ClientInv => TypeOK
  <2> SUFFICES ASSUME ClientInv PROVE TypeOK
    OBVIOUS
  <2>1. PICK S : threads \in [Threads -> ThreadOf(S)]
    BY DEF ClientInv, Typed
  <2>2. ASSUME NEW t \in Threads
        PROVE  /\ threads[t].pc \in PCs
               /\ threads[t].tries \in 0 .. MaxTries
               /\ threads[t].called \subseteq DOMAIN Nodes
               /\ threads[t].pc # "idle" /\ t # Main =>
                     futures[threads[t].chunk].state = "running"
    <3>1. threads[t] \in ThreadOf(S)
      BY <2>1
    <3> QED BY <3>1 DEF ThreadOf, ClientInv, Pool, Busy, Threads
  <2>3. \A i \in DOMAIN futures : futures[i].state \in States
    <3>1. /\ futures \in Seq([state : States, items : Seq(Nat)])
          /\ DOMAIN futures = 1..Len(futures)
      BY DEF ClientInv, Typed
    <3>2. ASSUME NEW i \in DOMAIN futures PROVE futures[i] \in [state : States, items : Seq(Nat)]
      BY <3>1, ElementOfSeq
    <3> QED BY <3>2
  <2>4. yielded \in 0 .. Len(futures)
    BY DEF ClientInv, Typed, Reading
  <2> QED BY <2>2, <2>3, <2>4 DEF ClientInv, Typed, Grown, TypeOK, PCs, States, Phases
<1> QED BY <1>1, Invariant, PTL

\* When the caller has its result or its exception, no thread works for it any
\* more, whatever was retried, cancelled or given up (http_client.py exec_multi).
THEOREM NothingLeft == Spec => []NothingLeftRunning
<1>1. ClientInv => NothingLeftRunning
  BY DEF ClientInv, Reading, NothingLeftRunning, Busy
<1> QED BY <1>1, Invariant, PTL

\* A batch that returns holds the answer to each request, once and in the order
\* of the requests, for any threads, chunk sizes and retries (client.py
\* get_content_batch, get_blocks_range).
THEOREM AnswersInOrder == Spec => []InOrder
<1>1. ClientInv => InOrder
  <2> SUFFICES ASSUME ClientInv PROVE InOrder
    OBVIOUS
  <2>1. phase = "returned" /\ futures # <<>> => result = batch.params
    BY DEF ClientInv, Data, Params
  <2>2. ASSUME phase \in {"reading", "closing"}, NEW i \in DOMAIN result
        PROVE  result[i] \in {batch.params[i], NoBlock}
    <3>1. result \in Seq(Nat) /\ \A j \in 1 .. Len(result) : ItemOf(j, result[j])
      BY <2>2 DEF ClientInv, Data
    <3> QED BY <3>1 DEF ItemOf, Params
  <2> QED BY <2>1, <2>2 DEF InOrder
<1> QED BY <1>1, Invariant, PTL

-----------------------------------------------------------------------------
(* The cycle of nodes. *)

\* The node that was current d switches ago.
Back(d) == IF d < turn THEN turn - d ELSE turn - d + Len(Nodes)

\* A thread that alone has switched the node has called all those it has passed: the
\* current one too, unless it has just switched to it.
Calling(t) == threads[t].pc \in {"wait", "failed"}
Passed(t) == IF Calling(t) THEN (threads[t].tries - 1) \div 2 ELSE threads[t].tries \div 2
Newest(t) == IF Calling(t) \/ threads[t].tries % 2 = 1 THEN 0 ELSE 1

Cycled(t) ==
    /\ Calling(t) => threads[t].tries >= 1
    /\ threads[t].pc = "gaveup" => threads[t].tries >= MaxTries
    /\ Busy(t) /\ threads[t].alone =>
          \A d \in Newest(t) .. Len(Nodes) : d <= Passed(t) => Back(d) \in threads[t].called

CycleInv == \A t \in Threads : Cycled(t)

\* A thread that another's step leaves alone, or that rests or begins.
LEMMA CycledKept ==
  ASSUME NEW t \in Threads, turn' = turn, Cycled(t),
         threads'[t] = threads[t] \/ threads'[t] = Idle \/ \E c, x : threads'[t] = Started(c, x)
  PROVE  Cycled(t)'
<1>1. CASE threads'[t] = threads[t]
  BY <1>1 DEF Cycled, Calling, Passed, Newest, Back, Busy
<1>2. CASE threads'[t] = Idle
  BY <1>2 DEF Cycled, Calling, Busy, Idle
<1>3. CASE \E c, x : threads'[t] = Started(c, x)
  <2>1. threads'[t].pc = "send" /\ threads'[t].tries = 0
    BY <1>3 DEF Started, Idle
  <2>2. ~Calling(t)' /\ Newest(t)' = 1 /\ Passed(t)' = 0
    BY <2>1 DEF Calling, Newest, Passed
  <2>3. \A d \in 1 .. Len(Nodes) : ~(d <= 0)
    OBVIOUS
  <2> QED BY <2>1, <2>2, <2>3 DEF Cycled
<1> QED BY <1>1, <1>2, <1>3

LEMMA SendCycles ==
  ASSUME ClientInv, CycleInv, NEW t \in Threads, Send(t)
  PROVE  CycleInv'
<1>1. PICK S : threads \in [Threads -> ThreadOf(S)]
  BY DEF ClientInv, Typed
<1>2. \A u \in Threads : u # t => threads'[u] = threads[u]
  BY <1>1 DEF Send
<1>3. /\ threads[t].pc = "send" /\ threads[t].tries \in Nat /\ turn' = turn
      /\ threads'[t].pc = "wait" /\ threads'[t].tries = threads[t].tries + 1
      /\ threads'[t].alone = threads[t].alone
      /\ threads'[t].called = threads[t].called \cup {turn}
  <2>1. threads[t] \in ThreadOf(S) /\ threads[t].tries \in Nat
    BY <1>1, NodeClientAssumption DEF ThreadOf
  <2>2. threads'[t] = [threads[t] EXCEPT !.pc = "wait", !.tries = Tries(t), !.called = @ \cup {turn}]
    BY <1>1 DEF Send
  <2>3. threads[t].pc = "send" /\ turn' = turn
    BY DEF Send
  <2> QED BY <2>1, <2>2, <2>3 DEF Tries, ThreadOf
<1>4. /\ Calling(t)' /\ ~Calling(t) /\ Passed(t)' = Passed(t) /\ Newest(t)' = 0 /\ Busy(t)
      /\ Newest(t) \in {0, 1}
  BY <1>3 DEF Calling, Passed, Newest, Busy
<1>5. turn \in 1..Len(Nodes) /\ Len(Nodes) \in Nat
  BY NodeClientAssumption DEF ClientInv, Typed
<1>6. Back(0) = turn /\ \A d : Back(d)' = Back(d)
  BY <1>3, <1>5 DEF Back
<1>7. ASSUME threads'[t].alone, NEW d \in 0 .. Len(Nodes), d <= Passed(t)
      PROVE  Back(d) \in threads'[t].called
  <2>1. CASE d = 0
    BY <1>3, <1>6, <2>1
  <2>2. CASE d # 0
    <3>1. d \in Newest(t) .. Len(Nodes)
      BY <1>4, <1>5, <2>2
    <3> QED BY <1>3, <1>4, <1>7, <3>1 DEF CycleInv, Cycled
  <2> QED BY <2>1, <2>2
<1>8. Cycled(t)'
  <2>1. threads'[t].tries >= 1 /\ threads'[t].pc # "gaveup"
    BY <1>3
  <2> QED BY <1>4, <1>6, <1>7, <2>1 DEF Cycled
<1>9. ASSUME NEW u \in Threads, u # t PROVE Cycled(u)'
  BY <1>2, <1>3, <1>9, CycledKept DEF CycleInv
<1> QED BY <1>8, <1>9 DEF CycleInv

LEMMA RetryCycles ==
  ASSUME ClientInv, CycleInv, NEW t \in Threads, Retry(t)
  PROVE  CycleInv'
<1>1. PICK S : threads \in [Threads -> ThreadOf(S)]
  BY DEF ClientInv, Typed
<1>2. /\ threads[t].pc = "failed" /\ threads[t].tries \in Nat /\ threads[t].tries >= 1
      /\ threads'[t].pc = IF Again(t) THEN "send" ELSE "gaveup"
      /\ threads'[t].tries = threads[t].tries
      /\ threads'[t].alone = threads[t].alone
      /\ threads'[t].called = threads[t].called
  <2>1. threads[t] \in ThreadOf(S) /\ threads[t].tries \in Nat /\ threads[t].pc = "failed"
    BY <1>1, NodeClientAssumption DEF ThreadOf, Retry
  <2>2. threads'[t] = [threads[t] EXCEPT !.pc = IF Again(t) THEN "send" ELSE "gaveup"]
    BY DEF Retry
  <2>3. threads[t].tries >= 1
    BY <2>1 DEF CycleInv, Cycled, Calling
  <2> QED BY <2>1, <2>2, <2>3 DEF ThreadOf
<1>3. /\ Calling(t) /\ ~Calling(t)' /\ Newest(t) = 0
      /\ Passed(t) = (threads[t].tries - 1) \div 2
      /\ Passed(t)' = threads[t].tries \div 2
      /\ Newest(t)' = IF threads[t].tries % 2 = 1 THEN 0 ELSE 1
  BY <1>2 DEF Calling, Passed, Newest
<1>4. turn \in 1..Len(Nodes) /\ Len(Nodes) \in Nat
  BY NodeClientAssumption DEF ClientInv, Typed
<1>5. threads'[t].pc = "gaveup" => threads'[t].tries >= MaxTries
  BY <1>2, NodeClientAssumption DEF Again
<1>6. threads[t].alone => \A d \in 0 .. Len(Nodes) : d <= Passed(t) => Back(d) \in threads[t].called
  BY <1>2, <1>3 DEF CycleInv, Cycled, Busy
<1>7. CASE threads[t].tries % 2 = 0
  <2>1. /\ Passed(t)' = Passed(t) + 1 /\ Newest(t)' = 1 /\ Passed(t) \in Nat
    BY <1>2, <1>3, <1>7
  <2>2. turn' = IF turn = Len(Nodes) THEN 1 ELSE turn + 1
    BY <1>4, <1>7 DEF Retry, Switches
  <2>3. ASSUME NEW d \in 1 .. Len(Nodes) PROVE Back(d)' = Back(d - 1)
    BY <1>4, <2>2 DEF Back
  <2>4. ASSUME threads[t].alone, NEW d \in 1 .. Len(Nodes), d <= Passed(t)'
        PROVE  Back(d)' \in threads'[t].called
    <3>1. d - 1 \in 0 .. Len(Nodes) /\ d - 1 <= Passed(t)
      BY <1>4, <2>1, <2>4
    <3> QED BY <1>2, <1>6, <2>3, <2>4, <3>1
  <2>5. Cycled(t)'
    BY <1>2, <1>3, <1>5, <2>1, <2>4 DEF Cycled
  <2>6. ASSUME NEW u \in Threads, u # t PROVE Cycled(u)'
    <3>1. threads'[u] = [threads[u] EXCEPT !.alone = FALSE] /\ threads[u] \in ThreadOf(S)
      BY <1>1, <1>7, <2>6 DEF Retry, Switches
    <3>2. ~threads'[u].alone /\ threads'[u].pc = threads[u].pc /\ threads'[u].tries = threads[u].tries
      BY <3>1 DEF ThreadOf
    <3> QED BY <3>2 DEF CycleInv, Cycled, Calling
  <2> QED BY <2>5, <2>6 DEF CycleInv
<1>8. CASE threads[t].tries % 2 # 0
  <2>1. /\ Passed(t)' = Passed(t) /\ Newest(t)' = 0 /\ turn' = turn
    <3>1. threads[t].tries % 2 = 1
      BY <1>2, <1>8
    <3>2. turn' = turn
      BY <1>8 DEF Retry, Switches
    <3> QED BY <1>2, <1>3, <3>1, <3>2
  <2>2. \A d : Back(d)' = Back(d)
    BY <2>1 DEF Back
  <2>3. Cycled(t)'
    BY <1>2, <1>3, <1>5, <1>6, <2>1, <2>2 DEF Cycled
  <2>4. ASSUME NEW u \in Threads, u # t PROVE Cycled(u)'
    <3>1. threads'[u] = threads[u]
      BY <1>8, <2>4 DEF Retry, Switches
    <3> QED BY <2>1, <3>1, CycledKept DEF CycleInv
  <2> QED BY <2>3, <2>4 DEF CycleInv
<1> QED BY <1>7, <1>8

LEMMA ReceiveCycles ==
  ASSUME ClientInv, CycleInv, NEW t \in Threads,
         threads[t].pc = "wait",
         threads' = [threads EXCEPT ![t] = [threads[t] EXCEPT !.pc = "failed"]],
         turn' = turn
  PROVE  CycleInv'
<1>1. PICK S : threads \in [Threads -> ThreadOf(S)]
  BY DEF ClientInv, Typed
<1>2. /\ threads'[t].pc = "failed" /\ threads'[t].tries = threads[t].tries
      /\ threads'[t].alone = threads[t].alone /\ threads'[t].called = threads[t].called
  <2>1. threads[t] \in ThreadOf(S) /\ threads'[t] = [threads[t] EXCEPT !.pc = "failed"]
    BY <1>1
  <2> QED BY <2>1 DEF ThreadOf
<1>3. Cycled(t)'
  BY <1>2 DEF CycleInv, Cycled, Calling, Passed, Newest, Busy, Back
<1>4. ASSUME NEW u \in Threads, u # t PROVE Cycled(u)'
  <2>1. threads'[u] = threads[u]
    BY <1>1, <1>4
  <2> QED BY <2>1, CycledKept DEF CycleInv
<1> QED BY <1>3, <1>4 DEF CycleInv

\* A step that lets one thread rest or begin, or none.
LEMMA OthersCycle ==
  ASSUME ClientInv, CycleInv, NEW t \in Threads, turn' = turn,
         \/ threads' = threads
         \/ \E r : /\ threads' = [threads EXCEPT ![t] = r]
                   /\ r = Idle \/ \E c, x : r = Started(c, x)
  PROVE  CycleInv'
<1>1. PICK S : threads \in [Threads -> ThreadOf(S)]
  BY DEF ClientInv, Typed
<1>2. ASSUME NEW u \in Threads
      PROVE  threads'[u] = threads[u] \/ threads'[u] = Idle \/ \E c, x : threads'[u] = Started(c, x)
  BY <1>1
<1> QED BY <1>2, CycledKept DEF CycleInv

LEMMA CycleStep == ClientInv /\ CycleInv /\ [Next]_vars => CycleInv'
<1> SUFFICES ASSUME ClientInv, CycleInv, [Next]_vars PROVE CycleInv'
  OBVIOUS
<1>1. Main \in Threads /\ \A w \in Workers : w \in Threads
  BY DEF Threads
<1>2. CASE threads' = threads /\ turn' = turn
  BY <1>1, <1>2, OthersCycle
<1>3. ASSUME NEW t \in Threads, GiveUp(t) PROVE CycleInv'
  BY <1>3, OthersCycle DEF GiveUp
<1>4. CASE CallNames
  BY <1>1, <1>4, OthersCycle DEF CallNames
<1>5. CASE ReceiveNames
  <2>1. turn' = turn /\ threads[Main].pc = "wait"
    BY <1>5 DEF ReceiveNames
  <2>2. PICK r : /\ threads' = [threads EXCEPT ![Main] = r]
                 /\ \/ r = [threads[Main] EXCEPT !.pc = "failed"]
                    \/ r = Idle
                    \/ \E x : r = Started(0, x)
    BY <1>5 DEF ReceiveNames
  <2>3. CASE r = [threads[Main] EXCEPT !.pc = "failed"]
    BY <1>1, <2>1, <2>2, <2>3, ReceiveCycles
  <2>4. CASE r = Idle \/ \E x : r = Started(0, x)
    BY <1>1, <2>1, <2>2, <2>4, OthersCycle
  <2> QED BY <2>2, <2>3, <2>4
<1>6. ASSUME NEW w \in Workers, Take(w) PROVE CycleInv'
  <2>1. turn' = turn /\ \E i : threads' = [threads EXCEPT ![w] = Started(i, 0)]
    BY <1>6 DEF Take
  <2>2. PICK r : threads' = [threads EXCEPT ![w] = r] /\ \E c, x : r = Started(c, x)
    BY <2>1
  <2> QED BY <1>1, <2>1, <2>2, OthersCycle
<1>7. ASSUME NEW w \in Workers, Receive(w) PROVE CycleInv'
  <2>1. turn' = turn /\ threads[w].pc = "wait"
    BY <1>7 DEF Receive
  <2>2. PICK r : /\ threads' = [threads EXCEPT ![w] = r]
                 /\ r = [threads[w] EXCEPT !.pc = "failed"] \/ r = Idle
    BY <1>7 DEF Receive
  <2>3. CASE r = [threads[w] EXCEPT !.pc = "failed"]
    BY <1>1, <2>1, <2>2, <2>3, ReceiveCycles
  <2>4. CASE r = Idle
    BY <1>1, <2>1, <2>2, <2>4, OthersCycle
  <2> QED BY <2>2, <2>3, <2>4
<1>8. CASE (\E b \in Batches : Call(b)) \/ Read \/ Close \/ NewAccount \/ UNCHANGED vars
  <2>1. threads' = threads /\ turn' = turn
    BY <1>8 DEF Call, Read, Close, NewAccount, vars
  <2> QED BY <1>2, <2>1
<1> QED BY <1>1, <1>3, <1>4, <1>5, <1>6, <1>7, <1>8, SendCycles, RetryCycles
    DEF Next, MainStep, WorkerStep

\* A call that gives up, and alone has switched the node, has tried every node: for
\* any number of nodes and any limit of at least two tries for each (http_client.py
\* exec, next_node).
THEOREM AllNodesTried == Spec => []EveryNodeCalled
<1>1. Init => CycleInv
  <2> SUFFICES ASSUME Init, NEW t \in Threads PROVE Cycled(t)
    BY DEF CycleInv
  <2>1. threads[t].pc = "idle"
    BY DEF Init, Idle
  <2> QED BY <2>1 DEF Cycled, Calling, Busy
<1>2. ClientInv /\ CycleInv => EveryNodeCalled
  <2> SUFFICES ASSUME ClientInv, CycleInv, NEW t \in Threads,
                      threads[t].pc = "gaveup", threads[t].alone
               PROVE  threads[t].called = DOMAIN Nodes
    BY DEF EveryNodeCalled
  <2>1. PICK S : threads \in [Threads -> ThreadOf(S)]
    BY DEF ClientInv, Typed
  <2>2. /\ threads[t].tries \in Nat /\ threads[t].called \subseteq DOMAIN Nodes
        /\ threads[t].tries >= MaxTries
    <3>1. threads[t] \in ThreadOf(S)
      BY <2>1
    <3>2. threads[t].tries \in 0 .. MaxTries /\ threads[t].called \subseteq DOMAIN Nodes
      BY <3>1 DEF ThreadOf
    <3> QED BY <3>2, NodeClientAssumption DEF CycleInv, Cycled
  <2>3. /\ turn \in 1 .. Len(Nodes) /\ Len(Nodes) \in Nat /\ DOMAIN Nodes = 1 .. Len(Nodes)
        /\ MaxTries \in Nat /\ MaxTries >= 2 * Len(Nodes) - 1
    BY NodeClientAssumption DEF ClientInv, Typed
  <2>4. /\ Passed(t) = threads[t].tries \div 2
        /\ Newest(t) = IF threads[t].tries % 2 = 1 THEN 0 ELSE 1
        /\ \A d \in Newest(t) .. Len(Nodes) : d <= Passed(t) => Back(d) \in threads[t].called
    BY DEF CycleInv, Cycled, Calling, Passed, Newest, Busy
  <2>5. ASSUME NEW n \in 1 .. Len(Nodes) PROVE n \in threads[t].called
    <3>1. CASE threads[t].tries % 2 = 1
      <4>1. Newest(t) = 0 /\ Passed(t) >= Len(Nodes) - 1
        BY <2>2, <2>3, <2>4, <3>1
      <4>2. PICK d \in 0 .. Len(Nodes) : d <= Len(Nodes) - 1 /\ Back(d) = n
        <5>1. CASE n <= turn
          <6>1. turn - n \in 0 .. Len(Nodes) /\ turn - n <= Len(Nodes) - 1 /\ Back(turn - n) = n
            BY <2>3, <5>1 DEF Back
          <6> QED BY <6>1
        <5>2. CASE n > turn
          <6>1. /\ turn - n + Len(Nodes) \in 0 .. Len(Nodes)
                /\ turn - n + Len(Nodes) <= Len(Nodes) - 1
                /\ Back(turn - n + Len(Nodes)) = n
            BY <2>3, <5>2 DEF Back
          <6> QED BY <6>1
        <5> QED BY <2>3, <5>1, <5>2
      <4> QED BY <2>2, <2>3, <2>4, <4>1, <4>2
    <3>2. CASE threads[t].tries % 2 # 1
      <4>1. Newest(t) = 1 /\ Passed(t) >= Len(Nodes)
        BY <2>2, <2>3, <2>4, <3>2
      <4>2. PICK d \in 1 .. Len(Nodes) : Back(d) = n
        <5>1. CASE n < turn
          <6>1. turn - n \in 1 .. Len(Nodes) /\ Back(turn - n) = n
            BY <2>3, <5>1 DEF Back
          <6> QED BY <6>1
        <5>2. CASE n >= turn
          <6>1. turn - n + Len(Nodes) \in 1 .. Len(Nodes) /\ Back(turn - n + Len(Nodes)) = n
            BY <2>3, <5>2 DEF Back
          <6> QED BY <6>1
        <5> QED BY <2>3, <5>1, <5>2
      <4> QED BY <2>2, <2>3, <2>4, <4>1, <4>2
    <3> QED BY <3>1, <3>2
  <2> QED BY <2>2, <2>3, <2>5
<1> QED BY <1>1, <1>2, Invariant, CycleStep, PTL DEF Spec
-----------------------------------------------------------------------------
(* The names of all accounts. *)

Increasing(s) == \A i, j \in DOMAIN s : i < j => s[i] < s[j]
Listing(S) == {s \in [1 .. Cardinality(S) -> S] : Increasing(s)}

\* A set of m numbers that can be listed without its least can be listed.
LEMMA LeastFirst ==
  ASSUME NEW S \in SUBSET Nat, IsFiniteSet(S), NEW m \in S, \A n \in S : m <= n,
         Listing(S \ {m}) # {}
  PROVE  Listing(S) # {}
<1> DEFINE T == S \ {m}
           k == Cardinality(S)
<1>1. k \in Nat /\ k > 0 /\ Cardinality(T) = k - 1
  <2>1. k \in Nat /\ Cardinality(T) = k - 1
    BY FS_RemoveElement, FS_CardinalityType
  <2>2. k # 0
    BY FS_EmptySet
  <2> QED BY <2>1, <2>2
<1>2. PICK t \in [1 .. (k - 1) -> T] : Increasing(t)
  BY <1>1 DEF Listing
<1> DEFINE s == [i \in 1 .. k |-> IF i = 1 THEN m ELSE t[i - 1]]
<1> HIDE DEF T, k
<1>3. \A i \in 1 .. k : i # 1 => i - 1 \in 1 .. (k - 1) /\ t[i - 1] \in T
  BY <1>1
<1>4. T \subseteq S /\ m \notin T
  BY DEF T
<1>5. s \in [1 .. k -> S]
  BY <1>3, <1>4
<1>6. ASSUME NEW i \in 1 .. k, NEW j \in 1 .. k, i < j
      PROVE  s[i] < s[j]
  <2>1. j # 1 /\ j - 1 \in 1 .. (k - 1) /\ s[j] = t[j - 1] /\ s[j] \in T
    BY <1>1, <1>3, <1>6
  <2>2. CASE i = 1
    <3>1. s[i] = m /\ m <= s[j] /\ m # s[j] /\ s[j] \in Nat
      BY <1>4, <2>1, <2>2
    <3> QED BY <3>1
  <2>3. CASE i # 1
    <3>1. i - 1 \in 1 .. (k - 1) /\ s[i] = t[i - 1] /\ i - 1 < j - 1
      BY <1>1, <1>3, <1>6, <2>3
    <3> QED BY <1>2, <2>1, <3>1 DEF Increasing
  <2> QED BY <2>2, <2>3
<1>7. Increasing(s)
  BY <1>5, <1>6 DEF Increasing
<1> HIDE DEF s
<1> QED BY <1>5, <1>7 DEF Listing, k

\* Every finite set of numbers can be listed in increasing order.
LEMMA ListingExists ==
  ASSUME NEW S \in SUBSET Nat, IsFiniteSet(S)
  PROVE  Listing(S) # {}
<1> DEFINE Unlisted(U) == IsFiniteSet(U) /\ Listing(U) = {}
           Sizes == {n \in Nat : \E U \in SUBSET Nat : Unlisted(U) /\ Cardinality(U) = n}
<1> SUFFICES ASSUME Unlisted(S) PROVE FALSE
  OBVIOUS
<1>1. Cardinality(S) \in Sizes
  BY FS_CardinalityType
<1>2. PICK n \in Sizes : \A k \in Sizes : n <= k
  <2>1. Sizes \subseteq Nat /\ Sizes # {}
    BY <1>1
  <2> HIDE DEF Sizes
  <2> QED BY <2>1, LeastExists
<1>3. PICK U \in SUBSET Nat : Unlisted(U) /\ Cardinality(U) = n
  OBVIOUS
<1>4. U # {}
  <2> SUFFICES ASSUME U = {} PROVE FALSE
    OBVIOUS
  <2>1. 1 .. Cardinality(U) = {}
    BY FS_EmptySet
  <2>2. [i \in 1 .. Cardinality(U) |-> 0] \in Listing(U)
    BY <2>1 DEF Listing, Increasing
  <2> QED BY <1>3, <2>2
<1>5. PICK m \in U : \A u \in U : m <= u
  BY <1>4, LeastExists
<1>6. IsFiniteSet(U \ {m}) /\ Cardinality(U \ {m}) = n - 1 /\ n \in Nat /\ U \ {m} \in SUBSET Nat
  BY <1>3, FS_RemoveElement
<1>7. Listing(U \ {m}) # {}
  <2> SUFFICES ASSUME Listing(U \ {m}) = {} PROVE FALSE
    OBVIOUS
  <2>1. n - 1 \in Nat
    BY <1>6, FS_CardinalityType
  <2>2. n - 1 \in Sizes
    BY <1>6, <2>1
  <2> HIDE DEF Sizes
  <2>3. n <= n - 1
    BY <1>2, <2>2
  <2> QED BY <1>6, <2>3
<1>8. Listing(U) # {}
  BY <1>3, <1>5, <1>7, LeastFirst
<1> QED BY <1>3, <1>8

\* Ascending lists every element of a finite set, in increasing order.
LEMMA AscendingIs ==
  ASSUME NEW S \in SUBSET Nat, IsFiniteSet(S)
  PROVE  /\ Cardinality(S) \in Nat
         /\ Ascending(S) \in [1 .. Cardinality(S) -> S]
         /\ Increasing(Ascending(S))
         /\ \A n \in S : \E i \in 1 .. Cardinality(S) : Ascending(S)[i] = n
<1> DEFINE s == Ascending(S)
           k == Cardinality(S)
<1>1. s \in [1 .. k -> S] /\ Increasing(s)
  <2>1. \E t \in [1 .. k -> S] : Increasing(t)
    BY ListingExists DEF Listing
  <2> QED BY <2>1 DEF Ascending, Increasing
<1>2. k \in Nat
  BY FS_CardinalityType
<1>3. IsFiniteSet(1 .. k) /\ Cardinality(1 .. k) = k
  BY <1>2, FS_Interval
<1> HIDE DEF s
<1>4. s \in Injection(1 .. k, S)
  <2> SUFFICES ASSUME NEW i \in 1 .. k, NEW j \in 1 .. k, s[i] = s[j] PROVE i = j
    BY <1>1 DEF Injection, IsInjective
  <2>1. s[i] \in Nat /\ i \in Nat /\ j \in Nat
    <3>1. s[i] \in S
      BY <1>1
    <3>2. i \in Nat /\ j \in Nat
      BY <1>2
    <3> QED BY <3>1, <3>2
  <2>2. (i < j => s[i] < s[j]) /\ (j < i => s[j] < s[i])
    BY <1>1 DEF Increasing
  <2> QED BY <2>1, <2>2
<1>5. s \in Surjection(1 .. k, S)
  BY <1>3, <1>4, FS_Injection
<1>6. \A n \in S : \E i \in 1 .. k : s[i] = n
  BY <1>5 DEF Surjection
<1> QED BY <1>1, <1>2, <1>6 DEF s, k

\* A page: the first names from `lower` on, and all of them unless it is full.
LEMMA PageIs ==
  ASSUME NEW S \in SUBSET Names, NEW lower \in Nat
  PROVE  LET p == Page(S, lower) IN
         /\ p \in Seq(S)
         /\ \A i \in 1 .. Len(p) : p[i] >= lower
         /\ \A i, j \in 1 .. Len(p) : i < j => p[i] < p[j]
         /\ \A n \in S : n >= lower =>
               \/ \E i \in 1 .. Len(p) : p[i] = n
               \/ Len(p) > 1 /\ \A i \in 1 .. Len(p) : p[i] < n
         /\ lower \in S => p # <<>> /\ p[1] = lower
<1> DEFINE F == {n \in S : n >= lower}
           s == Ascending(F)
           k == Cardinality(F)
           m == IF k < PageSize THEN k ELSE PageSize
           p == Page(S, lower)
<1>1. F \in SUBSET Nat /\ IsFiniteSet(F) /\ F \subseteq S /\ \A n \in F : n >= lower
  <2>1. Names \subseteq Nat /\ IsFiniteSet(Names)
    BY NodeClientAssumption
  <2>2. F \in SUBSET Names
    OBVIOUS
  <2> QED BY <2>1, <2>2, FS_Subset
<1>2. /\ k \in Nat /\ s \in [1 .. k -> F]
      /\ \A i, j \in 1 .. k : i < j => s[i] < s[j]
      /\ \A n \in F : \E i \in 1 .. k : s[i] = n
  BY <1>1, AscendingIs DEF Increasing
<1>3. p = SubSeq(s, 1, IF Len(s) < PageSize THEN Len(s) ELSE PageSize)
  BY DEF Page
<1>4. \A n \in S : n >= lower => n \in F
  OBVIOUS
<1>5. PageSize \in Nat /\ PageSize > 1
  BY NodeClientAssumption
<1> HIDE DEF F, s, k, p
<1>6. s \in Seq(F) /\ Len(s) = k
  BY <1>2
<1>7. m \in 0 .. k /\ m <= PageSize /\ (m < k => m = PageSize)
  BY <1>2, <1>5
<1>8. p = SubSeq(s, 1, m)
  BY <1>3, <1>6
<1> HIDE DEF m
<1>9. p \in Seq(F) /\ Len(p) = m /\ \A i \in 1 .. m : p[i] = s[i]
  <2>1. \A i \in 1 .. m : i \in 1 .. Len(s) /\ s[i] \in F
    BY <1>2, <1>6, <1>7
  <2> QED BY <1>2, <1>7, <1>8, <2>1, SubSeqProperties
<1>10. \A i \in 1 .. m : i \in 1 .. k
  BY <1>2, <1>7
<1>11. p \in Seq(S) /\ \A i \in 1 .. Len(p) : p[i] >= lower
  <2>1. ASSUME NEW i \in 1 .. Len(p) PROVE p[i] \in F
    BY <1>9, ElementOfSeq
  <2>2. ASSUME NEW i \in 1 .. Len(p) PROVE p[i] >= lower
    BY <1>1, <2>1
  <2>3. p \in Seq(S)
    <3>1. \A i \in 1 .. m : s[i] \in S
      <4>1. \A i \in 1 .. k : s[i] \in F
        BY <1>2
      <4> QED BY <1>1, <1>10, <4>1
    <3>2. p = [i \in 1 .. m |-> s[i]]
      BY <1>9
    <3> QED BY <1>7, <3>1, <3>2
  <2> QED BY <2>2, <2>3
<1>12. \A i, j \in 1 .. Len(p) : i < j => p[i] < p[j]
  BY <1>2, <1>9, <1>10
<1>13. ASSUME NEW n \in S, n >= lower
       PROVE  \/ \E i \in 1 .. Len(p) : p[i] = n
              \/ Len(p) > 1 /\ \A i \in 1 .. Len(p) : p[i] < n
  <2>1. PICK i \in 1 .. k : s[i] = n
    BY <1>2, <1>4, <1>13
  <2>2. CASE i \in 1 .. m
    BY <1>9, <2>1, <2>2
  <2>3. CASE ~(i \in 1 .. m)
    <3>1. m < k /\ m = PageSize /\ \A j \in 1 .. m : j \in 1 .. k /\ j < i
      BY <1>2, <1>7, <2>3
    <3>2. Len(p) > 1 /\ \A j \in 1 .. Len(p) : p[j] < n
      BY <1>2, <1>5, <1>9, <2>1, <3>1
    <3> QED BY <3>2
  <2> QED BY <2>2, <2>3
<1>14. ASSUME lower \in S PROVE p # <<>> /\ p[1] = lower
  <2>1. lower \in F
    BY <1>4, <1>14
  <2>2. PICK i \in 1 .. k : s[i] = lower
    BY <1>2, <2>1
  <2>3. i = 1
    <3>1. 1 \in 1 .. k /\ s[1] \in F
      BY <1>2
    <3>2. s[1] >= lower /\ s[1] \in Nat
      BY <1>1, <3>1
    <3>3. ~(1 < i)
      BY <1>2, <2>2, <3>1, <3>2
    <3> QED BY <1>2, <3>3
  <2>4. 1 \in 1 .. m
    BY <1>2, <1>5, <1>7, <2>3
  <2> QED BY <1>9, <2>2, <2>3, <2>4
<1> QED BY <1>11, <1>12, <1>13, <1>14 DEF p

\* What the caller has of the names: an increasing list, ended by the name that
\* the next page begins with, and with every name below it that all nodes had at
\* the start, but those that come next after a newer one.
Listed(n) == \E i \in 1 .. Len(result) : result[i] = n

Skipped(s, n) ==
    /\ MaxLag > 0
    /\ \E i \in 1 .. Len(s) :
          /\ s[i] \notin known /\ s[i] < n
          /\ \A m \in known : ~(s[i] < m /\ m < n)
          /\ \A j \in 1 .. Len(s) : ~(s[i] < s[j] /\ s[j] < n)

NamesInv ==
    (phase = "names" \/ (phase = "returned" /\ futures = <<>>)) =>
        /\ result \in Seq(Accounts)
        /\ \A i, j \in 1 .. Len(result) : i < j => result[i] < result[j]
        /\ \A n \in known :
              \/ Listed(n)
              \/ phase = "names" /\ \A i \in 1 .. Len(result) : result[i] < n
              \/ Skipped(result, n)
        /\ phase = "names" =>
              threads[Main].lower = IF result = <<>> THEN 0 ELSE result[Len(result)]

\* The result with the new names of a page, from a node that has the names of S.
LEMMA NamesJoined ==
  ASSUME ClientInv, NamesInv, phase = "names",
         NEW S \in SUBSET Accounts, known \subseteq S, MaxLag = 0 => S = Accounts
  PROVE  LET names == NewNames(S, threads[Main].lower)
             more  == result \o names
         IN /\ names \in Seq(Accounts) /\ more \in Seq(Accounts)
            /\ \A i, j \in 1 .. Len(more) : i < j => more[i] < more[j]
            /\ names # <<>> => Last(names) = more[Len(more)] /\ more # <<>>
            /\ \A n \in known :
                  \/ \E i \in 1 .. Len(more) : more[i] = n
                  \/ names # <<>> /\ \A i \in 1 .. Len(more) : more[i] < n
                  \/ Skipped(more, n)
<1> DEFINE lower == threads[Main].lower
           p     == Page(S, lower)
           names == NewNames(S, lower)
           more  == result \o names
           L     == Len(result)
<1>1. /\ result \in Seq(Accounts) /\ L \in Nat
      /\ \A i, j \in 1 .. L : i < j => result[i] < result[j]
      /\ \A n \in known : \/ \E i \in 1 .. L : result[i] = n
                          \/ \A i \in 1 .. L : result[i] < n
                          \/ Skipped(result, n)
      /\ lower = IF result = <<>> THEN 0 ELSE result[L]
  BY DEF NamesInv, Listed
<1>2. /\ Accounts \subseteq Nat \ {0} /\ Accounts \subseteq Names
      /\ known \subseteq S /\ S \subseteq Names /\ S \subseteq Accounts
      /\ MaxLag \in Nat
  BY NodeClientAssumption, Views DEF ClientInv, Typed, Grown
<1>3. /\ result # <<>> => lower \in Accounts /\ L \in 1 .. L
      /\ lower \in Nat /\ (lower = 0 <=> result = <<>>)
      /\ \A i \in 1 .. L : result[i] <= lower /\ result[i] \in Accounts
  <2>1. result # <<>> => L \in 1 .. L
    BY <1>1, EmptySeq
  <2>2. \A i \in 1 .. L : result[i] \in Accounts
    BY <1>1, ElementOfSeq
  <2>3. result # <<>> => lower \in Accounts /\ lower = result[L]
    BY <1>1, <2>1, <2>2
  <2>4. CASE result = <<>>
    <3>1. L = 0 /\ lower = 0
      BY <1>1, <2>4
    <3> QED BY <2>4, <3>1
  <2>5. CASE result # <<>>
    <3>1. lower \in Accounts /\ lower \in Nat /\ lower # 0
      BY <1>2, <2>3, <2>5
    <3>2. ASSUME NEW i \in 1 .. L PROVE result[i] <= lower
      <4>1. CASE i = L
        BY <1>2, <2>3, <2>5, <4>1, <3>1
      <4>2. CASE i # L
        <5>1. i < L
          BY <1>1, <4>2
        <5>2. result[i] < result[L] /\ result[i] \in Nat
          BY <1>1, <1>2, <2>1, <2>2, <2>5, <5>1
        <5> QED BY <2>3, <2>5, <3>1, <5>2
      <4> QED BY <4>1, <4>2
    <3> QED BY <2>1, <2>2, <2>5, <3>1, <3>2
  <2> QED BY <2>4, <2>5
<1>4. /\ p \in Seq(S) /\ Len(p) \in Nat
      /\ \A i \in 1 .. Len(p) : p[i] >= lower
      /\ \A i, j \in 1 .. Len(p) : i < j => p[i] < p[j]
      /\ \A n \in S : n >= lower =>
            \/ \E i \in 1 .. Len(p) : p[i] = n
            \/ Len(p) > 1 /\ \A i \in 1 .. Len(p) : p[i] < n
      /\ lower \in S => p # <<>> /\ p[1] = lower
  <2> HIDE DEF lower
  <2>1. p \in Seq(S) => Len(p) \in Nat
    OBVIOUS
  <2>2. S \in SUBSET Names /\ lower \in Nat
    BY <1>2, <1>3
  <2> QED BY <2>1, <2>2, PageIs
<1>5. names = IF lower = 0 THEN p ELSE SubSeq(p, 2, Len(p))
  BY DEF NewNames
<1>p. \A i \in 1 .. Len(p) : p[i] \in S /\ p[i] \in Nat
  <2>1. \A i \in 1 .. Len(p) : p[i] \in S
    BY <1>4, ElementOfSeq
  <2> QED BY <1>2, <2>1
<1> HIDE DEF p, names, lower
\* d names of the page are dropped.
<1>6. PICK d \in {0, 1} :
        /\ d <= Len(p) /\ (d = 0 <=> result = <<>> \/ p = <<>>)
        /\ names \in Seq(S) /\ Len(names) = Len(p) - d
        /\ \A i \in 1 .. Len(names) : names[i] = p[i + d]
  <2>1. CASE result = <<>>
    <3>1. names = p
      BY <1>3, <1>5, <2>1
    <3>2. \A i \in 1 .. Len(p) : i + 0 = i
      BY <1>4
    <3> QED BY <1>4, <2>1, <3>1, <3>2
  <2>2. CASE result # <<>> /\ p # <<>>
    <3>1. names = SubSeq(p, 2, Len(p))
      BY <1>3, <1>5, <2>2
    <3>2. Len(p) >= 1
      BY <1>4, <2>2, EmptySeq
    <3>3. /\ names \in Seq(S) /\ Len(names) = Len(p) - 1
          /\ \A i \in 1 .. Len(names) : names[i] = p[i + 1]
      <4>1. \A i \in 2 .. Len(p) : i \in 1 .. Len(p) /\ p[i] \in S
        BY <1>4, <1>p
      <4>2. Len(p) - 2 + 1 = Len(p) - 1 /\ 2 \in Nat /\ Len(p) \in Nat /\ 2 <= Len(p) + 1
        BY <1>4, <3>2
      <4>3. \A i \in 1 .. Len(p) - 1 : 2 + i - 1 = i + 1
        BY <1>4
      <4> QED BY <3>1, <4>1, <4>2, <4>3, SubSeqProperties
    <3>4. 1 \in {0, 1} /\ ~(1 = 0) /\ 1 <= Len(p)
      BY <3>2
    <3> QED BY <2>2, <3>3, <3>4
  <2>3. CASE result # <<>> /\ p = <<>>
    <3>1. Len(p) = 0 /\ names = SubSeq(p, 2, 0)
      BY <1>3, <1>5, <2>3
    <3>2. names = <<>>
      BY <3>1, <2>3
    <3>3. <<>> \in Seq(S) /\ Len(<<>>) = 0 /\ 1 .. 0 = {}
      BY EmptySeq
    <3> QED BY <2>3, <3>1, <3>2, <3>3
  <2> QED BY <2>1, <2>2, <2>3
<1> DEFINE N == Len(names)
<1>7. /\ more \in Seq(Accounts) /\ Len(more) = L + N /\ names \in Seq(Accounts)
      /\ \A i \in 1 .. L + N : more[i] = IF i <= L THEN result[i] ELSE names[i - L]
  <2>1. names \in Seq(Accounts)
    <3>1. \A i \in 1 .. N : names[i] \in Accounts
      <4>1. \A i \in 1 .. N : names[i] \in S
        BY <1>6, ElementOfSeq
      <4> QED BY <1>2, <4>1
    <3>2. N \in Nat /\ names = [i \in 1 .. N |-> names[i]]
      BY <1>6
    <3> QED BY <3>1, <3>2, IsASeq
  <2> QED BY <1>1, <2>1, ConcatProperties
<1> HIDE DEF more
<1>8. N \in Nat /\ N = Len(p) - d /\ \A i \in 1 .. N : i + d \in 1 .. Len(p)
  BY <1>4, <1>6
<1>9. ASSUME NEW i \in 1 .. N PROVE names[i] \in Accounts /\ names[i] \in Nat /\ (L > 0 => lower < names[i])
  <2>1. names[i] \in Accounts /\ names[i] \in Nat
    BY <1>2, <1>7, ElementOfSeq
  <2>2. ASSUME L > 0 PROVE lower < names[i]
    <3>1. d = 1 /\ result # <<>>
      <4>1. Len(p) >= 1
        BY <1>4, <1>8
      <4> QED BY <1>1, <1>6, <2>2, <4>1, EmptySeq
    <3>2. 1 \in 1 .. Len(p) /\ i + 1 \in 1 .. Len(p) /\ 1 < i + 1
      BY <1>8, <3>1
    <3>3. p[1] >= lower /\ p[1] < p[i + 1] /\ p[1] \in Nat /\ p[i + 1] \in Nat
      BY <1>4, <1>p, <3>2
    <3>4. lower \in Nat /\ names[i] = p[i + 1]
      BY <1>3, <1>6, <3>1
    <3> QED BY <3>3, <3>4
  <2> QED BY <2>1, <2>2
<1>10. ASSUME NEW i \in 1 .. L + N
       PROVE  \/ i \in 1 .. L /\ more[i] = result[i]
              \/ i - L \in 1 .. N /\ more[i] = names[i - L] /\ ~(i <= L)
  BY <1>1, <1>7, <1>8
<1>11. ASSUME NEW i \in 1 .. L + N, NEW j \in 1 .. L + N, i < j
       PROVE  more[i] < more[j]
  <2>1. CASE j \in 1 .. L /\ more[j] = result[j]
    BY <1>1, <1>10, <1>11, <2>1
  <2>2. CASE j - L \in 1 .. N /\ more[j] = names[j - L]
    <3>1. CASE i \in 1 .. L /\ more[i] = result[i]
      <4>1. L > 0 /\ lower < names[j - L] /\ names[j - L] \in Nat
        BY <1>1, <1>9, <2>2, <3>1
      <4>2. result[i] <= lower /\ result[i] \in Nat /\ lower \in Nat
        BY <1>2, <1>3, <3>1
      <4> QED BY <2>2, <3>1, <4>1, <4>2
    <3>2. CASE i - L \in 1 .. N /\ more[i] = names[i - L]
      <4>1. (i - L) + d \in 1 .. Len(p) /\ (j - L) + d \in 1 .. Len(p) /\ (i - L) + d < (j - L) + d
        BY <1>1, <1>8, <1>11, <2>2, <3>2
      <4> QED BY <1>4, <1>6, <2>2, <3>2, <4>1
    <3> QED BY <1>10, <3>1, <3>2
  <2> QED BY <1>10, <2>1, <2>2
<1>12. ASSUME names # <<>> PROVE Last(names) = more[Len(more)] /\ more # <<>>
  <2>1. N \in 1 .. N /\ N > 0
    BY <1>6, <1>8, <1>12, EmptySeq
  <2>2. Len(more) \in 1 .. L + N /\ Len(more) - L = N /\ ~(Len(more) <= L) /\ Len(more) > 0
    BY <1>1, <1>7, <1>8, <2>1
  <2>3. more[Len(more)] = names[N]
    BY <1>7, <2>2
  <2> QED BY <2>2, <2>3 DEF Last
<1>13. ASSUME NEW n \in known
       PROVE  \/ \E i \in 1 .. Len(more) : more[i] = n
              \/ names # <<>> /\ \A i \in 1 .. Len(more) : more[i] < n
              \/ Skipped(more, n)
  <2>0. n \in S /\ n \in Nat
    BY <1>2
  <2>1. CASE \E i \in 1 .. L : result[i] = n
    <3>1. PICK i \in 1 .. L : result[i] = n
      BY <2>1
    <3>2. i \in 1 .. L + N /\ i <= L
      BY <1>1, <1>8
    <3> QED BY <1>7, <3>1, <3>2
  <2>2. CASE \A i \in 1 .. L : result[i] < n
    <3>1. n >= lower /\ (result # <<>> => n # lower)
      <4>1. CASE result = <<>>
        BY <1>3, <2>0, <4>1
      <4>2. CASE result # <<>>
        <5>1. L \in 1 .. L /\ lower = result[L] /\ lower \in Nat
          BY <1>1, <1>3, <4>2
        <5> QED BY <2>0, <2>2, <5>1
      <4> QED BY <4>1, <4>2
    <3>2. ASSUME NEW i \in 1 .. Len(p), p[i] = n, i - d \in 1 .. N
          PROVE  \E k \in 1 .. Len(more) : more[k] = n
      <4>1. names[i - d] = p[(i - d) + d] /\ (i - d) + d = i
        BY <1>6, <1>8, <3>2
      <4>2. /\ L + (i - d) \in 1 .. L + N /\ ~(L + (i - d) <= L)
            /\ (L + (i - d)) - L = i - d
        BY <1>1, <1>8, <3>2
      <4>3. more[L + (i - d)] = n
        BY <1>7, <3>2, <4>1, <4>2
      <4> QED BY <1>7, <4>2, <4>3
    <3>3. ASSUME NEW i \in 1 .. Len(p), p[i] = n, i - d \notin 1 .. N
          PROVE  Skipped(more, n)
      <4>1. i = 1 /\ d = 1 /\ result # <<>> /\ p[1] = n
        BY <1>4, <1>6, <1>8, <3>3
      <4>2. L \in 1 .. L /\ lower = result[L] /\ lower \in Accounts /\ lower \in Nat /\ lower < n
        BY <1>1, <1>2, <1>3, <2>0, <3>1, <4>1
      \* The node does not know the name that its page should have begun with.
      <4>3. lower \notin S /\ lower \notin known /\ MaxLag > 0
        BY <1>2, <1>4, <3>1, <4>1, <4>2
      <4>4. more[L] = lower /\ L \in 1 .. Len(more)
        <5>1. L \in 1 .. L + N /\ L <= L
          BY <1>1, <1>8, <4>2
        <5> QED BY <1>7, <4>2, <5>1
      <4>5. ASSUME NEW m \in known PROVE ~(lower < m /\ m < n)
        <5>1. m \in S /\ m \in Nat
          BY <1>2
        <5>2. SUFFICES ASSUME lower < m PROVE ~(m < n)
          OBVIOUS
        <5>3. 1 \in 1 .. Len(p) /\ \A j \in 1 .. Len(p) : j = 1 \/ p[1] < p[j]
          BY <1>4, <4>1
        <5>4. CASE \E j \in 1 .. Len(p) : p[j] = m
          BY <1>p, <2>0, <4>1, <5>1, <5>3, <5>4
        <5>5. CASE \A j \in 1 .. Len(p) : p[j] < m
          BY <2>0, <4>1, <5>1, <5>3, <5>5
        <5> QED BY <1>4, <4>2, <5>1, <5>2, <5>4, <5>5
      <4>6. ASSUME NEW j \in 1 .. Len(more) PROVE ~(lower < more[j] /\ more[j] < n)
        <5>1. CASE j \in 1 .. L /\ more[j] = result[j]
          <6>1. result[j] <= lower /\ result[j] \in Nat
            BY <1>2, <1>3, <5>1
          <6> QED BY <4>2, <5>1, <6>1
        <5>2. CASE j - L \in 1 .. N /\ more[j] = names[j - L]
          <6>1. /\ (j - L) + 1 \in 1 .. Len(p) /\ 1 \in 1 .. Len(p) /\ 1 < (j - L) + 1
                /\ names[j - L] = p[(j - L) + 1]
            BY <1>6, <1>8, <4>1, <5>2
          <6>2. n < more[j] /\ more[j] \in Nat
            BY <1>4, <1>p, <4>1, <5>2, <6>1
          <6> QED BY <2>0, <6>2
        <5> QED BY <1>7, <1>10, <5>1, <5>2
      <4> QED BY <4>2, <4>3, <4>4, <4>5, <4>6 DEF Skipped
    <3>4. CASE Len(p) > 1 /\ \A i \in 1 .. Len(p) : p[i] < n
      <4>1. N >= 1
        BY <1>4, <1>8, <3>4
      <4>2. names # <<>>
        BY <4>1, <1>6, EmptySeq
      <4>3. ASSUME NEW i \in 1 .. L + N PROVE more[i] < n
        <5>1. CASE i \in 1 .. L /\ more[i] = result[i]
          BY <2>2, <5>1
        <5>2. CASE i - L \in 1 .. N /\ more[i] = names[i - L]
          BY <1>6, <1>8, <3>4, <5>2
        <5> QED BY <1>10, <5>1, <5>2
      <4> QED BY <1>7, <4>2, <4>3
    <3> QED BY <1>4, <2>0, <3>1, <3>2, <3>3, <3>4
  \* It was skipped before: the new names are past it.
  <2>3. CASE Skipped(result, n) /\ \E i \in 1 .. L : ~(result[i] < n)
    <3>1. PICK i \in 1 .. L :
            /\ result[i] \notin known /\ result[i] < n
            /\ \A m \in known : ~(result[i] < m /\ m < n)
            /\ \A j \in 1 .. L : ~(result[i] < result[j] /\ result[j] < n)
      BY <2>3 DEF Skipped
    <3>2. PICK k \in 1 .. L : ~(result[k] < n)
      BY <2>3
    <3>3. n <= lower /\ lower \in Nat
      <4>1. result[k] <= lower /\ result[k] \in Nat /\ lower \in Nat
        BY <1>2, <1>3
      <4> QED BY <2>0, <3>2, <4>1
    <3>4. i \in 1 .. Len(more) /\ more[i] = result[i]
      BY <1>1, <1>7, <1>8
    <3>5. ASSUME NEW j \in 1 .. Len(more) PROVE ~(more[i] < more[j] /\ more[j] < n)
      <4>1. CASE j \in 1 .. L /\ more[j] = result[j]
        BY <3>1, <3>4, <4>1
      <4>2. CASE j - L \in 1 .. N /\ more[j] = names[j - L]
        <5>1. L > 0 /\ lower < names[j - L] /\ names[j - L] \in Nat
          BY <1>1, <1>9, <4>2
        <5> QED BY <2>0, <3>3, <4>2, <5>1
      <4> QED BY <1>7, <1>10, <4>1, <4>2
    <3> QED BY <2>3, <3>1, <3>4, <3>5 DEF Skipped
  <2> QED BY <1>1, <2>1, <2>2, <2>3
<1> QED BY <1>6, <1>7, <1>11, <1>12, <1>13 DEF more, names, lower

\* What is said of a list still holds when its accounts become more.
LEMMA SameNames ==
  ASSUME NamesInv, result' = result, known' = known, Accounts \subseteq Accounts',
         phase' = phase, futures' = futures,
         phase = "names" => threads'[Main].lower = threads[Main].lower
  PROVE  NamesInv'
<1> SUFFICES ASSUME phase = "names" \/ (phase = "returned" /\ futures = <<>>)
             PROVE  /\ result \in Seq(Accounts')
                    /\ \A i, j \in 1 .. Len(result) : i < j => result[i] < result[j]
                    /\ \A n \in known :
                          \/ Listed(n)
                          \/ phase = "names" /\ \A i \in 1 .. Len(result) : result[i] < n
                          \/ Skipped(result, n)
                    /\ phase = "names" =>
                          threads'[Main].lower = IF result = <<>> THEN 0 ELSE result[Len(result)]
  BY DEF NamesInv, Listed, Skipped
<1>1. /\ result \in Seq(Accounts)
      /\ \A i, j \in 1 .. Len(result) : i < j => result[i] < result[j]
      /\ \A n \in known :
            \/ Listed(n)
            \/ phase = "names" /\ \A i \in 1 .. Len(result) : result[i] < n
            \/ Skipped(result, n)
      /\ phase = "names" =>
            threads[Main].lower = IF result = <<>> THEN 0 ELSE result[Len(result)]
  BY DEF NamesInv
<1>2. result \in Seq(Accounts')
  <2>1. /\ Len(result) \in Nat /\ result = [i \in 1 .. Len(result) |-> result[i]]
        /\ \A i \in 1 .. Len(result) : result[i] \in Accounts
    BY <1>1, ElementOfSeq
  <2> QED BY <2>1, IsASeq
<1> QED BY <1>1, <1>2

\* A page is added, or the list is complete, or the caller gets an exception.
LEMMA ReceiveNamesKept ==
  ASSUME ClientInv, NamesInv, ReceiveNames
  PROVE  NamesInv'
<1>1. /\ phase = "names" /\ futures = <<>> /\ Main \in Threads
      /\ UNCHANGED <<futures, created, known>>
  BY DEF ReceiveNames, ClientInv, Pool, Reading, Busy, Threads
<1>2. PICK S : threads \in [Threads -> ThreadOf(S)]
  BY DEF ClientInv, Typed
<1> DEFINE NamesOf(k) == NewNames(NamesUpTo(k), threads[Main].lower)
<1>3. CASE threads' = [threads EXCEPT ![Main].pc = "failed"] /\ UNCHANGED <<phase, result>>
  <2>1. threads'[Main].lower = threads[Main].lower
    BY <1>1, <1>2, <1>3 DEF ThreadOf
  <2> QED BY <1>1, <1>3, <2>1, SameNames DEF Accounts, NamesUpTo
<1>4. CASE phase' = "raised"
  BY <1>4 DEF NamesInv
<1>5. CASE \E k \in Settled .. Len(created) :
             LET names == NamesOf(k) IN
             /\ result' = result \o names
             /\ IF names = <<>>
                THEN threads' = [threads EXCEPT ![Main] = Idle] /\ phase' = "returned"
                ELSE threads' = [threads EXCEPT ![Main] = Started(0, Last(names))] /\ UNCHANGED phase
  <2> PICK k \in Settled .. Len(created) :
           LET names == NamesOf(k) IN
           /\ result' = result \o names
           /\ IF names = <<>>
              THEN threads' = [threads EXCEPT ![Main] = Idle] /\ phase' = "returned"
              ELSE threads' = [threads EXCEPT ![Main] = Started(0, Last(names))] /\ UNCHANGED phase
    BY <1>5
  <2> DEFINE names == NamesOf(k)
  <2>a. /\ NamesUpTo(k) \in SUBSET Accounts /\ known \subseteq NamesUpTo(k)
        /\ MaxLag = 0 => NamesUpTo(k) = Accounts
    <3>1. created \in Seq(Names) /\ known \subseteq NamesUpTo(Settled)
      BY DEF ClientInv, Typed, Grown
    <3>2. MaxLag = 0 => k = Len(created)
      BY <3>1, Views
    <3> QED BY <3>1, <3>2, Views DEF Accounts
  <2>1. /\ result' \in Seq(Accounts)
        /\ \A i, j \in 1 .. Len(result') : i < j => result'[i] < result'[j]
        /\ names # <<>> => Last(names) = result'[Len(result')] /\ result' # <<>>
        /\ \A n \in known : \/ \E i \in 1 .. Len(result') : result'[i] = n
                            \/ names # <<>> /\ \A i \in 1 .. Len(result') : result'[i] < n
                            \/ Skipped(result', n)
    BY <1>1, <2>a, NamesJoined
  <2> HIDE DEF names
  <2>2. phase' = "names" <=> names # <<>>
    BY <1>1 DEF names
  <2>3. names # <<>> => threads'[Main].lower = Last(names)
    BY <1>1, <1>2 DEF Started, Idle, names
  <2>4. Accounts' = Accounts
    BY <1>1 DEF Accounts, NamesUpTo
  <2>5. \A n : Skipped(result, n)' <=> Skipped(result', n)
    BY <1>1 DEF Skipped
  <2> QED BY <1>1, <2>1, <2>2, <2>3, <2>4, <2>5 DEF NamesInv, Listed
<1> QED BY <1>3, <1>4, <1>5 DEF ReceiveNames

LEMMA NamesStep == ClientInv /\ NamesInv /\ [Next]_vars => NamesInv'
<1> SUFFICES ASSUME ClientInv, NamesInv, [Next]_vars PROVE NamesInv'
  OBVIOUS
<1>1. PICK S : threads \in [Threads -> ThreadOf(S)]
  BY DEF ClientInv, Typed
<1>2. Main \in Threads /\ (Busy(Main) <=> phase = "names") /\ (phase = "names" => futures = <<>>)
  BY DEF Threads, ClientInv, Pool, Reading
<1>3. \A w \in Workers : w # Main /\ (phase = "names" => ~Busy(w))
  BY NodeClientAssumption DEF ClientInv, Reading
<1>4. CASE ReceiveNames
  BY <1>4, ReceiveNamesKept
<1>5. CASE NewAccount
  <2>1. Accounts \subseteq Accounts'
    BY <1>5, ViewsGrow DEF ClientInv, Typed, Grown
  <2> QED BY <1>5, <2>1, SameNames DEF NewAccount
<1>6. CASE \E t \in Threads : Send(t)
  <2>1. PICK t \in Threads : Send(t)
    BY <1>6
  <2>2. threads'[Main].lower = threads[Main].lower
    BY <1>1, <1>2, <2>1 DEF Send, ThreadOf
  <2> QED BY <2>1, <2>2, SameNames DEF Send, Accounts, NamesUpTo
<1>7. CASE \E t \in Threads : Retry(t)
  <2>1. PICK t \in Threads : Retry(t)
    BY <1>7
  <2>2. threads'[Main].lower = threads[Main].lower
    <3>1. threads[Main] \in ThreadOf(S) /\ threads[t] \in ThreadOf(S)
      BY <1>1, <1>2
    <3> QED BY <1>2, <2>1, <3>1 DEF Retry, ThreadOf
  <2> QED BY <2>1, <2>2, SameNames DEF Retry, Accounts, NamesUpTo
<1>8. CASE \E b \in Batches : Call(b)
  <2>1. phase' = "reading"
    BY <1>8 DEF Call
  <2> QED BY <2>1 DEF NamesInv
<1>9. CASE CallNames
  <2>1. /\ phase' = "names" /\ result' = <<>> /\ created' = created
        /\ threads' = [threads EXCEPT ![Main] = Started(0, 0)]
    BY <1>9 DEF CallNames
  <2>2. threads'[Main].lower = 0
    BY <1>1, <1>2, <2>1 DEF Started, Idle
  <2>3. result' \in Seq(Accounts') /\ Len(result') = 0
    BY <2>1
  <2> QED BY <2>1, <2>2, <2>3 DEF NamesInv
<1>10. CASE Read \/ Close
  <2>1. phase \in {"reading", "closing", "failing"} /\ phase' # "names"
    BY <1>10 DEF Read, Close
  <2>2. phase' = "returned" => futures' # <<>>
    <3> SUFFICES ASSUME phase' = "returned" PROVE futures' # <<>>
      OBVIOUS
    <3>1. phase = "closing" /\ futures' = futures
      BY <1>10, <2>1 DEF Read, Close
    <3>2. Len(futures) = Count /\ Count > 0 /\ Count \in Nat
      BY <3>1, ChunkCount DEF ClientInv, Reading, Typed
    <3> QED BY <3>1, <3>2
  <2> QED BY <2>1, <2>2 DEF NamesInv
<1>11. CASE \E w \in Workers : Take(w) \/ Receive(w) \/ (GiveUp(w) /\ w # Main)
  <2>1. PICK w \in Workers : Take(w) \/ Receive(w) \/ (GiveUp(w) /\ w # Main)
    BY <1>11
  <2>2. phase' = phase /\ phase # "names"
    <3>1. phase' = phase
      BY <2>1 DEF Take, Receive, GiveUp
    <3>2. CASE Take(w)
      <4>1. futures # <<>>
        BY <3>2 DEF Take, Pending
      <4> QED BY <1>2, <3>1, <4>1
    <3>3. CASE Receive(w) \/ GiveUp(w)
      <4>1. Busy(w)
        BY <3>3 DEF Receive, GiveUp, Busy
      <4> QED BY <1>3, <3>1, <4>1
    <3> QED BY <2>1, <3>1, <3>2, <3>3
  <2>3. phase # "returned"
    <3>1. CASE Take(w)
      <4>1. Pending # {}
        BY <3>1 DEF Take
      <4> QED BY <4>1 DEF ClientInv, Reading
    <3>2. CASE Receive(w) \/ GiveUp(w)
      <4>1. Busy(w)
        BY <3>2 DEF Receive, GiveUp, Busy
      <4> QED BY <4>1 DEF ClientInv, Reading, Resting
    <3> QED BY <2>1, <3>1, <3>2
  <2> QED BY <2>2, <2>3 DEF NamesInv
<1>12. CASE GiveUp(Main)
  <2>1. phase' = "raised"
    BY <1>12 DEF GiveUp
  <2> QED BY <2>1 DEF NamesInv
<1>13. CASE UNCHANGED vars
  BY <1>13, SameNames DEF vars, Accounts, NamesUpTo
<1> QED
  <2>1. \A w \in Workers : w \in Threads
    BY DEF Threads
  <2> QED BY <1>2, <1>3, <1>4, <1>5, <1>6, <1>7, <1>8, <1>9, <1>10, <1>11, <1>12, <1>13, <2>1
          DEF Next, MainStep, WorkerStep

\* The names of all accounts come in increasing order, each once, and of those
\* that every node had at the start only such can be missing as come next after a
\* newer one, for any lag of the nodes, any page size of at least two and any
\* accounts created between two pages (client.py get_all_account_names).
THEOREM AllNamesInOrder == Spec => []NamesInOrder
<1>1. Init => NamesInv
  BY DEF Init, NamesInv
<1>2. ClientInv /\ NamesInv => NamesInOrder
  <2> SUFFICES ASSUME ClientInv, NamesInv, phase \in {"names", "returned"}, futures = <<>>
               PROVE  LET given == {result[i] : i \in DOMAIN result} IN
                      /\ \A i, j \in DOMAIN result : i < j => result[i] < result[j]
                      /\ \A n \in known \ given :
                            \/ phase = "names" /\ \A g \in given : g < n
                            \/ /\ MaxLag > 0
                               /\ \E g \in given \ known :
                                     g < n /\ \A m \in given \cup known : ~(g < m /\ m < n)
    BY DEF NamesInOrder
  <2>1. DOMAIN result = 1 .. Len(result)
    BY DEF NamesInv
  <2> QED BY <2>1 DEF NamesInv, Listed, Skipped
<1> QED BY <1>1, <1>2, NamesStep, Invariant, PTL DEF Spec

\* When no node lags, a list that is returned is complete: all names there were
\* when the caller began are in it (client.py get_all_account_names).
THEOREM AllNamesGiven ==
  ASSUME MaxLag = 0
  PROVE  Spec => []NamesComplete
<1>1. NamesInOrder => NamesComplete
  BY DEF NamesInOrder, NamesComplete
<1> QED BY <1>1, AllNamesInOrder, PTL

=============================================================================
