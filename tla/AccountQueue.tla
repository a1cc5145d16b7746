---------------------------- MODULE AccountQueue ----------------------------
(***************************************************************************)
(* Accounts (indexer/accounts.py) keeps the rows of worth_accounts up to   *)
(* date with the node through a queue of dirty names, a UniqueFIFO         *)
(* (utils/unique_fifo.py). Operations and payouts mark accounts; each live *)
(* block flushes a portion of the queue, the end of fast sync all of it.   *)
(* What the operations do not mark, and what a crash loses with the queue, *)
(* is left to a sweep that marks the rows cached longest ago every few     *)
(* blocks.                                                                 *)
(***************************************************************************)
EXTENDS Integers, Sequences, FiniteSets, SequencesExt

CONSTANTS
    Account,
    Spread,     \* live sync flushes one part in `Spread` of the queue (8)
    SweepEvery, \* blocks between two sweeps (100)
    SweepLimit, \* accounts of a sweep (500)
    Batch,      \* accounts of one transaction of the flush of fast sync (1000)
    MaxChunks,  \* bound on the chunks of a fast sync
    MaxBreaks   \* bound on the crashes and the ends of the stream

ASSUME QueueAssumption ==
    /\ IsFiniteSet(Account)
    /\ Spread \in Nat \ {0} /\ SweepEvery \in Nat \ {0} /\ SweepLimit \in Nat \ {0}
    /\ Batch \in Nat \ {0} /\ MaxChunks \in Nat \ {0} /\ MaxBreaks \in Nat

VARIABLES
    rows,       \* the names worth_accounts has
    stale,      \* rows that are not what the node answers
    age,        \* the order of cached_at; 0 is the default, 1970
    queue,      \* UniqueFIFO._queue
    members,    \* UniqueFIFO._set
    work,       \* accounts that _cache_accounts has yet to write
    num,        \* the number of the last block, modulo SweepEvery
    chunks,     \* chunks left in fast sync
    pc,
    breaks

rowVars   == <<rows, stale, age>>
queueVars == <<queue, members>>
vars      == <<rowVars, queueVars, work, num, chunks, pc, breaks>>

Phases == {"down", "fast", "flush", "backlog", "live", "sweep"}

TypeOK ==
    /\ rows \subseteq Account
    /\ stale \subseteq rows
    /\ age \in [Account -> Nat]
    /\ queue \in Seq(Account)
    /\ members \subseteq Account
    /\ work \in Seq(Account)
    /\ num \in 0..(SweepEvery - 1)
    /\ chunks \in 0..MaxChunks
    /\ pc \in Phases
    /\ breaks \in Nat

-----------------------------------------------------------------------------
(* UniqueFIFO. *)

(* Mutant: the set is not asked. *)
AddedTwice(q, m, S) == {[queue |-> q \o s, members |-> m \cup S] : s \in SetToSeqs(S)}

(* add, extend: what is not in the set yet goes to the end of the queue, in any
   order: that of the operations of a block, or of a Python set. *)
Added(q, m, S) == {[queue |-> q \o s, members |-> m \cup S] : s \in SetToSeqs(S \ m)}

(* dirty, dirty_set *)
Mark(S) == \E f \in Added(queue, members, S) : queue' = f.queue /\ members' = f.members

(* Mutant: the portion is rounded down. *)
PortionDown(n) == n \div Spread

(* shift_portion *)
Portion(n) == (n + Spread - 1) \div Spread

(* Mutant: the portion is taken from the end of the queue. *)
ShiftLast(f, n) ==
    LET taken == SubSeq(f.queue, Len(f.queue) - n + 1, Len(f.queue))
    IN [queue   |-> SubSeq(f.queue, 1, Len(f.queue) - n),
        members |-> f.members \ ToSet(taken),
        taken   |-> taken]

(* _shift *)
Shift(f, n) ==
    LET taken == SubSeq(f.queue, 1, n)
    IN [queue   |-> SubSeq(f.queue, n + 1, Len(f.queue)),
        members |-> f.members \ ToSet(taken),
        taken   |-> taken]

-----------------------------------------------------------------------------
(* worth_accounts. *)

(* The order of cached_at once the rows of S are written, later than all: two
   batches of the same second, which the code cannot tell apart, are ordered. *)
Touched(S) ==
    [a \in Account |->
        LET before == {b \in rows \ S : age[b] > 0}
        IN IF a \in S THEN 1 + Cardinality(before)
           ELSE IF age[a] = 0 THEN 0
           ELSE 1 + Cardinality({b \in before : age[b] < age[a]})]

(* Mutant: the order of the index is reversed. *)
Youngest(S) ==
    /\ S \subseteq rows
    /\ Cardinality(S) = SweepLimit \/ (S = rows /\ Cardinality(S) < SweepLimit)
    /\ \A a \in S, b \in rows \ S : age[a] >= age[b]

(* dirty_oldest: ORDER BY cached_at LIMIT. *)
Oldest(S) ==
    /\ S \subseteq rows
    /\ Cardinality(S) = SweepLimit \/ (S = rows /\ Cardinality(S) < SweepLimit)
    /\ \A a \in S, b \in rows \ S : age[a] <= age[b]

-----------------------------------------------------------------------------
(* The node: an account of the table changes. *)
Change ==
    /\ \E a \in rows : stale' = stale \cup {a}
    /\ UNCHANGED <<rows, age, queueVars, work, num, chunks, pc, breaks>>

(* from_worths, with n chunks of irreversible blocks to process: when there
   are none it returns before the flush. *)
Catchup(n) == chunks' = n /\ pc' = IF n = 0 THEN "backlog" ELSE "fast"

(* Sync.run, with an empty queue. *)
Start ==
    /\ pc = "down"
    /\ \E n \in 0..MaxChunks : Catchup(n)
    /\ UNCHANGED <<rowVars, queueVars, work, num, breaks>>

(* Mutant: one chunk too many. *)
LastChunkLate == chunks = 0

(* while lbound < ubound *)
LastChunk == chunks = 1

(* Accounts.register, in the transaction of the block: the rows are inserted
   with the default cached_at and are not queued. *)
Register(new) == rows' = rows \cup new

(* One chunk of fast sync: its blocks mark the accounts of S, and register
   those of `new`. *)
FastChunk ==
    /\ pc = "fast"
    /\ \E new \in SUBSET (Account \ rows) :
        /\ Register(new)
        /\ stale' = stale \cup new
        /\ \E S \in SUBSET rows' : Mark(S)
    /\ num' \in 0..(SweepEvery - 1)
    /\ chunks' = chunks - 1
    /\ pc' = IF LastChunk THEN "flush" ELSE "fast"
    /\ UNCHANGED <<age, work, breaks>>

(* Accounts.flush(trx=True): _take_all, *)
TakeAll ==
    /\ pc = "flush" /\ work = <<>> /\ queue # <<>>
    /\ work' = queue
    /\ queue' = <<>>
    /\ members' = {}
    /\ UNCHANGED <<rowVars, num, chunks, pc, breaks>>

(* and a transaction for each batch. *)
WriteBatch ==
    LET n    == IF Len(work) < Batch THEN Len(work) ELSE Batch
        done == ToSet(SubSeq(work, 1, n))
    IN /\ pc = "flush" /\ work # <<>>
       /\ stale' = stale \ done
       /\ age' = Touched(done)
       /\ work' = SubSeq(work, n + 1, Len(work))
       /\ pc' = IF work' = <<>> THEN "backlog" ELSE "flush"
       /\ UNCHANGED <<rows, queueVars, num, chunks, breaks>>

NothingToFlush ==
    /\ pc = "flush" /\ work = <<>> /\ queue = <<>>
    /\ pc' = "backlog"
    /\ UNCHANGED <<rowVars, queueVars, work, num, chunks, breaks>>

(* The payout backlog, before listening: dirty_paidouts marks the authors. *)
Backlog ==
    /\ pc = "backlog"
    /\ \E authors \in SUBSET rows : Mark(authors)
    /\ pc' = "live"
    /\ UNCHANGED <<rowVars, work, num, chunks, breaks>>

(* listen: a block marks and registers accounts, a portion of the queue is
   written, then payouts mark authors, all in the transaction of the block. *)
LiveBlock ==
    /\ pc = "live"
    /\ \E new \in SUBSET (Account \ rows) :
        /\ Register(new)
        /\ \E S \in SUBSET rows', authors \in SUBSET rows :
            \E f \in Added(queue, members, S) :
                LET g == Shift(f, Portion(Len(f.queue)))
                IN /\ stale' = (stale \cup new) \ ToSet(g.taken)
                   /\ age' = Touched(ToSet(g.taken))
                   /\ \E h \in Added(g.queue, g.members, authors) :
                        queue' = h.queue /\ members' = h.members
    /\ num' = (num + 1) % SweepEvery
    /\ pc' = IF num' = 0 THEN "sweep" ELSE "live"
    /\ UNCHANGED <<work, chunks, breaks>>

(* Accounts.dirty_oldest, after the commit of the block. *)
Sweep ==
    /\ pc = "sweep"
    /\ \E S \in SUBSET rows : Oldest(S) /\ Mark(S)
    /\ pc' = "live"
    /\ UNCHANGED <<rowVars, work, num, chunks, breaks>>

(* The stream falls behind, or meets a micro-fork: back to from_worths, with
   the queue as it is. *)
LeaveLive ==
    /\ pc = "live"
    /\ breaks < MaxBreaks
    /\ breaks' = breaks + 1
    /\ \E n \in 0..MaxChunks : Catchup(n)
    /\ UNCHANGED <<rowVars, queueVars, work, num>>

(* The process ends, at any point; the queue was in memory. *)
Crash ==
    /\ pc # "down"
    /\ breaks < MaxBreaks
    /\ breaks' = breaks + 1
    /\ pc' = "down"
    /\ queue' = <<>>
    /\ members' = {}
    /\ work' = <<>>
    /\ chunks' = 0
    /\ UNCHANGED <<rowVars, num>>

(* After the initial sync, which registers accounts and caches none. *)
Init ==
    /\ rows \in SUBSET Account
    /\ stale = rows
    /\ age = [a \in Account |-> 0]
    /\ queue = <<>> /\ members = {}
    /\ work = <<>>
    /\ num = 0 /\ chunks = 0
    /\ pc = "down"
    /\ breaks = 0

IndexerStep ==
    \/ Start \/ FastChunk \/ TakeAll \/ WriteBatch \/ NothingToFlush
    \/ Backlog \/ LiveBlock \/ Sweep

Next == Change \/ IndexerStep \/ LeaveLive \/ Crash

Spec == Init /\ [][Next]_vars

(* The process is started again whenever it ends, and blocks keep coming; what
   the blocks mark is up to the chain. *)
FairSpec == Spec /\ WF_vars(IndexerStep)

-----------------------------------------------------------------------------
(* Properties. *)

(* The queue and the set of UniqueFIFO agree, and no account is queued twice:
   a name that stayed in the set without being queued could never be marked
   again. *)
QueueMatchesSet ==
    /\ members = ToSet(queue)
    /\ \A i, j \in 1..Len(queue) : queue[i] = queue[j] => i = j

(* The rows written last. *)
Newest == {a \in rows : age[a] > 0 /\ \A b \in rows : age[b] <= age[a]}

(* Every live block either writes a queued account or moves it nearer to the
   front of the queue, however many marks keep coming and although an account
   that is marked again keeps its place: none waits longer than its place. *)
EveryBlockAdvances ==
    [][pc = "live" /\ num' # num =>
        \A i \in 1..Len(queue) :
            queue[i] \in Newest' \/ \E j \in 1..(i - 1) : queue'[j] = queue[i]]_vars

(* "accounts are swept regularly" (from_worths): whatever the operations fail
   to mark and the crashes lose, every row is brought up to date again and
   again. *)
Refreshed == \A a \in Account : []<>(a \notin stale)
=============================================================================
