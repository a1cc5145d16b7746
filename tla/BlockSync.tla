------------------------------ MODULE BlockSync ------------------------------
(***************************************************************************)
(* The block indexer: Sync (indexer/sync.py) reads irreversible blocks in  *)
(* chunks and follows the head through BlockStream and BlockQueue          *)
(* (worth/block/stream.py), which trails it by a few blocks; Blocks        *)
(* (indexer/blocks.py) writes them to worth_blocks with the rows of their  *)
(* operations, and at startup pops what a fork has replaced. The node may  *)
(* switch to another branch between any two calls.                         *)
(***************************************************************************)
EXTENDS Integers, Sequences, FiniteSets, FiniteSetsExt

CONSTANTS
    Bodies,     \* the sets of operations a block may carry in a run
    Trail,      \* trail_blocks
    MaxGap,     \* blocks behind the head at which live sync gives up
    ForkLimit,  \* pops verify_head refuses to reach
    Chunk,      \* blocks of one transaction of fast sync
    MaxDepth,   \* bound on the blocks a fork replaces
    MaxHead,    \* bound on the length of the chain
    MaxForks,   \* bound on the forks of a behaviour
    MaxCrashes  \* bound on the crashes of a behaviour

ASSUME SyncAssumption ==
    /\ Trail \in Nat /\ MaxGap \in Nat \ {0} /\ ForkLimit \in Nat \ {0}
    /\ Chunk \in Nat \ {0} /\ MaxDepth \in Nat /\ MaxHead \in Nat
    /\ MaxForks \in Nat /\ MaxCrashes \in Nat
    /\ {} \in Bodies /\ Bodies \subseteq SUBSET {"post", "delete", "pay"}

VARIABLES
    chain,      \* the chain of the node; the number of a block is its index
    lib,        \* the last irreversible block of the node
    forks,      \* forks so far: the tag of the blocks to come
    blocks,     \* worth_blocks
    tables,     \* the rows of worth_posts and worth_payments for one post
    pc,         \* where the process is
    cursor,     \* verify_head's cursor
    ubound,     \* from_worths: the block to stop before
    buf,        \* BlockQueue._queue
    link,       \* BlockQueue._prev
    fault,      \* the exception that ended the process, "none" otherwise
    crashes

nodeVars == <<chain, lib, forks>>
dbVars   == <<blocks, tables>>
memVars  == <<pc, cursor, ubound, buf, link>>
vars     == <<nodeVars, dbVars, memVars, fault, crashes>>

(* A block and its hash: its number, and the tag of the branch that made it. *)
Block == [tag : Nat, prev : Int, body : Bodies]

(* made: the block that inserted the row, 0 when there is none. payments: the
   block_num of each row of worth_payments. *)
NoRow  == [made |-> 0, deleted |-> FALSE, promoted |-> 0]
NoTables == [post |-> NoRow, payments |-> {}]

Tables == [post : [made : Nat, deleted : BOOLEAN, promoted : Nat], payments : SUBSET Nat]

Phases == {"down", "verify", "pop", "ready", "fast", "listen", "live"}
Faults == {"none", "fork too deep", "not irreversible", "payments fk",
           "blocks fk", "no parent", "fork", "format"}

TypeOK ==
    /\ chain \in Seq(Block)
    /\ lib \in 1..Len(chain)
    /\ forks \in Nat
    /\ blocks \in Seq(Block)
    /\ tables \in Tables
    /\ pc \in Phases
    /\ cursor \in 0..Len(blocks)
    /\ ubound \in 0..Len(chain)
    /\ buf \in Seq(Block)
    /\ link \in Nat
    /\ fault \in Faults
    /\ crashes \in Nat

-----------------------------------------------------------------------------
(* The node. *)

(* The post is live after the blocks of s. *)
Alive(s) ==
    \E i \in 1..Len(s) :
        /\ "post" \in s[i].body
        /\ \A j \in (i + 1)..Len(s) : "delete" \notin s[j].body

Accepts(s, body) ==
    /\ "post" \in body => ~Alive(s)
    /\ "delete" \in body => Alive(s)
    /\ "pay" \in body => Alive(s) \/ "post" \in body

Minted(s, tag, body) == Append(s, [tag |-> tag, prev |-> s[Len(s)].tag, body |-> body])

Produce ==
    /\ Len(chain) < MaxHead
    /\ \E body \in Bodies :
        /\ Accepts(chain, body)
        /\ chain' = Minted(chain, forks, body)
    /\ UNCHANGED <<lib, forks, dbVars, memVars, fault, crashes>>

(* The node switches to a longer branch that leaves its chain after block k;
   the first block of the branch may carry operations. *)
Fork ==
    /\ forks < MaxForks
    /\ Len(chain) < MaxHead
    /\ forks' = forks + 1
    /\ \E k \in lib..(Len(chain) - 1), body \in Bodies :
        LET base == SubSeq(chain, 1, k)
            size == Len(chain) + 1 - k
        IN /\ Len(chain) - k <= MaxDepth
           /\ Accepts(base, body)
           /\ chain' = base \o
                [i \in 1..size |->
                    [tag  |-> forks + 1,
                     prev |-> IF i = 1 THEN chain[k].tag ELSE forks + 1,
                     body |-> IF i = 1 THEN body ELSE {}]]
    /\ UNCHANGED <<lib, dbVars, memVars, fault, crashes>>

Finalize ==
    /\ lib < Len(chain)
    /\ lib' = lib + 1
    /\ UNCHANGED <<chain, forks, dbVars, memVars, fault, crashes>>

-----------------------------------------------------------------------------
(* Blocks: writing and popping. *)

Having(s, op) == {i \in 1..Len(s) : op \in s[i].body}

(* A post of the url is there after s[i]. *)
Known(t, s, i) == t.post.made # 0 \/ \E j \in Having(s, "post") : j <= i

(* _process: the rows t, of `base` blocks, after the blocks of s. A comment
   inserts the post or restores the deleted one; a delete flags it; a transfer
   adds to its promoted balance, be it deleted or not. *)
RowsFrom(t, base, s) ==
    LET posts   == Having(s, "post")
        deletes == Having(s, "delete")
        paid    == {i \in Having(s, "pay") : Known(t, s, i)}
    IN [post |->
            [made     |-> IF t.post.made # 0 \/ posts = {} THEN t.post.made
                          ELSE base + Min(posts),
             deleted  |-> IF posts \cup deletes = {} THEN t.post.deleted
                          ELSE \E i \in deletes : \A j \in posts : j <= i,
             promoted |-> t.post.promoted + Cardinality(paid)],
        payments |-> t.payments \cup {base + i : i \in paid}]

RowsAfter(s) == RowsFrom(tables, Len(blocks), s)

(* Mutant: a table without the foreign key from prev to hash. *)
PushFaultUnlinked(s) ==
    IF \E i \in Having(s, "delete") : ~Known(tables, s, i) THEN "no parent"
    ELSE "none"

(* The exceptions of writing the blocks of s in one transaction: the foreign
   key from prev to hash, or a delete of an unknown post. *)
PushFault(s) ==
    IF s[1].prev # blocks[Len(blocks)].tag THEN "blocks fk"
    ELSE IF \E i \in Having(s, "delete") : ~Known(tables, s, i) THEN "no parent"
    ELSE "none"

Push(s) ==
    /\ PushFault(s) = "none"
    /\ blocks' = blocks \o s
    /\ tables' = RowsAfter(s)

(* _pop deletes the posts made since a block before the payments of the block:
   a payment to a post of the same block blocks it (worth_payments_fk3). *)
PopBlocked ==
    /\ tables.post.made > cursor
    /\ \E n \in tables.payments : n <= tables.post.made

(* Mutant: rows dated by the first popped block stay. *)
PopLeavesFirst ==
    /\ blocks' = SubSeq(blocks, 1, cursor)
    /\ tables' = [post     |-> IF tables.post.made > cursor + 1 THEN NoRow ELSE tables.post,
                  payments |-> {n \in tables.payments : n <= cursor}]

(* Mutant: the block the node agrees on is popped as well. *)
PopPastMatch ==
    /\ blocks' = SubSeq(blocks, 1, cursor - 1)
    /\ tables' = [post     |-> IF tables.post.made >= cursor THEN NoRow ELSE tables.post,
                  payments |-> {n \in tables.payments : n < cursor}]

(* What _pop leaves. It undoes inserts, not updates: the deleted flag and the
   promoted balance of an older post stay as they are. *)
PopBlocks ==
    /\ blocks' = SubSeq(blocks, 1, cursor)
    /\ tables' = [post     |-> IF tables.post.made > cursor THEN NoRow ELSE tables.post,
                  payments |-> {n \in tables.payments : n <= cursor}]

-----------------------------------------------------------------------------
(* Startup. *)

Start ==
    /\ pc = "down"
    /\ pc' = "verify"
    /\ cursor' = Len(blocks)
    /\ fault' = "none"
    /\ UNCHANGED <<nodeVars, dbVars, ubound, buf, link, crashes>>

Matches == blocks[cursor].tag = chain[cursor].tag

(* Mutant: the walk stops at the first block that differs. *)
WalkShort ==
    /\ pc = "verify"
    /\ Len(blocks) - cursor < ForkLimit
    /\ ~Matches
    /\ pc' = "pop"
    /\ UNCHANGED <<nodeVars, dbVars, cursor, ubound, buf, link, fault, crashes>>

(* verify_head: move backwards until the node agrees. *)
WalkBack ==
    /\ pc = "verify"
    /\ Len(blocks) - cursor < ForkLimit
    /\ ~Matches
    /\ cursor' = cursor - 1
    /\ UNCHANGED <<nodeVars, dbVars, pc, ubound, buf, link, fault, crashes>>

Agree ==
    /\ pc = "verify"
    /\ Len(blocks) - cursor < ForkLimit
    /\ Matches
    /\ pc' = IF cursor = Len(blocks) THEN "ready" ELSE "pop"
    /\ UNCHANGED <<nodeVars, dbVars, cursor, ubound, buf, link, fault, crashes>>

PopFork ==
    /\ pc = "pop"
    /\ cursor < lib
    /\ ~PopBlocked
    /\ PopBlocks
    /\ pc' = "ready"
    /\ UNCHANGED <<nodeVars, cursor, ubound, buf, link, fault, crashes>>

-----------------------------------------------------------------------------
(* Sync.run: fast sync, then the stream. *)

(* from_worths: read up to the last irreversible block, exclusive. *)
EnterFast ==
    /\ pc = "ready"
    /\ ubound' = lib
    /\ pc' = IF lib > Len(blocks) + 1 THEN "fast" ELSE "listen"
    /\ UNCHANGED <<nodeVars, dbVars, cursor, buf, link, fault, crashes>>

NextChunk ==
    LET to == IF Len(blocks) + 1 + Chunk < ubound THEN Len(blocks) + 1 + Chunk ELSE ubound
    IN SubSeq(chain, Len(blocks) + 1, to - 1)

FastChunk ==
    /\ pc = "fast"
    /\ Push(NextChunk)
    /\ pc' = IF Len(blocks') + 1 < ubound THEN "fast" ELSE "listen"
    /\ UNCHANGED <<nodeVars, cursor, ubound, buf, link, fault, crashes>>

(* listen: the stream starts from the node's copy of the head block. *)
Listen ==
    /\ pc = "listen"
    /\ link' = chain[Len(blocks)].tag
    /\ buf' = <<>>
    /\ pc' = "live"
    /\ UNCHANGED <<nodeVars, dbVars, cursor, ubound, fault, crashes>>

Curr  == Len(blocks) + Len(buf) + 1
GapOk == Len(chain) - Curr < MaxGap

(* The stream has a next block to push. *)
Fetching == pc = "live" /\ GapOk /\ Curr <= Len(chain)

(* Mutant: the buffer gives up a block as soon as it is full. *)
FullEarly == Len(buf) + 1 >= Trail

(* push: the buffer holds trail_blocks blocks. *)
Full == Len(buf) + 1 > Trail

Linking == chain[Curr].prev = link

Fetched == Append(buf, chain[Curr])

FetchBlock ==
    /\ Fetching /\ Linking
    /\ link' = chain[Curr].tag
    /\ IF Full
       THEN Push(<<Head(Fetched)>>) /\ buf' = Tail(Fetched)
       ELSE buf' = Fetched /\ UNCHANGED dbVars
    /\ UNCHANGED <<nodeVars, pc, cursor, ubound, fault, crashes>>

(* The node has no next block: sleep, and ask again. *)
Wait ==
    /\ pc = "live"
    /\ GapOk
    /\ Curr > Len(chain)
    /\ UNCHANGED vars

(* The stream ends, and its queue with it. *)
EndStream ==
    /\ pc = "live"
    /\ ~GapOk
    /\ pc' = "ready"
    /\ buf' = <<>>
    /\ link' = 0
    /\ UNCHANGED <<nodeVars, dbVars, cursor, ubound, fault, crashes>>

-----------------------------------------------------------------------------
(* The end of the process; it is started again (restart: always). *)

Die ==
    /\ pc' = "down"
    /\ cursor' = 0
    /\ ubound' = 0
    /\ buf' = <<>>
    /\ link' = 0
    /\ UNCHANGED <<nodeVars, dbVars>>

Crash ==
    /\ pc # "down"
    /\ crashes < MaxCrashes
    /\ crashes' = crashes + 1
    /\ Die
    /\ UNCHANGED fault

(* A fork behind blocks of the buffer: the message of MicroForkException is
   formatted with its arguments swapped, so that a TypeError is raised. *)
StreamFault ==
    IF ~Linking THEN (IF buf # <<>> THEN "format" ELSE "fork")
    ELSE IF Full THEN PushFault(<<Head(Fetched)>>)
    ELSE "none"

(* The exception of the next step of the process, if it raises one. *)
Raised ==
    CASE pc = "verify" /\ Len(blocks) - cursor >= ForkLimit -> "fork too deep"
      [] pc = "pop" -> IF cursor >= lib THEN "not irreversible"
                       ELSE IF PopBlocked THEN "payments fk" ELSE "none"
      [] pc = "fast" -> PushFault(NextChunk)
      [] Fetching -> StreamFault
      [] OTHER -> "none"

Raise ==
    /\ fault' = Raised
    /\ fault' # "none"
    /\ Die
    /\ UNCHANGED crashes

-----------------------------------------------------------------------------
(* The initial sync is done, up to block 1. *)
Genesis == [tag |-> 0, prev |-> -1, body |-> {}]

Init ==
    /\ chain = <<Genesis>>
    /\ lib = 1
    /\ forks = 0
    /\ blocks = <<Genesis>>
    /\ tables = NoTables
    /\ pc = "down"
    /\ cursor = 0
    /\ ubound = 0
    /\ buf = <<>>
    /\ link = 0
    /\ fault = "none"
    /\ crashes = 0

NodeStep == Produce \/ Fork \/ Finalize

IndexerStep ==
    \/ Start \/ WalkBack \/ Agree \/ PopFork
    \/ EnterFast \/ FastChunk \/ Listen \/ FetchBlock \/ Wait \/ EndStream
    \/ Raise

Next == NodeStep \/ IndexerStep \/ Crash

Spec == Init /\ [][Next]_vars

(* The process keeps running; blocks keep coming and become irreversible. *)
FairSpec == Spec /\ WF_vars(IndexerStep) /\ WF_vars(Produce) /\ WF_vars(Finalize)

-----------------------------------------------------------------------------
(* Properties. *)

(* verify_head stops at the first block the node has too, and trusts all
   blocks below it: they are those of the node. *)
MatchIsPrefix ==
    \A n \in 1..Len(blocks) :
        n <= Len(chain) /\ blocks[n].tag = chain[n].tag
            => \A m \in 1..n : blocks[m] = chain[m]

Follower == INSTANCE ChainFollower WITH copy <- blocks

(* The indexer is a chain follower: it extends its copy by linked blocks, and
   cuts off only blocks that are not on the chain of the node. *)
IsChainFollower == Follower!Spec

(* The rows of worth_posts and worth_payments are those of the blocks of
   worth_blocks: those of popped blocks are gone, those of no block missing. *)
RowsMatchBlocks ==
    /\ tables.payments = {n \in 1..Len(blocks) : "pay" \in blocks[n].body}
    /\ \A n \in 1..Len(blocks) :
        "post" \in blocks[n].body => tables.post.made \in 1..n
    /\ tables.post.made # 0 =>
        tables.post.made <= Len(blocks) /\ "post" \in blocks[tables.post.made].body

(* The buffer of the stream confines micro forks: if no fork is deeper than
   trail_blocks, no block that was written is ever popped. *)
MicroForksStayInBuffer == [][Len(blocks') >= Len(blocks)]_vars

(* If no fork is deeper than trail_blocks, the rows are exactly what the blocks
   of worth_blocks make of them, with the deleted flag and promoted balance
   that _pop would leave behind. *)
RowsAreExact ==
    tables = RowsFrom(NoTables, 0, blocks)

InSync == \A n \in 1..Len(blocks) : n <= Len(chain) /\ blocks[n] = chain[n]

(* Blocks of the indexer that the node has replaced, and two cases that no
   restart gets out of: verify_head refuses to go back that far, or _pop cannot
   delete a post that is paid for in its own block. *)
Replaced == {n \in 1..Len(blocks) : n > Len(chain) \/ blocks[n] # chain[n]}
Stranded ==
    \/ Cardinality(Replaced) >= ForkLimit
    \/ \E n \in Replaced : tables.post.made = n /\ n \in tables.payments

(* Through forks and crashes the indexer ends on the branch of the node, at most
   trail_blocks behind its head, unless it is stranded, and then for good. *)
Follows == <>[]Stranded \/ <>[](InSync /\ Len(blocks) >= Len(chain) - Trail)

(* "Otherwise, pop blocks until in sync" (README.md:235, fork resolution): the
   indexer ends on the branch of the node, whatever the popped blocks carry. *)
PopsUntilInSync == <>[]InSync

(* BlockQueue.push throws a MicroForkException, which run catches. *)
MicroForkIsRaised == fault # "format"
=============================================================================
