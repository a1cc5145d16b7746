--------------------------- MODULE BlockSyncProofs ---------------------------
(***************************************************************************)
(* Proofs about BlockSync, for any node, any bounds and any trail_blocks.  *)
(***************************************************************************)
EXTENDS BlockSync, SequenceTheorems, FiniteSetTheorems, WellFoundedInduction, TLAPS

PostFirst(s) ==
    \A n \in 1..Len(s) : "pay" \in s[n].body => \E m \in 1..n : "post" \in s[m].body

(* What the node guarantees of its chain. *)
NodeInv ==
    /\ Follower!Linked(chain)
    /\ PostFirst(chain)
    /\ \A n \in 1..Len(chain) : chain[n].tag <= forks

(* What was indexed or fetched bears the tag of a branch that exists: the
   blocks of a fork to come differ from all of them. *)
CopyInv ==
    /\ Len(blocks) >= 1
    /\ blocks[1] = chain[1]
    /\ Follower!Linked(blocks)
    /\ Len(blocks) + Len(buf) <= Len(chain)
    /\ \A n \in 1..Len(blocks) : blocks[n].tag <= forks
    /\ \A i \in 1..Len(buf) : buf[i].tag <= forks

(* A buffered block that is on the chain still has all of the buffer before it
   on the chain. *)
QueueInv ==
    /\ buf # <<>> => pc = "live" /\ link = buf[Len(buf)].tag
    /\ \A i \in 1..Len(buf) :
        buf[i].tag = chain[Len(blocks) + i].tag
            => \A j \in 1..i : buf[j] = chain[Len(blocks) + j]

(* The blocks verify_head has passed are not on the chain. *)
VerifyInv ==
    pc \in {"verify", "pop"} =>
        /\ cursor \in 1..Len(blocks)
        /\ pc = "pop" => cursor < Len(blocks)
        /\ \A n \in (cursor + 1)..Len(blocks) : blocks[n].tag # chain[n].tag

(* Fast sync reads irreversible blocks, at least one at a time. *)
FastInv ==
    pc = "fast" => Len(blocks) + 1 < ubound /\ ubound <= lib

SyncInv ==
    /\ TypeOK /\ NodeInv /\ CopyInv /\ QueueInv /\ VerifyInv /\ FastInv
    /\ MatchIsPrefix /\ RowsMatchBlocks

-----------------------------------------------------------------------------
(* A set of naturals that is not empty has a least element. *)
LEMMA MinIsLeast ==
    ASSUME NEW S \in SUBSET Nat, S # {}
    PROVE  Min(S) \in S /\ \A y \in S : Min(S) <= y
<1>1. PICK x \in S : \A y \in S : ~(<<y, x>> \in OpToRel(<, Nat))
  BY WFMin, NatLessThanWellFounded, Zenon
<1>2. \A y \in S : ~(y < x)
  BY <1>1, Zenon DEF OpToRel
<1>3. \A y \in S : x <= y
  BY <1>2
<1> QED BY <1>3 DEF Min

(* The length of a sequence of blocks is a natural number. *)
LEMMA BlockSeq ==
    ASSUME NEW s \in Seq(Block)
    PROVE  /\ Len(s) \in Nat
           /\ \A n \in 1..Len(s) : s[n] \in Block
           /\ \A n \in 1..Len(s) : s[n].tag \in Nat /\ s[n].body \in Bodies
<1>1. Len(s) \in Nat
  OBVIOUS
<1>2. \A n \in 1..Len(s) : s[n] \in Block
  BY ElementOfSeq
<1> QED BY <1>1, <1>2 DEF Block

(* The lengths that the steps compare. *)
LEMMA Lengths ==
    ASSUME TypeOK
    PROVE  Len(chain) \in Nat /\ Len(blocks) \in Nat /\ Len(buf) \in Nat
BY BlockSeq DEF TypeOK

(* Sequences cut and joined, as blocks. *)
LEMMA Prefix ==
    ASSUME NEW s \in Seq(Block), NEW k \in 1..Len(s)
    PROVE  /\ SubSeq(s, 1, k) \in Seq(Block)
           /\ Len(SubSeq(s, 1, k)) = k
           /\ \A n \in 1..k : SubSeq(s, 1, k)[n] = s[n]
<1>1. Len(s) \in Nat /\ \A n \in 1..k : s[n] \in Block
  BY BlockSeq
<1> QED BY <1>1, SubSeqProperties

-----------------------------------------------------------------------------
(* The chain grows by blocks of tags that nothing indexed or buffered has, and
   keeps its irreversible part. *)
Grown(k) ==
    /\ chain' \in Seq(Block)
    /\ Len(chain') = Len(chain) + 1
    /\ \A n \in 1..k : chain'[n] = chain[n]
    /\ \A n \in (k + 1)..Len(chain) : chain'[n].tag > forks

(* A block appended to a linked chain. *)
LEMMA MintedBlock ==
    ASSUME NEW s \in Seq(Block), Len(s) >= 1, NEW tag \in Nat, NEW body \in Bodies,
           Accepts(s, body), Follower!Linked(s), PostFirst(s)
    PROVE  LET t == Minted(s, tag, body)
           IN /\ t \in Seq(Block)
              /\ Len(t) = Len(s) + 1
              /\ \A n \in 1..Len(s) : t[n] = s[n]
              /\ t[Len(s) + 1].tag = tag
              /\ Follower!Linked(t)
              /\ PostFirst(t)
<1> DEFINE b == [tag |-> tag, prev |-> s[Len(s)].tag, body |-> body]
           t == Append(s, b)
<1>1. Len(s) \in Nat /\ s[Len(s)].tag \in Nat
  BY BlockSeq
<1>2. b \in Block
  BY <1>1 DEF Block
<1>3. /\ t \in Seq(Block) /\ Len(t) = Len(s) + 1
      /\ \A n \in 1..Len(s) : t[n] = s[n]
      /\ t[Len(s) + 1] = b
  BY <1>2, AppendProperties
<1>4. Follower!Linked(t)
  BY <1>1, <1>3 DEF Follower!Linked
<1>5. PostFirst(t)
  <2> SUFFICES ASSUME NEW n \in 1..Len(t), "pay" \in t[n].body
               PROVE  \E m \in 1..n : "post" \in t[m].body
    BY DEF PostFirst
  <2>1. CASE n \in 1..Len(s)
    BY <2>1, <1>1, <1>3 DEF PostFirst
  <2>2. CASE n = Len(s) + 1
    <3>1. Alive(s) \/ "post" \in body
      BY <2>2, <1>3 DEF Accepts
    <3>2. CASE Alive(s)
      <4>1. PICK i \in 1..Len(s) : "post" \in s[i].body
        BY <3>2 DEF Alive
      <4> QED BY <4>1, <2>2, <1>1, <1>3
    <3>3. CASE "post" \in body
      BY <3>3, <2>2, <1>1, <1>3
    <3> QED BY <3>1, <3>2, <3>3
  <2> QED BY <2>1, <2>2, <1>1, <1>3
<1> QED BY <1>3, <1>4, <1>5 DEF Minted

(* Produce appends a block to the chain. *)
LEMMA ProduceGrows ==
    ASSUME TypeOK, NodeInv, Produce
    PROVE  Grown(Len(chain)) /\ NodeInv'
<1>1. chain \in Seq(Block) /\ Len(chain) \in Nat /\ Len(chain) >= 1 /\ forks \in Nat
  BY Lengths DEF TypeOK
<1>2. PICK body \in Bodies : Accepts(chain, body) /\ chain' = Minted(chain, forks, body)
  BY DEF Produce
<1>3. /\ chain' \in Seq(Block) /\ Len(chain') = Len(chain) + 1
      /\ \A n \in 1..Len(chain) : chain'[n] = chain[n]
      /\ chain'[Len(chain) + 1].tag = forks
      /\ Follower!Linked(chain') /\ PostFirst(chain')
  BY <1>1, <1>2, MintedBlock DEF NodeInv
<1>4. \A n \in 1..Len(chain') : chain'[n].tag <= forks
  BY <1>1, <1>3 DEF NodeInv
<1>5. Grown(Len(chain))
  BY <1>1, <1>3 DEF Grown
<1>6. NodeInv'
  BY <1>3, <1>4 DEF NodeInv, Produce, Follower!Linked, PostFirst
<1> QED BY <1>5, <1>6

(* Fork replaces the chain above block k by a branch of a tag of its own. *)
LEMMA ForkGrows ==
    ASSUME TypeOK, NodeInv, Fork
    PROVE  /\ \E k \in lib..Len(chain) : Grown(k) /\ Len(chain) - k <= MaxDepth
           /\ NodeInv' /\ forks' = forks + 1
<1>1. chain \in Seq(Block) /\ Len(chain) \in Nat /\ lib \in 1..Len(chain) /\ forks \in Nat
  BY Lengths DEF TypeOK
<1>2. PICK k \in lib..(Len(chain) - 1), body \in Bodies :
        /\ Len(chain) - k <= MaxDepth
        /\ Accepts(SubSeq(chain, 1, k), body)
        /\ chain' = SubSeq(chain, 1, k) \o
             [i \in 1..(Len(chain) + 1 - k) |->
                 [tag  |-> forks + 1,
                  prev |-> IF i = 1 THEN chain[k].tag ELSE forks + 1,
                  body |-> IF i = 1 THEN body ELSE {}]]
  BY DEF Fork
<1> DEFINE base == SubSeq(chain, 1, k)
           size == Len(chain) + 1 - k
           blk(i) == [tag  |-> forks + 1,
                      prev |-> IF i = 1 THEN chain[k].tag ELSE forks + 1,
                      body |-> IF i = 1 THEN body ELSE {}]
           tip == [i \in 1..size |-> blk(i)]
<1>3. k \in Nat /\ k \in 1..Len(chain) /\ size \in Nat /\ size >= 2 /\ k < Len(chain)
  BY <1>1
<1>4. base \in Seq(Block) /\ Len(base) = k /\ \A n \in 1..k : base[n] = chain[n]
  BY <1>1, <1>3, Prefix
<1>5. tip \in Seq(Block) /\ Len(tip) = size /\ \A i \in 1..size : tip[i] = blk(i)
  <2>1. chain[k].tag \in Nat /\ {} \in Bodies
    BY <1>1, <1>3, BlockSeq, SyncAssumption
  <2>2. \A i \in 1..size : blk(i) \in Block
    BY SMTT(30), <2>1, <1>1 DEF Block
  <2>3. tip \in Seq(Block)
    BY <2>2, <1>3, IsASeq
  <2> QED BY <2>3, <1>3, LenProperties
<1> HIDE DEF base, tip, size
<1>6. chain' = base \o tip
  BY <1>2 DEF base, tip, size
<1>7. /\ chain' \in Seq(Block) /\ Len(chain') = k + size
      /\ \A n \in 1..(k + size) : chain'[n] = IF n <= k THEN base[n] ELSE tip[n - k]
  BY ZenonT(30), <1>4, <1>5, <1>6, ConcatProperties
<1>8. k + size = Len(chain) + 1
  BY <1>1, <1>3 DEF size
<1>9. \A n \in 1..k : chain'[n] = chain[n]
  BY <1>3, <1>4, <1>7
<1>10. \A n \in (k + 1)..(Len(chain) + 1) :
          /\ chain'[n].tag = forks + 1
          /\ chain'[n].prev = IF n = k + 1 THEN chain[k].tag ELSE forks + 1
          /\ chain'[n].body = IF n = k + 1 THEN body ELSE {}
  <2> SUFFICES ASSUME NEW n \in (k + 1)..(Len(chain) + 1)
               PROVE  /\ chain'[n].tag = forks + 1
                      /\ chain'[n].prev = IF n = k + 1 THEN chain[k].tag ELSE forks + 1
                      /\ chain'[n].body = IF n = k + 1 THEN body ELSE {}
    OBVIOUS
  <2>1. n - k \in 1..size /\ n \in 1..(k + size) /\ ~(n <= k)
    BY <1>1, <1>3, <1>8
  <2>2. chain'[n] = blk(n - k)
    BY <2>1, <1>5, <1>7
  <2>3. n - k = 1 <=> n = k + 1
    BY <1>3
  <2> QED BY <2>2, <2>3
<1>11. Grown(k)
  <2>1. \A n \in (k + 1)..Len(chain) : chain'[n].tag = forks + 1 /\ forks + 1 > forks
    <3>1. \A n \in (k + 1)..Len(chain) : n \in (k + 1)..(Len(chain) + 1)
      BY <1>1, <1>3
    <3> QED BY <3>1, <1>1, <1>10
  <2>2. \A n \in (k + 1)..Len(chain) : chain'[n].tag > forks
    BY <2>1
  <2> QED BY <2>2, <1>7, <1>8, <1>9 DEF Grown
<1>12. Follower!Linked(chain')
  <2> SUFFICES ASSUME NEW n \in 2..(Len(chain) + 1)
               PROVE  chain'[n].prev = chain'[n - 1].tag
    BY <1>7, <1>8 DEF Follower!Linked
  <2>1. CASE n <= k
    <3>1. n \in 2..Len(chain) /\ n \in 1..k /\ n - 1 \in 1..k
      BY <2>1, <1>1, <1>3
    <3>2. chain[n].prev = chain[n - 1].tag
      BY <3>1 DEF NodeInv, Follower!Linked
    <3>3. chain'[n] = chain[n] /\ chain'[n - 1] = chain[n - 1]
      BY <3>1, <1>9
    <3> QED BY <3>2, <3>3
  <2>2. CASE n = k + 1
    <3>1. n \in (k + 1)..(Len(chain) + 1) /\ n - 1 = k /\ k \in 1..k
      BY <2>2, <1>1, <1>3
    <3>2. chain'[n].prev = chain[k].tag
      BY <3>1, <2>2, <1>10
    <3>3. chain'[k] = chain[k]
      BY <3>1, <1>9
    <3> QED BY <3>1, <3>2, <3>3
  <2>3. CASE n > k + 1
    <3>1. n \in (k + 1)..(Len(chain) + 1) /\ n - 1 \in (k + 1)..(Len(chain) + 1)
      BY <2>3, <1>1, <1>3
    <3>2. n # k + 1
      BY <2>3, <1>3
    <3> QED BY <3>1, <3>2, <1>10
  <2> QED BY <2>1, <2>2, <2>3, <1>1, <1>3
<1>13. PostFirst(chain')
  <2> SUFFICES ASSUME NEW n \in 1..(Len(chain) + 1), "pay" \in chain'[n].body
               PROVE  \E m \in 1..n : "post" \in chain'[m].body
    BY <1>7, <1>8 DEF PostFirst
  <2>1. CASE n <= k
    <3>1. n \in 1..k /\ n \in 1..Len(chain)
      BY <2>1, <1>1, <1>3
    <3>2. PICK m \in 1..n : "post" \in chain[m].body
      BY <3>1, <1>9 DEF NodeInv, PostFirst
    <3>3. m \in 1..k
      BY <3>1, <1>3
    <3> QED BY <3>2, <3>3, <1>9
  <2>2. CASE n > k
    <3>1. n \in (k + 1)..(Len(chain) + 1)
      BY <2>2, <1>1, <1>3
    <3>2. n = k + 1 /\ "pay" \in body
      BY <3>1, <1>10
    <3>3. CASE "post" \in body
      BY <3>1, <3>2, <3>3, <1>1, <1>3, <1>10
    <3>4. CASE Alive(base)
      <4>1. PICK i \in 1..k : "post" \in base[i].body
        BY <3>4, <1>4 DEF Alive
      <4>2. i \in 1..n
        BY <3>2, <1>3
      <4> QED BY <4>1, <4>2, <1>4, <1>9
    <3> QED BY <3>2, <3>3, <3>4, <1>2 DEF Accepts, base
  <2> QED BY <2>1, <2>2, <1>1, <1>3
<1>14. forks' = forks + 1
  BY DEF Fork
<1>15. \A n \in 1..Len(chain') : chain'[n].tag <= forks'
  <2> SUFFICES ASSUME NEW n \in 1..(Len(chain) + 1)
               PROVE  chain'[n].tag <= forks + 1
    BY <1>7, <1>8, <1>14
  <2>1. CASE n <= k
    <3>1. n \in 1..k /\ n \in 1..Len(chain)
      BY <2>1, <1>1, <1>3
    <3>2. chain'[n].tag <= forks /\ chain'[n].tag \in Nat
      BY <3>1, <1>1, <1>9, BlockSeq DEF NodeInv
    <3> QED BY <3>2, <1>1
  <2>2. CASE n > k
    BY <2>2, <1>1, <1>3, <1>10
  <2> QED BY <2>1, <2>2, <1>1, <1>3
<1>16. NodeInv'
  BY <1>12, <1>13, <1>15 DEF NodeInv, Follower!Linked, PostFirst
<1> QED BY <1>1, <1>2, <1>3, <1>11, <1>14, <1>16

(* A chain that grows leaves what was indexed and buffered where it stands. *)
LEMMA GrownKeeps ==
    ASSUME SyncInv, NEW k \in lib..Len(chain), Grown(k), forks' \in Nat, forks' >= forks,
           UNCHANGED <<lib, dbVars, memVars>>
    PROVE  CopyInv' /\ QueueInv' /\ VerifyInv' /\ FastInv' /\ MatchIsPrefix' /\ RowsMatchBlocks'
<1> USE DEF dbVars, memVars
<1>1. /\ Len(chain) \in Nat /\ Len(blocks) \in Nat /\ Len(buf) \in Nat
      /\ lib \in 1..Len(chain) /\ k \in 1..Len(chain) /\ forks \in Nat
      /\ chain \in Seq(Block) /\ blocks \in Seq(Block) /\ buf \in Seq(Block)
  BY Lengths DEF SyncInv, TypeOK
<1>2. /\ Len(chain') = Len(chain) + 1
      /\ \A n \in 1..k : chain'[n] = chain[n]
      /\ \A n \in (k + 1)..Len(chain) : chain'[n].tag > forks
      /\ \A n \in 1..Len(chain') : chain'[n].tag \in Nat
  BY <1>1, BlockSeq DEF Grown
<1>3. /\ Len(blocks) >= 1 /\ blocks[1] = chain[1] /\ Follower!Linked(blocks)
      /\ Len(blocks) + Len(buf) <= Len(chain)
      /\ \A n \in 1..Len(blocks) : blocks[n].tag <= forks /\ blocks[n].tag \in Nat
      /\ \A i \in 1..Len(buf) : buf[i].tag <= forks /\ buf[i].tag \in Nat
  BY <1>1, BlockSeq DEF SyncInv, CopyInv
<1>4. \A n \in 1..Len(blocks) : chain'[n].tag = blocks[n].tag => n <= k
  BY SMTT(30), <1>1, <1>2, <1>3
<1>5. \A i \in 1..Len(buf) : chain'[Len(blocks) + i].tag = buf[i].tag => Len(blocks) + i <= k
  <2> SUFFICES ASSUME NEW i \in 1..Len(buf), chain'[Len(blocks) + i].tag = buf[i].tag,
                      ~(Len(blocks) + i <= k)
               PROVE  FALSE
    OBVIOUS
  <2>1. Len(blocks) + i \in (k + 1)..Len(chain)
    BY <1>1, <1>3
  <2>2. chain'[Len(blocks) + i].tag > forks
    BY <2>1, <1>2
  <2>3. buf[i].tag <= forks /\ buf[i].tag \in Nat
    BY <1>3
  <2> QED BY <2>2, <2>3, <1>1
<1>6. CopyInv'
  <2>1. \A n \in 1..Len(blocks) : blocks[n].tag <= forks'
    BY <1>1, <1>3
  <2>2. \A i \in 1..Len(buf) : buf[i].tag <= forks'
    BY <1>1, <1>3
  <2>3. blocks[1] = chain'[1] /\ Len(blocks) + Len(buf) <= Len(chain')
    BY <1>1, <1>2, <1>3
  <2> QED BY <1>3, <2>1, <2>2, <2>3 DEF CopyInv, Follower!Linked
<1>7. QueueInv'
  <2>1. ASSUME NEW i \in 1..Len(buf), buf[i].tag = chain'[Len(blocks) + i].tag
        PROVE  \A j \in 1..i : buf[j] = chain'[Len(blocks) + j]
    <3>1. Len(blocks) + i <= k
      BY <2>1, <1>5
    <3>2. Len(blocks) + i \in 1..k /\ \A j \in 1..i : Len(blocks) + j \in 1..k
      BY <3>1, <1>1
    <3>3. buf[i].tag = chain[Len(blocks) + i].tag
      BY <2>1, <3>2, <1>2
    <3>4. \A j \in 1..i : buf[j] = chain[Len(blocks) + j]
      BY <3>3 DEF SyncInv, QueueInv
    <3> QED BY <3>2, <3>4, <1>2
  <2>2. buf # <<>> => pc = "live" /\ link = buf[Len(buf)].tag
    BY DEF SyncInv, QueueInv
  <2> QED BY <2>1, <2>2 DEF QueueInv
<1>8. VerifyInv'
  <2> SUFFICES ASSUME pc \in {"verify", "pop"}
               PROVE  /\ cursor \in 1..Len(blocks)
                      /\ pc = "pop" => cursor < Len(blocks)
                      /\ \A n \in (cursor + 1)..Len(blocks) : blocks[n].tag # chain'[n].tag
    BY DEF VerifyInv
  <2>1. /\ cursor \in 1..Len(blocks)
        /\ pc = "pop" => cursor < Len(blocks)
        /\ \A n \in (cursor + 1)..Len(blocks) : blocks[n].tag # chain[n].tag
    BY DEF SyncInv, VerifyInv
  <2>2. ASSUME NEW n \in (cursor + 1)..Len(blocks), blocks[n].tag = chain'[n].tag
        PROVE  FALSE
    <3>1. n \in 1..Len(blocks)
      BY <2>1, <1>1
    <3>2. n \in 1..k
      BY <3>1, <2>2, <1>1, <1>4
    <3> QED BY <3>2, <2>1, <2>2, <1>2
  <2> QED BY <2>1, <2>2
<1>9. FastInv'
  BY DEF SyncInv, FastInv
<1>10. MatchIsPrefix'
  <2> SUFFICES ASSUME NEW n \in 1..Len(blocks), n <= Len(chain'), blocks[n].tag = chain'[n].tag
               PROVE  \A m \in 1..n : blocks[m] = chain'[m]
    BY DEF MatchIsPrefix
  <2>1. n \in 1..k /\ n <= Len(chain) /\ \A m \in 1..n : m \in 1..k
    BY <1>1, <1>4
  <2>2. blocks[n].tag = chain[n].tag
    BY <2>1, <1>2
  <2>3. \A m \in 1..n : blocks[m] = chain[m]
    BY <2>1, <2>2 DEF SyncInv, MatchIsPrefix
  <2> QED BY <2>1, <2>3, <1>2
<1>11. RowsMatchBlocks'
  BY DEF SyncInv, RowsMatchBlocks
<1> QED BY <1>6, <1>7, <1>8, <1>9, <1>10, <1>11

(* The stream links the block it fetches to the last of its buffer, so that all
   of the buffer is on the chain. *)
LEMMA FetchedIsChain ==
    ASSUME SyncInv, Fetching, Linking
    PROVE  /\ Fetched \in Seq(Block)
           /\ Len(Fetched) = Len(buf) + 1
           /\ Len(blocks) + Len(Fetched) <= Len(chain)
           /\ Fetched[Len(Fetched)] = chain[Curr]
           /\ \A i \in 1..Len(Fetched) : Fetched[i] = chain[Len(blocks) + i]
<1>1. /\ Len(chain) \in Nat /\ Len(blocks) \in Nat /\ Len(buf) \in Nat /\ Len(blocks) >= 1
      /\ chain \in Seq(Block) /\ buf \in Seq(Block)
  BY Lengths DEF SyncInv, TypeOK, CopyInv
<1>2. Curr \in 2..Len(chain) /\ Curr = Len(blocks) + (Len(buf) + 1)
  BY <1>1 DEF Fetching, Curr
<1>3. chain[Curr] \in Block
  BY <1>1, <1>2, BlockSeq
<1>4. /\ Fetched \in Seq(Block) /\ Len(Fetched) = Len(buf) + 1
      /\ \A i \in 1..Len(buf) : Fetched[i] = buf[i]
      /\ Fetched[Len(buf) + 1] = chain[Curr]
  BY <1>1, <1>3, AppendProperties DEF Fetched
<1>5. \A i \in 1..Len(buf) : buf[i] = chain[Len(blocks) + i]
  <2>1. CASE buf = <<>>
    BY <2>1
  <2>2. CASE buf # <<>>
    <3>1. Len(buf) >= 1
      BY <2>2, <1>1, EmptySeq
    <3>2. chain[Curr - 1].tag = buf[Len(buf)].tag
      BY <2>2, <1>2 DEF SyncInv, QueueInv, NodeInv, Follower!Linked, Linking
    <3>3. Curr - 1 = Len(blocks) + Len(buf)
      BY <1>1, <1>2
    <3>4. Len(buf) \in 1..Len(buf) /\ buf[Len(buf)].tag = chain[Len(blocks) + Len(buf)].tag
      BY <3>1, <3>2, <3>3, <1>1
    <3> QED BY <3>4 DEF SyncInv, QueueInv
  <2> QED BY <2>1, <2>2
<1>6. \A i \in 1..Len(Fetched) : Fetched[i] = chain[Len(blocks) + i]
  <2> SUFFICES ASSUME NEW i \in 1..(Len(buf) + 1)
               PROVE  Fetched[i] = chain[Len(blocks) + i]
    BY <1>4
  <2>1. CASE i \in 1..Len(buf)
    BY <2>1, <1>4, <1>5
  <2>2. CASE i = Len(buf) + 1
    BY <2>2, <1>2, <1>4
  <2> QED BY <2>1, <2>2, <1>1
<1> QED BY <1>1, <1>2, <1>4, <1>6

(* Blocks of the chain are written only upon a copy of the chain below them:
   the foreign key from prev to hash sees to that. *)
LEMMA PushedIsChain ==
    ASSUME SyncInv, NEW s \in Seq(Block), Len(s) >= 1,
           Len(blocks) + Len(s) <= Len(chain),
           \A i \in 1..Len(s) : s[i] = chain[Len(blocks) + i],
           Push(s)
    PROVE  /\ blocks' \in Seq(Block)
           /\ Len(blocks') = Len(blocks) + Len(s)
           /\ \A n \in 1..Len(blocks') : blocks'[n] = chain[n]
           /\ \A n \in 1..Len(blocks) : blocks'[n] = blocks[n]
           /\ \A i \in 1..Len(s) : blocks'[Len(blocks) + i] = s[i]
<1>1. /\ Len(chain) \in Nat /\ Len(blocks) \in Nat /\ Len(blocks) >= 1 /\ Len(s) \in Nat
      /\ chain \in Seq(Block) /\ blocks \in Seq(Block)
  BY Lengths, BlockSeq DEF SyncInv, TypeOK, CopyInv
<1>2. /\ blocks' \in Seq(Block) /\ Len(blocks') = Len(blocks) + Len(s)
      /\ \A n \in 1..(Len(blocks) + Len(s)) :
            blocks'[n] = IF n <= Len(blocks) THEN blocks[n] ELSE s[n - Len(blocks)]
  BY <1>1, ConcatProperties DEF Push
<1>3. s[1].prev = blocks[Len(blocks)].tag
  BY DEF Push, PushFault
<1>4. s[1] = chain[Len(blocks) + 1]
  BY <1>1
<1>5. Len(blocks) + 1 \in 2..Len(chain) /\ (Len(blocks) + 1) - 1 = Len(blocks)
  BY <1>1
<1>6. chain[Len(blocks) + 1].prev = chain[Len(blocks)].tag
  BY <1>5 DEF SyncInv, NodeInv, Follower!Linked
<1>7. \A n \in 1..Len(blocks) : blocks[n] = chain[n]
  BY <1>1, <1>3, <1>4, <1>5, <1>6 DEF SyncInv, MatchIsPrefix
<1>8. \A n \in 1..Len(blocks) : blocks'[n] = blocks[n]
  BY <1>1, <1>2
<1>9. \A i \in 1..Len(s) : blocks'[Len(blocks) + i] = s[i]
  <2> SUFFICES ASSUME NEW i \in 1..Len(s)
               PROVE  blocks'[Len(blocks) + i] = s[i]
    OBVIOUS
  <2>1. /\ Len(blocks) + i \in 1..(Len(blocks) + Len(s))
        /\ ~(Len(blocks) + i <= Len(blocks)) /\ (Len(blocks) + i) - Len(blocks) = i
    BY <1>1
  <2> QED BY <2>1, <1>2
<1>10. ASSUME NEW n \in 1..(Len(blocks) + Len(s)) PROVE blocks'[n] = chain[n]
  <2>1. CASE n \in 1..Len(blocks)
    BY <2>1, <1>7, <1>8
  <2>2. CASE n > Len(blocks)
    <3>1. n - Len(blocks) \in 1..Len(s) /\ n = Len(blocks) + (n - Len(blocks))
      BY <2>2, <1>1
    <3> QED BY <3>1, <1>9
  <2> QED BY <2>1, <2>2, <1>1
<1> QED BY <1>2, <1>8, <1>9, <1>10

(* The rows keep step with the blocks that Push writes. *)
LEMMA PushedRows ==
    ASSUME TypeOK, RowsMatchBlocks, NEW s \in Seq(Block), Push(s),
           Len(blocks') = Len(blocks) + Len(s),
           \A n \in 1..Len(blocks) : blocks'[n] = blocks[n],
           \A i \in 1..Len(s) : blocks'[Len(blocks) + i] = s[i],
           PostFirst(blocks')
    PROVE  tables' \in Tables /\ RowsMatchBlocks'
<1> DEFINE L     == Len(blocks)
           posts == Having(s, "post")
           pays  == Having(s, "pay")
           paid  == {i \in pays : Known(tables, s, i)}
           made  == tables.post.made
           made1 == tables'.post.made
<1>1. /\ L \in Nat /\ Len(s) \in Nat /\ tables \in Tables
      /\ made \in Nat /\ tables.payments \subseteq Nat
      /\ posts \subseteq 1..Len(s) /\ pays \subseteq 1..Len(s)
  BY Lengths, BlockSeq DEF TypeOK, Tables, Having
<1>2. ASSUME NEW n \in 1..Len(blocks') PROVE n \in 1..L \/ n - L \in 1..Len(s)
  BY <1>1
<1>3. ASSUME NEW n \in 1..L PROVE "post" \in blocks[n].body => made \in 1..n
  BY DEF RowsMatchBlocks
<1>4. made # 0 => made \in 1..L /\ "post" \in blocks[made].body
  BY <1>1 DEF RowsMatchBlocks
<1>5. ASSUME NEW i \in pays PROVE Known(tables, s, i)
  <2>1. i \in 1..Len(s) /\ "pay" \in s[i].body
    BY DEF Having
  <2>2. L + i \in 1..Len(blocks') /\ "pay" \in blocks'[L + i].body
    BY <2>1, <1>1
  <2>3. PICK m \in 1..(L + i) : "post" \in blocks'[m].body
    BY <2>2 DEF PostFirst
  <2>4. CASE m \in 1..L
    <3>1. made \in 1..m
      BY <2>3, <2>4, <1>3
    <3> QED BY <3>1 DEF Known
  <2>5. CASE m > L
    <3>1. m - L \in 1..Len(s) /\ m = L + (m - L) /\ m - L <= i
      BY <2>1, <2>5, <1>1
    <3>2. m - L \in posts
      BY <2>3, <3>1 DEF Having
    <3> QED BY <3>1, <3>2 DEF Known
  <2> QED BY <2>1, <2>4, <2>5, <1>1
<1>6. paid = pays
  BY <1>5
<1>7. /\ tables'.payments = tables.payments \cup {L + i : i \in paid}
      /\ made1 = IF made # 0 \/ posts = {} THEN made ELSE L + Min(posts)
      /\ tables'.post.promoted = tables.post.promoted + Cardinality(paid)
      /\ tables'.post.deleted \in {tables.post.deleted, TRUE, FALSE}
      /\ tables' = [post |-> [made     |-> tables'.post.made,
                              deleted  |-> tables'.post.deleted,
                              promoted |-> tables'.post.promoted],
                    payments |-> tables'.payments]
  BY DEF Push, RowsAfter, RowsFrom
<1>8. posts # {} => Min(posts) \in posts /\ \A i \in posts : Min(posts) <= i
  <2>1. posts \in SUBSET Nat
    BY <1>1
  <2> QED BY <2>1, MinIsLeast
<1> HIDE DEF paid, made1
<1>9. ASSUME NEW n \in 1..Len(blocks'), "post" \in blocks'[n].body
      PROVE  made1 \in 1..n
  <2>1. CASE n \in 1..L
    <3>1. made \in 1..n
      BY <2>1, <1>3, <1>9
    <3> QED BY <3>1, <1>1, <1>7
  <2>2. CASE n - L \in 1..Len(s)
    <3>1. n = L + (n - L)
      BY <1>1
    <3>2. n - L \in posts
      BY <2>2, <3>1, <1>9 DEF Having
    <3>3. CASE made # 0
      BY <2>2, <3>3, <1>1, <1>4, <1>7
    <3>4. CASE made = 0
      <4>1. made1 = L + Min(posts)
        BY <3>2, <3>4, <1>7
      <4>2. Min(posts) \in 1..Len(s) /\ Min(posts) <= n - L
        BY <3>2, <1>1, <1>8
      <4> QED BY <4>1, <4>2, <1>1
    <3> QED BY <3>3, <3>4
  <2> QED BY <2>1, <2>2, <1>2
<1>10. ASSUME made1 # 0
       PROVE  made1 \in 1..Len(blocks') /\ "post" \in blocks'[made1].body
  <2>1. CASE made # 0
    <3>1. made1 = made
      BY <2>1, <1>7
    <3> QED BY <2>1, <3>1, <1>1, <1>4
  <2>2. CASE made = 0
    <3>1. posts # {} /\ made1 = L + Min(posts)
      BY <2>2, <1>7, <1>10
    <3>2. Min(posts) \in 1..Len(s) /\ "post" \in s[Min(posts)].body
      BY <3>1, <1>8 DEF Having
    <3> QED BY <3>1, <3>2, <1>1
  <2> QED BY <2>1, <2>2
<1>11. tables'.payments = {n \in 1..Len(blocks') : "pay" \in blocks'[n].body}
  <2>1. tables.payments = {n \in 1..L : "pay" \in blocks[n].body}
    BY DEF RowsMatchBlocks
  <2>2. ASSUME NEW n \in tables'.payments
        PROVE  n \in 1..Len(blocks') /\ "pay" \in blocks'[n].body
    <3>1. CASE n \in tables.payments
      BY <2>1, <3>1, <1>1
    <3>2. CASE n \in {L + i : i \in pays}
      <4>1. PICK i \in pays : n = L + i
        BY <3>2
      <4>2. i \in 1..Len(s) /\ "pay" \in s[i].body
        BY DEF Having
      <4> QED BY <4>1, <4>2, <1>1
    <3> QED BY <3>1, <3>2, <1>6, <1>7
  <2>3. ASSUME NEW n \in 1..Len(blocks'), "pay" \in blocks'[n].body
        PROVE  n \in tables'.payments
    <3>1. CASE n \in 1..L
      BY <2>1, <2>3, <3>1, <1>7
    <3>2. CASE n - L \in 1..Len(s)
      <4>1. n = L + (n - L)
        BY <1>1
      <4>2. n - L \in pays
        BY <2>3, <3>2, <4>1 DEF Having
      <4> QED BY <4>1, <4>2, <1>6, <1>7
    <3> QED BY <3>1, <3>2, <1>2
  <2> QED BY <2>2, <2>3
<1>12. RowsMatchBlocks'
  <2>1. \A n \in 1..Len(blocks') : "post" \in blocks'[n].body => made1 \in 1..n
    BY <1>9
  <2>2. made1 # 0 => made1 <= Len(blocks') /\ "post" \in blocks'[made1].body
    BY <1>1, <1>10
  <2> QED BY <2>1, <2>2, <1>11 DEF RowsMatchBlocks, made1
<1>13. tables' \in Tables
  <2>1. made1 \in Nat
    BY <1>1, <1>10
  <2>2. Cardinality(paid) \in Nat
    <3>1. IsFiniteSet(1..Len(s)) /\ paid \in SUBSET (1..Len(s))
      BY <1>1, <1>6, FS_Interval
    <3>2. IsFiniteSet(paid)
      BY <3>1, FS_Subset
    <3> QED BY <3>2, FS_CardinalityType
  <2>3. tables.post.promoted \in Nat /\ tables.post.deleted \in BOOLEAN
    BY <1>1 DEF Tables
  <2>4. tables'.post.promoted \in Nat /\ tables'.post.deleted \in BOOLEAN
    <3>1. tables.post.promoted + Cardinality(paid) \in Nat
      BY <2>2, <2>3
    <3>2. tables'.post.deleted \in BOOLEAN
      BY <2>3, <1>7, Zenon
    <3> QED BY <3>1, <3>2, <1>7
  <2>5. tables'.payments \in SUBSET Nat
    BY <1>1, <1>11
  <2> QED BY <2>1, <2>4, <2>5, <1>7 DEF Tables, made1
<1> QED BY <1>12, <1>13

(* Writing blocks of the chain keeps the copy a copy, and the rows its rows. *)
LEMMA PushedInv ==
    ASSUME SyncInv, NEW s \in Seq(Block), Len(s) >= 1,
           Len(blocks) + Len(s) <= Len(chain),
           \A i \in 1..Len(s) : s[i] = chain[Len(blocks) + i],
           Push(s), UNCHANGED nodeVars
    PROVE  /\ blocks' \in Seq(Block) /\ tables' \in Tables
           /\ Len(blocks') = Len(blocks) + Len(s)
           /\ blocks'[1] = chain'[1] /\ Follower!Linked(blocks')
           /\ \A n \in 1..Len(blocks') : blocks'[n].tag <= forks'
           /\ MatchIsPrefix' /\ RowsMatchBlocks' /\ NodeInv'
<1>1. /\ Len(chain) \in Nat /\ Len(blocks) \in Nat /\ Len(blocks) >= 1 /\ Len(s) \in Nat
      /\ chain' = chain /\ forks' = forks
  BY Lengths, BlockSeq DEF SyncInv, TypeOK, CopyInv, nodeVars
<1>2. /\ blocks' \in Seq(Block)
      /\ Len(blocks') = Len(blocks) + Len(s)
      /\ \A n \in 1..Len(blocks') : blocks'[n] = chain[n]
      /\ \A n \in 1..Len(blocks) : blocks'[n] = blocks[n]
      /\ \A i \in 1..Len(s) : blocks'[Len(blocks) + i] = s[i]
  BY PushedIsChain
<1>3. NodeInv /\ \A n \in 1..Len(blocks') : n \in 1..Len(chain)
  BY <1>1, <1>2 DEF SyncInv
<1>4. Follower!Linked(blocks')
  <2> SUFFICES ASSUME NEW n \in 2..Len(blocks')
               PROVE  blocks'[n].prev = blocks'[n - 1].tag
    BY DEF Follower!Linked
  <2>1. n \in 2..Len(chain) /\ n \in 1..Len(blocks') /\ n - 1 \in 1..Len(blocks')
    BY <1>1, <1>2
  <2> QED BY <2>1, <1>2, <1>3 DEF NodeInv, Follower!Linked
<1>5. PostFirst(blocks')
  <2> SUFFICES ASSUME NEW n \in 1..Len(blocks'), "pay" \in blocks'[n].body
               PROVE  \E m \in 1..n : "post" \in blocks'[m].body
    BY DEF PostFirst
  <2>1. n \in 1..Len(chain) /\ "pay" \in chain[n].body
    BY <1>2, <1>3
  <2>2. PICK m \in 1..n : "post" \in chain[m].body
    BY <2>1, <1>3 DEF NodeInv, PostFirst
  <2>3. m \in 1..Len(blocks')
    BY <1>1, <1>2
  <2> QED BY <2>2, <2>3, <1>2
<1>6. tables' \in Tables /\ RowsMatchBlocks'
  BY <1>2, <1>5, PushedRows DEF SyncInv
<1>7. \A n \in 1..Len(blocks') : blocks'[n].tag <= forks'
  BY <1>1, <1>2, <1>3 DEF NodeInv
<1>8. MatchIsPrefix'
  <2>1. \A n \in 1..Len(blocks') : \A m \in 1..n : m \in 1..Len(blocks')
    BY <1>1, <1>2
  <2> QED BY <2>1, <1>1, <1>2 DEF MatchIsPrefix
<1>9. NodeInv'
  BY <1>1, <1>3 DEF NodeInv, Follower!Linked, PostFirst
<1>10. blocks'[1] = chain'[1]
  BY <1>1, <1>2
<1> QED BY <1>2, <1>4, <1>6, <1>7, <1>8, <1>9, <1>10

(* Popping takes the rows of the popped blocks, and only those. *)
LEMMA PoppedRows ==
    ASSUME SyncInv, PopFork
    PROVE  /\ blocks' \in Seq(Block) /\ Len(blocks') = cursor
           /\ \A n \in 1..cursor : blocks'[n] = blocks[n]
           /\ tables' \in Tables /\ RowsMatchBlocks'
<1> DEFINE made == tables.post.made
<1>1. /\ blocks \in Seq(Block) /\ Len(blocks) \in Nat /\ cursor \in 1..Len(blocks)
      /\ tables \in Tables /\ made \in Nat /\ tables.payments \subseteq Nat
  BY Lengths DEF SyncInv, TypeOK, VerifyInv, PopFork, Tables
<1>2. /\ blocks' \in Seq(Block) /\ Len(blocks') = cursor
      /\ \A n \in 1..cursor : blocks'[n] = blocks[n]
  BY <1>1, Prefix DEF PopFork, PopBlocks
<1>3. /\ tables'.payments = {n \in tables.payments : n <= cursor}
      /\ tables'.post = IF made > cursor THEN NoRow ELSE tables.post
      /\ tables' = [post |-> tables'.post, payments |-> tables'.payments]
  BY DEF PopFork, PopBlocks
<1>4. /\ tables.payments = {n \in 1..Len(blocks) : "pay" \in blocks[n].body}
      /\ \A n \in 1..Len(blocks) : "post" \in blocks[n].body => made \in 1..n
      /\ made # 0 => made <= Len(blocks) /\ "post" \in blocks[made].body
  BY DEF SyncInv, RowsMatchBlocks
<1>5. tables'.payments = {n \in 1..Len(blocks') : "pay" \in blocks'[n].body}
  BY <1>1, <1>2, <1>3, <1>4
<1>6. \A n \in 1..Len(blocks') : "post" \in blocks'[n].body => tables'.post.made \in 1..n
  <2> SUFFICES ASSUME NEW n \in 1..cursor, "post" \in blocks[n].body
               PROVE  tables'.post.made \in 1..n
    BY <1>2
  <2>1. made \in 1..n /\ ~(made > cursor)
    BY <1>1, <1>4
  <2> QED BY <2>1, <1>3
<1>7. tables'.post.made # 0 =>
        tables'.post.made <= Len(blocks') /\ "post" \in blocks'[tables'.post.made].body
  <2>1. CASE made > cursor
    BY <2>1, <1>3 DEF NoRow
  <2>2. CASE ~(made > cursor)
    <3>1. tables'.post.made = made /\ (made # 0 => made \in 1..cursor)
      BY <2>2, <1>1, <1>3
    <3>2. made # 0 => "post" \in blocks[made].body
      BY <1>4
    <3>3. made # 0 => blocks'[made] = blocks[made] /\ made <= Len(blocks')
      BY <3>1, <1>2
    <3> QED BY <3>1, <3>2, <3>3
  <2> QED BY <2>1, <2>2
<1>8. tables' \in Tables
  <2> DEFINE Rows == [made : Nat, deleted : BOOLEAN, promoted : Nat]
  <2>1. tables.post \in Rows
    BY <1>1 DEF Tables
  <2>2. NoRow \in Rows
    BY DEF NoRow
  <2>3. tables'.post \in Rows
    BY <2>1, <2>2, <1>3
  <2>4. tables'.payments \in SUBSET Nat
    BY <1>1, <1>3
  <2> HIDE DEF Rows
  <2>5. tables' \in [post : Rows, payments : SUBSET Nat]
    BY <2>3, <2>4, <1>3
  <2> QED BY <2>5 DEF Tables, Rows
<1>9. RowsMatchBlocks'
  BY <1>5, <1>6, <1>7 DEF RowsMatchBlocks
<1> QED BY <1>2, <1>8, <1>9

(* A step that leaves the chain and the database alone and holds no buffer. *)
LEMMA QuietStep ==
    ASSUME SyncInv, UNCHANGED <<nodeVars, dbVars>>, buf' = <<>>
    PROVE  NodeInv' /\ CopyInv' /\ QueueInv' /\ MatchIsPrefix' /\ RowsMatchBlocks'
<1> USE DEF nodeVars, dbVars
<1>1. Len(chain) \in Nat /\ Len(blocks) \in Nat /\ Len(buf) \in Nat /\ Len(buf') = 0
  BY Lengths, EmptySeq DEF SyncInv
<1>2. NodeInv'
  BY DEF SyncInv, NodeInv, Follower!Linked, PostFirst
<1>3. CopyInv'
  BY <1>1 DEF SyncInv, CopyInv, Follower!Linked
<1>4. QueueInv'
  BY <1>1 DEF QueueInv
<1>5. MatchIsPrefix' /\ RowsMatchBlocks'
  BY DEF SyncInv, MatchIsPrefix, RowsMatchBlocks
<1> QED BY <1>2, <1>3, <1>4, <1>5

(* The buffer is empty unless the stream runs. *)
LEMMA NoBuffer ==
    ASSUME SyncInv, pc # "live"
    PROVE  buf = <<>>
BY DEF SyncInv, QueueInv

(* Every exception is one of Faults. *)
LEMMA RaisedType == Raised \in Faults
<1>1. \A s : PushFault(s) \in Faults
  BY DEF PushFault, Faults
<1>2. StreamFault \in Faults
  BY <1>1 DEF StreamFault, Faults
<1> QED BY <1>1, <1>2 DEF Raised, Faults

(* The node's own steps. *)
LEMMA NodeStepInv == ASSUME SyncInv, NodeStep PROVE SyncInv'
<1>1. TypeOK /\ NodeInv /\ chain \in Seq(Block) /\ Len(chain) \in Nat /\ lib \in 1..Len(chain) /\ forks \in Nat
  BY Lengths DEF SyncInv, TypeOK
<1>2. ASSUME NEW k \in lib..Len(chain), Grown(k), NodeInv', forks' \in Nat, forks' >= forks,
             UNCHANGED <<lib, dbVars, memVars, fault, crashes>>
      PROVE  SyncInv'
  <2>1. CopyInv' /\ QueueInv' /\ VerifyInv' /\ FastInv' /\ MatchIsPrefix' /\ RowsMatchBlocks'
    BY <1>2, GrownKeeps
  <2>2. chain' \in Seq(Block) /\ lib' \in 1..Len(chain') /\ ubound' \in 0..Len(chain')
    BY <1>1, <1>2 DEF Grown, memVars, TypeOK
  <2>3. TypeOK'
    BY <1>1, <1>2, <2>2 DEF TypeOK, dbVars, memVars
  <2> QED BY <2>1, <2>3, <1>2 DEF SyncInv
<1>3. CASE Produce
  <2>1. Grown(Len(chain)) /\ NodeInv' /\ Len(chain) \in lib..Len(chain)
    BY <1>1, <1>3, ProduceGrows
  <2> QED BY <1>1, <1>2, <1>3, <2>1 DEF Produce
<1>4. CASE Fork
  <2>1. PICK k \in lib..Len(chain) : Grown(k)
    BY <1>1, <1>4, ForkGrows
  <2>2. NodeInv' /\ forks' = forks + 1
    BY <1>1, <1>4, ForkGrows
  <2> QED BY <1>1, <1>2, <1>4, <2>1, <2>2 DEF Fork
<1>5. CASE Finalize
  <2> USE <1>5 DEF Finalize, dbVars, memVars
  <2>1. lib' \in 1..Len(chain) /\ lib' = lib + 1
    BY <1>1
  <2>2. TypeOK'
    BY <1>1, <2>1 DEF TypeOK
  <2>3. NodeInv' /\ CopyInv' /\ QueueInv'
    BY DEF SyncInv, NodeInv, CopyInv, QueueInv, Follower!Linked, PostFirst
  <2>4. VerifyInv' /\ MatchIsPrefix' /\ RowsMatchBlocks'
    BY DEF SyncInv, VerifyInv, MatchIsPrefix, RowsMatchBlocks
  <2>5. FastInv'
    BY <1>1, <2>1 DEF SyncInv, FastInv, TypeOK
  <2> QED BY <2>2, <2>3, <2>4, <2>5 DEF SyncInv
<1> QED BY <1>3, <1>4, <1>5 DEF NodeStep

(* Startup: verify_head walks back over blocks that are not on the chain. *)
LEMMA StartupInv ==
    ASSUME SyncInv, Start \/ WalkBack \/ Agree
    PROVE  SyncInv'
<1>1. /\ UNCHANGED <<nodeVars, dbVars, ubound, buf, link, crashes>>
      /\ pc # "live" /\ pc' \in {"verify", "pop", "ready"} /\ fault' \in {fault, "none"}
  BY DEF Start, WalkBack, Agree
<1>2. NodeInv' /\ CopyInv' /\ QueueInv' /\ MatchIsPrefix' /\ RowsMatchBlocks'
  BY <1>1, NoBuffer, QuietStep
<1>3. /\ Len(blocks) \in Nat /\ Len(blocks) >= 1 /\ blocks[1] = chain[1]
      /\ cursor \in 0..Len(blocks) /\ blocks' = blocks /\ chain' = chain
  BY <1>1, Lengths DEF SyncInv, TypeOK, CopyInv, nodeVars, dbVars
<1>4. cursor' \in 0..Len(blocks) /\ VerifyInv'
  <2>1. CASE Start
    BY <2>1, <1>3 DEF Start, VerifyInv
  <2>2. CASE WalkBack
    <3>1. /\ cursor \in 1..Len(blocks) /\ blocks[cursor].tag # chain[cursor].tag
          /\ \A n \in (cursor + 1)..Len(blocks) : blocks[n].tag # chain[n].tag
          /\ cursor' = cursor - 1 /\ pc' = "verify"
      BY <2>2 DEF WalkBack, SyncInv, VerifyInv, Matches
    <3>2. cursor # 1
      BY <3>1, <1>3
    <3>3. cursor' \in 1..Len(blocks)
      BY <3>1, <3>2, <1>3
    <3>4. \A n \in (cursor' + 1)..Len(blocks) : n = cursor \/ n \in (cursor + 1)..Len(blocks)
      BY <3>1, <1>3
    <3> QED BY <3>1, <3>3, <3>4, <1>3 DEF VerifyInv
  <2>3. CASE Agree
    BY <2>3, <1>3 DEF Agree, SyncInv, VerifyInv
  <2> QED BY <2>1, <2>2, <2>3
<1>5. FastInv'
  BY <1>1 DEF FastInv
<1>6. TypeOK'
  BY <1>1, <1>4 DEF SyncInv, TypeOK, Phases, Faults, nodeVars, dbVars
<1> QED BY <1>2, <1>4, <1>5, <1>6 DEF SyncInv

(* Startup: what is popped was no longer on the chain. *)
LEMMA PopInv == ASSUME SyncInv, PopFork PROVE SyncInv'
<1>1. /\ Len(blocks) \in Nat /\ Len(chain) \in Nat /\ cursor \in 1..Len(blocks)
      /\ cursor < Len(blocks) /\ Len(blocks) <= Len(chain) /\ forks \in Nat
  BY Lengths DEF SyncInv, TypeOK, CopyInv, VerifyInv, PopFork
<1>2. /\ UNCHANGED <<nodeVars, cursor, ubound, buf, link, fault, crashes>>
      /\ pc = "pop" /\ pc' = "ready" /\ buf = <<>>
  BY NoBuffer DEF PopFork
<1>3. /\ blocks' \in Seq(Block) /\ Len(blocks') = cursor
      /\ \A n \in 1..cursor : blocks'[n] = blocks[n]
      /\ tables' \in Tables /\ RowsMatchBlocks'
  BY PoppedRows
<1>4. Len(buf) = 0 /\ buf' = buf /\ chain' = chain /\ forks' = forks
  BY <1>2, EmptySeq DEF nodeVars
<1>5. TypeOK'
  BY <1>1, <1>2, <1>3 DEF SyncInv, TypeOK, Phases, nodeVars
<1>6. NodeInv'
  BY <1>4 DEF SyncInv, NodeInv, Follower!Linked, PostFirst
<1>7. CopyInv'
  <2>1. Follower!Linked(blocks')
    BY <1>1, <1>3 DEF SyncInv, CopyInv, Follower!Linked
  <2>2. \A n \in 1..Len(blocks') : blocks'[n].tag <= forks'
    BY <1>1, <1>3, <1>4 DEF SyncInv, CopyInv
  <2>3. blocks'[1] = chain'[1] /\ Len(blocks') >= 1
    BY <1>1, <1>3, <1>4 DEF SyncInv, CopyInv
  <2> QED BY <2>1, <2>2, <2>3, <1>1, <1>3, <1>4 DEF CopyInv
<1>8. QueueInv' /\ VerifyInv' /\ FastInv'
  BY <1>2, <1>4 DEF QueueInv, VerifyInv, FastInv
<1>9. MatchIsPrefix'
  BY <1>1, <1>3, <1>4 DEF SyncInv, MatchIsPrefix
<1> QED BY <1>3, <1>5, <1>6, <1>7, <1>8, <1>9 DEF SyncInv

(* Sync.run: a phase is entered, the stream starts, idles or ends. *)
LEMMA PhaseInv ==
    ASSUME SyncInv, EnterFast \/ Listen \/ Wait \/ EndStream
    PROVE  SyncInv'
<1>1. /\ Len(blocks) \in Nat /\ Len(chain) \in Nat /\ lib \in 1..Len(chain)
      /\ chain \in Seq(Block) /\ Len(blocks) >= 1 /\ Len(blocks) <= Len(chain)
  BY Lengths DEF SyncInv, TypeOK, CopyInv
<1>2. CASE Wait
  <2>1. UNCHANGED vars
    BY <1>2 DEF Wait
  <2> QED BY <2>1 DEF SyncInv, TypeOK, NodeInv, CopyInv, QueueInv, VerifyInv, FastInv,
                      MatchIsPrefix, RowsMatchBlocks, PostFirst, Follower!Linked,
                      vars, nodeVars, dbVars, memVars
<1>3. CASE EnterFast
  <2>1. UNCHANGED <<nodeVars, dbVars, buf>> /\ buf' = <<>> /\ pc' \in {"fast", "listen"}
    BY <1>3, NoBuffer DEF EnterFast
  <2>2. NodeInv' /\ CopyInv' /\ QueueInv' /\ MatchIsPrefix' /\ RowsMatchBlocks'
    BY <2>1, QuietStep
  <2>3. VerifyInv'
    BY <2>1 DEF VerifyInv
  <2>4. FastInv'
    BY <1>1, <1>3 DEF EnterFast, FastInv, nodeVars, dbVars
  <2>5. TypeOK'
    BY <1>1, <1>3, <2>1 DEF EnterFast, SyncInv, TypeOK, Phases, nodeVars, dbVars
  <2> QED BY <2>2, <2>3, <2>4, <2>5 DEF SyncInv
<1>4. CASE Listen
  <2>1. UNCHANGED <<nodeVars, dbVars>> /\ buf' = <<>> /\ pc' = "live"
    BY <1>4 DEF Listen
  <2>2. NodeInv' /\ CopyInv' /\ QueueInv' /\ MatchIsPrefix' /\ RowsMatchBlocks'
    BY <2>1, QuietStep
  <2>3. chain[Len(blocks)].tag \in Nat
    BY <1>1, BlockSeq
  <2>4. TypeOK'
    BY <1>4, <2>1, <2>3 DEF Listen, SyncInv, TypeOK, Phases, nodeVars, dbVars
  <2>5. VerifyInv' /\ FastInv'
    BY <2>1 DEF VerifyInv, FastInv
  <2> QED BY <2>2, <2>4, <2>5 DEF SyncInv
<1>5. CASE EndStream
  <2>1. UNCHANGED <<nodeVars, dbVars>> /\ buf' = <<>> /\ pc' = "ready"
    BY <1>5 DEF EndStream
  <2>2. NodeInv' /\ CopyInv' /\ QueueInv' /\ MatchIsPrefix' /\ RowsMatchBlocks'
    BY <2>1, QuietStep
  <2>3. TypeOK'
    BY <1>5, <2>1 DEF EndStream, SyncInv, TypeOK, Phases, nodeVars, dbVars
  <2>4. VerifyInv' /\ FastInv'
    BY <2>1 DEF VerifyInv, FastInv
  <2> QED BY <2>2, <2>3, <2>4 DEF SyncInv
<1> QED BY <1>2, <1>3, <1>4, <1>5

(* A crash, or an exception that ends the process. *)
LEMMA DieInv == ASSUME SyncInv, Crash \/ Raise PROVE SyncInv'
<1>1. Die /\ fault' \in Faults /\ crashes' \in Nat
  <2>1. CASE Crash
    BY <2>1 DEF Crash, SyncInv, TypeOK
  <2>2. CASE Raise
    BY <2>2, RaisedType DEF Raise, SyncInv, TypeOK
  <2> QED BY <2>1, <2>2
<1>2. UNCHANGED <<nodeVars, dbVars>> /\ buf' = <<>> /\ pc' = "down"
  BY <1>1 DEF Die
<1>3. NodeInv' /\ CopyInv' /\ QueueInv' /\ MatchIsPrefix' /\ RowsMatchBlocks'
  BY <1>2, QuietStep
<1>4. VerifyInv' /\ FastInv'
  BY <1>2 DEF VerifyInv, FastInv
<1>5. cursor' \in 0..Len(blocks') /\ ubound' \in 0..Len(chain') /\ Len(blocks) \in Nat /\ Len(chain) \in Nat
  BY <1>1, <1>2, Lengths DEF Die, SyncInv, nodeVars, dbVars
<1>6. TypeOK'
  BY <1>1, <1>2, <1>5 DEF Die, SyncInv, TypeOK, Phases, nodeVars, dbVars
<1> QED BY <1>3, <1>4, <1>6 DEF SyncInv

(* The blocks that fast sync reads next are there, and irreversible. *)
LEMMA ChunkIsChain ==
    ASSUME SyncInv, pc = "fast"
    PROVE  /\ NextChunk \in Seq(Block)
           /\ Len(NextChunk) >= 1
           /\ Len(blocks) + Len(NextChunk) <= Len(chain)
           /\ Len(blocks) + Len(NextChunk) < lib
           /\ \A i \in 1..Len(NextChunk) : NextChunk[i] = chain[Len(blocks) + i]
<1> DEFINE L  == Len(blocks)
           to == IF L + 1 + Chunk < ubound THEN L + 1 + Chunk ELSE ubound
<1>1. /\ L \in Nat /\ Len(chain) \in Nat /\ lib \in 1..Len(chain) /\ chain \in Seq(Block)
      /\ ubound \in Nat /\ L + 1 < ubound /\ ubound <= lib /\ Chunk \in Nat \ {0}
  BY Lengths, SyncAssumption DEF SyncInv, TypeOK, FastInv
<1>2. to \in Int /\ L + 1 < to /\ to <= lib
  BY <1>1
<1> HIDE DEF to
<1>3. NextChunk = SubSeq(chain, L + 1, to - 1)
  BY DEF NextChunk, to
<1>4. \A n \in (L + 1)..(to - 1) : chain[n] \in Block
  BY <1>1, <1>2, BlockSeq
<1>5. /\ NextChunk \in Seq(Block)
      /\ Len(NextChunk) = (to - 1) - (L + 1) + 1
      /\ \A i \in 1..((to - 1) - (L + 1) + 1) : NextChunk[i] = chain[(L + 1) + i - 1]
  BY <1>1, <1>2, <1>3, <1>4, SubSeqProperties
<1>6. Len(NextChunk) = to - 1 - L
  BY <1>1, <1>2, <1>5
<1>7. \A i \in 1..Len(NextChunk) : NextChunk[i] = chain[L + i]
  <2> SUFFICES ASSUME NEW i \in 1..Len(NextChunk)
               PROVE  NextChunk[i] = chain[L + i]
    OBVIOUS
  <2>1. i \in 1..((to - 1) - (L + 1) + 1) /\ (L + 1) + i - 1 = L + i
    BY <1>1, <1>2, <1>5
  <2> QED BY <2>1, <1>5
<1> QED BY <1>1, <1>2, <1>5, <1>6, <1>7

(* Fast sync writes a chunk. *)
LEMMA ChunkInv == ASSUME SyncInv, FastChunk PROVE SyncInv'
<1>1. /\ pc = "fast" /\ Push(NextChunk) /\ pc' \in {"fast", "listen"}
      /\ UNCHANGED <<nodeVars, cursor, ubound, buf, link, fault, crashes>>
      /\ buf = <<>> /\ Len(buf) = 0
  BY NoBuffer, EmptySeq DEF FastChunk
<1>2. /\ Len(blocks) \in Nat /\ Len(chain) \in Nat /\ lib \in 1..Len(chain)
      /\ Len(NextChunk) \in Nat /\ chain' = chain /\ buf' = buf /\ ubound' = ubound /\ lib' = lib
  BY <1>1, Lengths, ChunkIsChain, BlockSeq DEF SyncInv, TypeOK, nodeVars
<1>3. /\ blocks' \in Seq(Block) /\ tables' \in Tables
      /\ Len(blocks') = Len(blocks) + Len(NextChunk)
      /\ blocks'[1] = chain'[1] /\ Follower!Linked(blocks')
      /\ \A n \in 1..Len(blocks') : blocks'[n].tag <= forks'
      /\ MatchIsPrefix' /\ RowsMatchBlocks' /\ NodeInv'
  BY <1>1, ChunkIsChain, PushedInv
<1>4. Len(blocks') <= Len(chain) /\ Len(blocks') >= 1
  BY <1>2, <1>3, ChunkIsChain, <1>1
<1>5. CopyInv'
  BY <1>1, <1>2, <1>3, <1>4 DEF CopyInv
<1>6. QueueInv' /\ VerifyInv'
  BY <1>1, <1>2 DEF QueueInv, VerifyInv
<1>7. FastInv'
  BY <1>1, <1>2 DEF FastChunk, SyncInv, FastInv
<1>8. TypeOK'
  <2>1. cursor \in 0..Len(blocks')
    BY <1>2, <1>3 DEF SyncInv, TypeOK
  <2> QED BY <1>1, <1>3, <2>1 DEF SyncInv, TypeOK, Phases, nodeVars
<1> QED BY <1>3, <1>5, <1>6, <1>7, <1>8 DEF SyncInv

(* What the stream yields is the first block of a full buffer. *)
LEMMA YieldedBlock ==
    ASSUME SyncInv, Fetching, Linking
    PROVE  LET s == <<Head(Fetched)>> IN
           /\ s \in Seq(Block) /\ Len(s) = 1
           /\ Len(blocks) + Len(s) <= Len(chain)
           /\ \A i \in 1..Len(s) : s[i] = chain[Len(blocks) + i]
<1> DEFINE s == <<Head(Fetched)>>
<1>1. /\ Fetched \in Seq(Block) /\ Len(Fetched) = Len(buf) + 1
      /\ Len(blocks) + Len(Fetched) <= Len(chain)
      /\ \A i \in 1..Len(Fetched) : Fetched[i] = chain[Len(blocks) + i]
      /\ Len(buf) \in Nat /\ Len(blocks) \in Nat /\ Len(chain) \in Nat
  BY FetchedIsChain, Lengths DEF SyncInv
<1>2. Head(Fetched) = Fetched[1] /\ Fetched[1] \in Block
  BY <1>1, BlockSeq
<1>3. s \in Seq(Block) /\ Len(s) = 1 /\ s[1] = Fetched[1]
  BY <1>2
<1>4. s[1] = chain[Len(blocks) + 1]
  BY <1>1, <1>3
<1> QED BY <1>1, <1>3, <1>4

(* The stream fetches a block, and yields one when its buffer is full. *)
LEMMA FetchInv == ASSUME SyncInv, FetchBlock PROVE SyncInv'
<1>1. /\ Fetching /\ Linking /\ pc = "live" /\ link' = chain[Curr].tag
      /\ UNCHANGED <<nodeVars, pc, cursor, ubound, fault, crashes>>
  BY DEF FetchBlock, Fetching
<1>2. /\ Fetched \in Seq(Block) /\ Len(Fetched) = Len(buf) + 1
      /\ Len(blocks) + Len(Fetched) <= Len(chain)
      /\ Fetched[Len(Fetched)] = chain[Curr]
      /\ \A i \in 1..Len(Fetched) : Fetched[i] = chain[Len(blocks) + i]
  BY <1>1, FetchedIsChain
<1>3. /\ Len(buf) \in Nat /\ Len(blocks) \in Nat /\ Len(chain) \in Nat /\ Len(blocks) >= 1
      /\ chain' = chain /\ forks' = forks /\ chain \in Seq(Block)
  BY <1>1, Lengths DEF SyncInv, TypeOK, CopyInv, nodeVars
<1>4. /\ link' \in Nat
      /\ \A i \in 1..Len(Fetched) : Fetched[i].tag <= forks
  <2>1. Curr \in 1..Len(chain)
    BY <1>2, <1>3 DEF Curr
  <2>2. link' \in Nat
    BY <1>1, <1>3, <2>1, BlockSeq
  <2>3. \A i \in 1..Len(Fetched) : Len(blocks) + i \in 1..Len(chain)
    BY <1>2, <1>3
  <2> QED BY <2>2, <2>3, <1>2 DEF SyncInv, NodeInv
<1>5. VerifyInv' /\ FastInv'
  BY <1>1 DEF VerifyInv, FastInv
<1>6. CASE ~Full
  <2>1. buf' = Fetched /\ UNCHANGED dbVars /\ blocks' = blocks
    BY <1>6 DEF FetchBlock, dbVars
  <2>2. TypeOK'
    BY <1>1, <1>2, <1>4, <2>1 DEF SyncInv, TypeOK, Phases, nodeVars, dbVars
  <2>3. NodeInv' /\ MatchIsPrefix' /\ RowsMatchBlocks'
    BY <1>3, <2>1 DEF SyncInv, NodeInv, MatchIsPrefix, RowsMatchBlocks, PostFirst, Follower!Linked, dbVars
  <2>4. CopyInv'
    BY <1>2, <1>3, <1>4, <2>1 DEF SyncInv, CopyInv, Follower!Linked
  <2>5. QueueInv'
    <3>1. \A i \in 1..Len(Fetched) : \A j \in 1..i : j \in 1..Len(Fetched)
      BY <1>2, <1>3
    <3> QED BY <1>1, <1>2, <1>3, <2>1, <3>1 DEF QueueInv
  <2> QED BY <1>5, <2>2, <2>3, <2>4, <2>5 DEF SyncInv
<1>7. CASE Full
  <2> DEFINE s == <<Head(Fetched)>>
  <2>1. Push(s) /\ buf' = Tail(Fetched)
    BY <1>7 DEF FetchBlock
  <2>2. /\ s \in Seq(Block) /\ Len(s) = 1
        /\ Len(blocks) + Len(s) <= Len(chain)
        /\ \A i \in 1..Len(s) : s[i] = chain[Len(blocks) + i]
    BY <1>1, YieldedBlock
  <2> HIDE DEF s
  <2>3. /\ blocks' \in Seq(Block) /\ tables' \in Tables
        /\ Len(blocks') = Len(blocks) + 1
        /\ blocks'[1] = chain'[1] /\ Follower!Linked(blocks')
        /\ \A n \in 1..Len(blocks') : blocks'[n].tag <= forks'
        /\ MatchIsPrefix' /\ RowsMatchBlocks' /\ NodeInv'
    <3>1. Len(s) >= 1 /\ Push(s) /\ UNCHANGED nodeVars
      BY <1>1, <2>1, <2>2
    <3>2. Len(blocks') = Len(blocks) + Len(s)
      BY <2>2, <3>1, PushedInv
    <3>3. Len(blocks') = Len(blocks) + 1
      BY <2>2, <3>2
    <3> QED BY <2>2, <3>1, <3>3, PushedInv
  <2>4. Fetched # <<>>
    BY <1>2, <1>3, EmptySeq
  <2>5. /\ buf' \in Seq(Block) /\ Len(buf') = Len(buf)
        /\ \A i \in 1..Len(buf) : buf'[i] = Fetched[i + 1]
    BY <1>2, <1>3, <2>1, <2>4, HeadTailProperties
  <2>6. \A i \in 1..Len(buf) :
          /\ i + 1 \in 1..Len(Fetched)
          /\ Len(blocks) + (i + 1) = Len(blocks') + i
    BY <1>2, <1>3, <2>3
  <2>7. \A i \in 1..Len(buf') : buf'[i] = chain'[Len(blocks') + i] /\ buf'[i].tag <= forks'
    BY <1>2, <1>3, <1>4, <2>5, <2>6
  <2>8. TypeOK'
    <3>1. cursor \in 0..Len(blocks')
      BY <1>3, <2>3 DEF SyncInv, TypeOK
    <3> QED BY <1>1, <1>4, <2>3, <2>5, <3>1 DEF SyncInv, TypeOK, Phases, nodeVars
  <2>9. CopyInv'
    <3>1. Len(blocks') + Len(buf') <= Len(chain') /\ Len(blocks') >= 1
      BY <1>2, <1>3, <2>3, <2>5
    <3> QED BY <2>3, <2>7, <3>1 DEF CopyInv
  <2>10. QueueInv'
    <3>1. buf' # <<>> => pc' = "live" /\ link' = buf'[Len(buf')].tag
      <4> SUFFICES ASSUME buf' # <<>>
                   PROVE  link' = buf'[Len(buf')].tag
        BY <1>1
      <4>1. Len(buf) \in 1..Len(buf)
        BY <1>3, <2>5, EmptySeq
      <4>2. buf'[Len(buf')] = Fetched[Len(Fetched)]
        BY <4>1, <1>2, <2>5
      <4> QED BY <4>2, <1>1, <1>2
    <3>2. \A i \in 1..Len(buf') : \A j \in 1..i : j \in 1..Len(buf')
      BY <1>3, <2>5
    <3> QED BY <2>7, <3>1, <3>2 DEF QueueInv
  <2> QED BY <1>5, <2>3, <2>8, <2>9, <2>10 DEF SyncInv
<1> QED BY <1>6, <1>7

-----------------------------------------------------------------------------
(* The invariant holds initially. *)
LEMMA InitInv == Init => SyncInv
<1> SUFFICES ASSUME Init PROVE SyncInv
  OBVIOUS
<1>1. Genesis \in Block
  BY SyncAssumption DEF Genesis, Block
<1>2. /\ chain = <<Genesis>> /\ blocks = <<Genesis>> /\ buf = <<>> /\ pc = "down"
      /\ forks = 0 /\ tables = NoTables /\ Len(chain) = 1 /\ Len(blocks) = 1 /\ Len(buf) = 0
      /\ chain[1] = Genesis /\ blocks[1] = Genesis
  BY DEF Init
<1>3. TypeOK
  <2>1. chain \in Seq(Block) /\ blocks \in Seq(Block) /\ buf \in Seq(Block)
    BY <1>1, <1>2
  <2>2. tables \in Tables
    BY <1>2 DEF NoTables, NoRow, Tables
  <2> QED BY <1>2, <2>1, <2>2 DEF Init, TypeOK, Phases, Faults
<1>4. Follower!Linked(chain) /\ Follower!Linked(blocks)
  BY <1>2 DEF Follower!Linked
<1>5. NodeInv /\ CopyInv
  BY <1>2, <1>4 DEF NodeInv, CopyInv, PostFirst, Genesis
<1>6. QueueInv /\ VerifyInv /\ FastInv
  BY <1>2 DEF QueueInv, VerifyInv, FastInv
<1>7. MatchIsPrefix
  BY <1>2 DEF MatchIsPrefix
<1>8. RowsMatchBlocks
  BY <1>2 DEF RowsMatchBlocks, NoTables, NoRow, Genesis
<1> QED BY <1>3, <1>5, <1>6, <1>7, <1>8 DEF SyncInv

(* Every step keeps the invariant. *)
LEMMA NextInv == SyncInv /\ [Next]_vars => SyncInv'
<1> SUFFICES ASSUME SyncInv, [Next]_vars PROVE SyncInv'
  OBVIOUS
<1>1. CASE UNCHANGED vars
  BY <1>1 DEF SyncInv, TypeOK, NodeInv, CopyInv, QueueInv, VerifyInv, FastInv,
              MatchIsPrefix, RowsMatchBlocks, PostFirst, Follower!Linked,
              vars, nodeVars, dbVars, memVars
<1>2. CASE NodeStep
  BY <1>2, NodeStepInv
<1>3. CASE Start \/ WalkBack \/ Agree
  BY <1>3, StartupInv
<1>4. CASE PopFork
  BY <1>4, PopInv
<1>5. CASE EnterFast \/ Listen \/ Wait \/ EndStream
  BY <1>5, PhaseInv
<1>6. CASE FastChunk
  BY <1>6, ChunkInv
<1>7. CASE FetchBlock
  BY <1>7, FetchInv
<1>8. CASE Crash \/ Raise
  BY <1>8, DieInv
<1> QED BY <1>1, <1>2, <1>3, <1>4, <1>5, <1>6, <1>7, <1>8 DEF Next, IndexerStep

(* The invariant of the block indexer, behind every theorem below. *)
THEOREM SyncInvariant == Spec => []SyncInv
BY InitInv, NextInv, PTL DEF Spec

(* Every variable keeps its type, the length of the chain and the cursor of
   verify_head included. *)
THEOREM TypeCorrect == Spec => []TypeOK
<1>1. SyncInv => TypeOK
  BY DEF SyncInv
<1> QED BY <1>1, SyncInvariant, PTL

(* verify_head may stop at the first block the node has too: whatever forks and
   crashes there were, all blocks below it are the node's. *)
THEOREM MatchIsPrefixAlways == Spec => []MatchIsPrefix
<1>1. SyncInv => MatchIsPrefix
  BY DEF SyncInv
<1> QED BY <1>1, SyncInvariant, PTL

(* The rows of posts and payments are those of the blocks indexed: _push and
   _pop miss none and leave none. *)
THEOREM RowsMatchBlocksAlways == Spec => []RowsMatchBlocks
<1>1. SyncInv => RowsMatchBlocks
  BY DEF SyncInv
<1> QED BY <1>1, SyncInvariant, PTL

-----------------------------------------------------------------------------
(* The initial state is one of a chain follower. *)
LEMMA FollowerInit == Init => Follower!Init
<1> SUFFICES ASSUME Init PROVE Follower!Init
  OBVIOUS
<1>1. SyncInv
  BY InitInv
<1>2. chain \in Seq(Block) /\ Follower!Linked(chain) /\ lib \in 1..Len(chain)
  BY <1>1 DEF SyncInv, TypeOK, NodeInv
<1>3. blocks = SubSeq(chain, 1, lib)
  BY DEF Init
<1> QED BY <1>2, <1>3 DEF Follower!Init

(* The node moves as a chain follower expects of it. *)
LEMMA FollowerMove == ASSUME SyncInv, NodeStep PROVE Follower!Move
<1>1. SyncInv'
  BY NodeStepInv
<1>2. /\ chain' \in Seq(Block) /\ Follower!Linked(chain') /\ lib' \in 1..Len(chain')
      /\ lib \in 1..Len(chain) /\ Len(chain) \in Nat /\ Len(chain') \in Nat
      /\ TypeOK /\ NodeInv
  BY <1>1, Lengths, BlockSeq DEF SyncInv, TypeOK, NodeInv, Follower!Linked
<1>3. blocks' = blocks /\ (lib' = lib \/ lib' = lib + 1)
  BY DEF NodeStep, Produce, Fork, Finalize, dbVars
<1>4. \A n \in 1..lib : chain'[n] = chain[n]
  <2>1. CASE Produce
    BY <2>1, <1>2, ProduceGrows DEF Grown
  <2>2. CASE Fork
    <3>1. PICK k \in lib..Len(chain) : Grown(k)
      BY <2>2, <1>2, ForkGrows
    <3>2. \A n \in 1..lib : n \in 1..k
      BY <1>2
    <3> QED BY <3>1, <3>2 DEF Grown
  <2>3. CASE Finalize
    BY <2>3 DEF Finalize
  <2> QED BY <2>1, <2>2, <2>3 DEF NodeStep
<1> QED BY <1>2, <1>3, <1>4 DEF Follower!Move

(* Blocks that Push writes extend the copy. *)
LEMMA FollowerExtend ==
    ASSUME SyncInv, FastChunk \/ (FetchBlock /\ Full)
    PROVE  Follower!Extend
<1>1. UNCHANGED nodeVars
  BY DEF FastChunk, FetchBlock
<1>2. PICK s \in Seq(Block) :
        /\ Len(s) >= 1 /\ Len(blocks) + Len(s) <= Len(chain) /\ Push(s)
        /\ \A i \in 1..Len(s) : s[i] = chain[Len(blocks) + i]
  <2>1. CASE FastChunk
    BY <2>1, ChunkIsChain DEF FastChunk
  <2>2. CASE FetchBlock /\ Full
    <3> DEFINE s == <<Head(Fetched)>>
    <3>1. Push(s) /\ Fetching /\ Linking
      BY <2>2 DEF FetchBlock
    <3>2. /\ s \in Seq(Block) /\ Len(s) = 1 /\ Len(blocks) + Len(s) <= Len(chain)
          /\ \A i \in 1..Len(s) : s[i] = chain[Len(blocks) + i]
      BY <3>1, YieldedBlock
    <3> HIDE DEF s
    <3>3. Len(s) >= 1
      BY <3>2
    <3> QED BY <3>1, <3>2, <3>3
  <2> QED BY <2>1, <2>2
<1>3. /\ blocks' \in Seq(Block) /\ Follower!Linked(blocks')
      /\ Len(blocks') = Len(blocks) + Len(s)
      /\ \A n \in 1..Len(blocks) : blocks'[n] = blocks[n]
  BY <1>1, <1>2, PushedInv, PushedIsChain
<1>4. Len(blocks) \in Nat /\ Len(s) \in Nat
  BY <1>2, Lengths, BlockSeq DEF SyncInv
<1>5. Len(blocks') > Len(blocks)
  BY <1>2, <1>3, <1>4
<1> QED BY <1>1, <1>3, <1>5 DEF Follower!Extend, nodeVars

(* What verify_head pops is cut off. *)
LEMMA FollowerCut == ASSUME SyncInv, PopFork PROVE Follower!Cut
<1>1. /\ cursor \in 1..Len(blocks) /\ cursor < Len(blocks) /\ Len(blocks) \in Nat
      /\ \A n \in (cursor + 1)..Len(blocks) : blocks[n].tag # chain[n].tag
  BY Lengths DEF SyncInv, VerifyInv, PopFork
<1>2. blocks' = SubSeq(blocks, 1, cursor) /\ UNCHANGED <<chain, lib>>
  BY DEF PopFork, PopBlocks, nodeVars
<1>3. cursor \in 1..(Len(blocks) - 1)
  BY <1>1
<1>4. \A n \in (cursor + 1)..Len(blocks) : blocks[n] # chain[n]
  BY <1>1
<1> QED BY <1>2, <1>3, <1>4 DEF Follower!Cut

(* Every step of the indexer is a step of a chain follower, or none. *)
LEMMA FollowerNext ==
    SyncInv /\ [Next]_vars => [Follower!Next]_<<chain, lib, blocks>>
<1> SUFFICES ASSUME SyncInv, [Next]_vars
             PROVE  Follower!Next \/ UNCHANGED <<chain, lib, blocks>>
  OBVIOUS
<1>1. CASE NodeStep
  BY <1>1, FollowerMove DEF Follower!Next
<1>2. CASE FastChunk \/ (FetchBlock /\ Full)
  BY <1>2, FollowerExtend DEF Follower!Next
<1>3. CASE PopFork
  BY <1>3, FollowerCut DEF Follower!Next
<1>4. CASE FetchBlock /\ ~Full
  BY <1>4 DEF FetchBlock, nodeVars, dbVars
<1>5. CASE Start \/ WalkBack \/ Agree \/ EnterFast \/ Listen \/ Wait \/ EndStream
  BY <1>5 DEF Start, WalkBack, Agree, EnterFast, Listen, Wait, EndStream, vars, nodeVars, dbVars
<1>6. CASE Crash \/ Raise
  BY <1>6 DEF Crash, Raise, Die, nodeVars, dbVars
<1>7. CASE UNCHANGED vars
  BY <1>7 DEF vars, nodeVars, dbVars
<1> QED BY <1>1, <1>2, <1>3, <1>4, <1>5, <1>6, <1>7 DEF Next, IndexerStep

(* The block indexer implements the chain follower: for any node whose
   irreversible blocks stay, its copy is always hash-linked, only extended or
   cut back, and never loses a block that is on the chain. *)
THEOREM ImplementsFollower == Spec => IsChainFollower
BY FollowerInit, FollowerNext, SyncInvariant, PTL DEF Spec, IsChainFollower, Follower!Spec

-----------------------------------------------------------------------------
(* The blocks of s \o t with an operation: those of s, and those of t. *)
LEMMA JoinHaving ==
    ASSUME NEW s \in Seq(Block), NEW t \in Seq(Block), NEW op
    PROVE  /\ Len(s) \in Nat /\ Len(t) \in Nat
           /\ Having(s, op) \subseteq 1..Len(s) /\ Having(t, op) \subseteq 1..Len(t)
           /\ \A i \in Having(s, op) : i \in Having(s \o t, op)
           /\ \A i \in Having(t, op) : Len(s) + i \in Having(s \o t, op)
           /\ \A n \in Having(s \o t, op) :
                 n \in Having(s, op) \/ \E i \in Having(t, op) : n = Len(s) + i
<1>1. Len(s) \in Nat /\ Len(t) \in Nat
  BY BlockSeq
<1>2. /\ Len(s \o t) = Len(s) + Len(t)
      /\ \A n \in 1..(Len(s) + Len(t)) : (s \o t)[n] = IF n <= Len(s) THEN s[n] ELSE t[n - Len(s)]
  BY ConcatProperties
<1>3. ASSUME NEW i \in Having(s, op) PROVE i \in Having(s \o t, op)
  BY <1>1, <1>2 DEF Having
<1>4. ASSUME NEW i \in Having(t, op) PROVE Len(s) + i \in Having(s \o t, op)
  <2>1. i \in 1..Len(t) /\ op \in t[i].body
    BY DEF Having
  <2>2. /\ Len(s) + i \in 1..(Len(s) + Len(t)) /\ ~(Len(s) + i <= Len(s))
        /\ (Len(s) + i) - Len(s) = i
    BY <1>1, <2>1
  <2> QED BY <1>2, <2>1, <2>2 DEF Having
<1>5. ASSUME NEW n \in Having(s \o t, op)
      PROVE  n \in Having(s, op) \/ \E i \in Having(t, op) : n = Len(s) + i
  <2>1. n \in 1..(Len(s) + Len(t)) /\ op \in (s \o t)[n].body
    BY <1>2 DEF Having
  <2>2. CASE n <= Len(s)
    BY <1>1, <1>2, <2>1, <2>2 DEF Having
  <2>3. CASE ~(n <= Len(s))
    <3>1. n - Len(s) \in 1..Len(t) /\ n = Len(s) + (n - Len(s))
      BY <1>1, <2>1, <2>3
    <3>2. n - Len(s) \in Having(t, op)
      BY <1>2, <2>1, <2>3, <3>1 DEF Having
    <3> QED BY <3>1, <3>2
  <2> QED BY <2>2, <2>3
<1>6. Having(s, op) \subseteq 1..Len(s) /\ Having(t, op) \subseteq 1..Len(t)
  BY DEF Having
<1> QED BY <1>1, <1>3, <1>4, <1>5, <1>6

(* The block that made the post, looked for in two parts. *)
LEMMA JoinMade ==
    ASSUME NEW s \in Seq(Block), NEW t \in Seq(Block)
    PROVE  LET T == RowsFrom(NoTables, 0, s) IN
           RowsFrom(T, Len(s), t).post.made = RowsFrom(NoTables, 0, s \o t).post.made
<1> DEFINE L  == Len(s)
           Ps == Having(s, "post")
           Pt == Having(t, "post")
           P  == Having(s \o t, "post")
           T  == RowsFrom(NoTables, 0, s)
<1>1. /\ L \in Nat /\ Len(t) \in Nat /\ Ps \subseteq 1..L /\ Pt \subseteq 1..Len(t)
      /\ \A i \in Ps : i \in P
      /\ \A i \in Pt : L + i \in P
      /\ \A n \in P : n \in Ps \/ \E i \in Pt : n = L + i
  BY JoinHaving
<1>2. /\ T.post.made = IF Ps = {} THEN 0 ELSE 0 + Min(Ps)
      /\ RowsFrom(T, L, t).post.made =
            IF T.post.made # 0 \/ Pt = {} THEN T.post.made ELSE L + Min(Pt)
      /\ RowsFrom(NoTables, 0, s \o t).post.made = IF P = {} THEN 0 ELSE 0 + Min(P)
  BY DEF RowsFrom, NoTables, NoRow
<1> HIDE DEF Ps, Pt, P, L, T
<1>3. Ps \in SUBSET Nat /\ Pt \in SUBSET Nat /\ P \in SUBSET Nat
  <2>1. ASSUME NEW n \in P PROVE n \in Nat
    <3>1. CASE n \in Ps
      BY <1>1, <3>1
    <3>2. CASE \E i \in Pt : n = L + i
      BY <1>1, <3>2
    <3> QED BY <1>1, <3>1, <3>2
  <2> QED BY <1>1, <2>1
<1>4. /\ Ps # {} => Min(Ps) \in Ps /\ \A y \in Ps : Min(Ps) <= y
      /\ Pt # {} => Min(Pt) \in Pt /\ \A y \in Pt : Min(Pt) <= y
      /\ P # {} => Min(P) \in P /\ \A y \in P : Min(P) <= y
  BY <1>3, MinIsLeast
<1>5. CASE Ps # {}
  <2>1. Min(Ps) \in P /\ P # {} /\ Min(Ps) \in 1..L
    BY <1>1, <1>4, <1>5
  <2>2. Min(P) <= Min(Ps) /\ Min(P) \in P /\ Min(P) \in Nat
    BY <1>3, <1>4, <2>1
  <2>3. Min(P) \in Ps
    BY <1>1, <2>1, <2>2
  <2>4. Min(P) = Min(Ps)
    BY <1>3, <1>4, <1>5, <2>1, <2>2, <2>3
  <2>5. T.post.made = Min(Ps) /\ T.post.made # 0
    BY <1>2, <1>5, <2>1
  <2>6. RowsFrom(T, L, t).post.made = Min(Ps)
    BY <1>2, <2>5
  <2>7. RowsFrom(NoTables, 0, s \o t).post.made = Min(Ps)
    BY <1>2, <2>1, <2>4
  <2> QED BY <2>6, <2>7 DEF T, L
<1>6. CASE Ps = {} /\ Pt # {}
  <2>1. Min(Pt) \in 1..Len(t) /\ L + Min(Pt) \in P /\ P # {}
    BY <1>1, <1>4, <1>6
  <2>2. Min(P) <= L + Min(Pt) /\ Min(P) \in P
    BY <1>4, <2>1
  <2>3. PICK i \in Pt : Min(P) = L + i
    BY <1>1, <1>6, <2>2
  <2>4. Min(Pt) <= i /\ i \in 1..Len(t)
    BY <1>1, <1>4, <1>6
  <2>5. Min(P) = L + Min(Pt)
    BY <1>1, <2>1, <2>2, <2>3, <2>4
  <2>6. T.post.made = 0
    BY <1>2, <1>6
  <2>7. RowsFrom(T, L, t).post.made = L + Min(Pt)
    BY <1>2, <1>6, <2>6
  <2>8. RowsFrom(NoTables, 0, s \o t).post.made = L + Min(Pt)
    BY <1>1, <1>2, <2>1, <2>5
  <2> QED BY <2>7, <2>8 DEF T, L
<1>7. CASE Ps = {} /\ Pt = {}
  <2>1. P = {}
    BY <1>1, <1>7
  <2>2. RowsFrom(T, L, t).post.made = 0 /\ RowsFrom(NoTables, 0, s \o t).post.made = 0
    BY <1>2, <1>7, <2>1
  <2> QED BY <2>2 DEF T, L
<1> QED BY <1>5, <1>6, <1>7

(* The deleted flag: the last of posts and deletes tells. *)
LEMMA JoinDeleted ==
    ASSUME NEW s \in Seq(Block), NEW t \in Seq(Block)
    PROVE  LET T == RowsFrom(NoTables, 0, s) IN
           RowsFrom(T, Len(s), t).post.deleted = RowsFrom(NoTables, 0, s \o t).post.deleted
<1> DEFINE L  == Len(s)
           Ps == Having(s, "post")
           Pt == Having(t, "post")
           P  == Having(s \o t, "post")
           Ds == Having(s, "delete")
           Dt == Having(t, "delete")
           D  == Having(s \o t, "delete")
           T  == RowsFrom(NoTables, 0, s)
           inS == \E i \in Ds : \A j \in Ps : j <= i
           inT == \E i \in Dt : \A j \in Pt : j <= i
           inB == \E i \in D : \A j \in P : j <= i
<1>1. /\ L \in Nat /\ Len(t) \in Nat /\ Ps \subseteq 1..L /\ Pt \subseteq 1..Len(t)
      /\ \A i \in Ps : i \in P
      /\ \A i \in Pt : L + i \in P
      /\ \A n \in P : n \in Ps \/ \E i \in Pt : n = L + i
  BY JoinHaving
<1>2. /\ Ds \subseteq 1..L /\ Dt \subseteq 1..Len(t)
      /\ \A i \in Ds : i \in D
      /\ \A i \in Dt : L + i \in D
      /\ \A n \in D : n \in Ds \/ \E i \in Dt : n = L + i
  BY JoinHaving
<1>3. /\ T.post.deleted = IF Ps \cup Ds = {} THEN FALSE ELSE inS
      /\ RowsFrom(T, L, t).post.deleted = IF Pt \cup Dt = {} THEN T.post.deleted ELSE inT
      /\ RowsFrom(NoTables, 0, s \o t).post.deleted = IF P \cup D = {} THEN FALSE ELSE inB
  BY DEF RowsFrom, NoTables, NoRow
<1> HIDE DEF Ps, Pt, P, Ds, Dt, D, L, T
<1>4. T.post.deleted = inS
  <2>1. Ps \cup Ds = {} => inS = FALSE
    OBVIOUS
  <2> QED BY <1>3, <2>1
<1>5. RowsFrom(NoTables, 0, s \o t).post.deleted = inB
  <2>1. P \cup D = {} => inB = FALSE
    OBVIOUS
  <2> QED BY <1>3, <2>1
<1>6. CASE Pt \cup Dt = {}
  <2>1. P = Ps /\ D = Ds
    BY <1>1, <1>2, <1>6
  <2> QED BY <1>3, <1>4, <1>5, <1>6, <2>1 DEF T, L
<1>7. CASE Pt \cup Dt # {}
  <2>1. ASSUME inT PROVE inB
    <3>1. PICK i \in Dt : \A j \in Pt : j <= i
      BY <2>1
    <3>2. L + i \in D /\ i \in 1..Len(t)
      BY <1>2
    <3>3. ASSUME NEW n \in P PROVE n <= L + i
      <4>1. CASE n \in Ps
        BY <1>1, <3>2, <4>1
      <4>2. ASSUME NEW j \in Pt, n = L + j PROVE n <= L + i
        <5>1. j <= i /\ j \in 1..Len(t)
          BY <1>1, <3>1
        <5> QED BY <1>1, <3>2, <4>2, <5>1
      <4> QED BY <1>1, <4>1, <4>2
    <3> QED BY <3>2, <3>3
  <2>2. ASSUME inB PROVE inT
    <3>1. PICK i \in D : \A j \in P : j <= i
      BY <2>2
    <3>2. CASE i \in Ds
      <4>1. ASSUME NEW j \in Pt PROVE FALSE
        BY <1>1, <1>2, <3>1, <3>2
      <4>2. PICK d \in Dt : TRUE
        BY <1>7, <4>1
      <4> QED BY <4>1, <4>2
    <3>3. ASSUME NEW d \in Dt, i = L + d PROVE inT
      <4>1. ASSUME NEW j \in Pt PROVE j <= d
        <5>1. L + j <= L + d /\ j \in 1..Len(t) /\ d \in 1..Len(t)
          BY <1>1, <1>2, <3>1, <3>3
        <5> QED BY <5>1, <1>1
      <4> QED BY <4>1
    <3> QED BY <1>2, <3>2, <3>3
  <2>3. inT = inB
    BY <2>1, <2>2
  <2> HIDE DEF inT, inB
  <2> QED BY <1>3, <1>5, <1>7, <2>3 DEF T, L
<1> QED BY <1>6, <1>7

(* A payment counts when a post is there before it, in either part. *)
LEMMA JoinPaid ==
    ASSUME NEW s \in Seq(Block), NEW t \in Seq(Block)
    PROVE  LET T       == RowsFrom(NoTables, 0, s)
               paid(u, r) == {i \in Having(r, "pay") : Known(u, r, i)}
           IN /\ paid(NoTables, s \o t) =
                    paid(NoTables, s) \cup {Len(s) + i : i \in paid(T, t)}
              /\ paid(NoTables, s) \subseteq 1..Len(s)
              /\ paid(T, t) \subseteq 1..Len(t)
<1> DEFINE L  == Len(s)
           Ps == Having(s, "post")
           Pt == Having(t, "post")
           P  == Having(s \o t, "post")
           As == Having(s, "pay")
           At == Having(t, "pay")
           A  == Having(s \o t, "pay")
           T  == RowsFrom(NoTables, 0, s)
           S1 == {i \in As : Known(NoTables, s, i)}
           S2 == {i \in At : Known(T, t, i)}
           S  == {i \in A : Known(NoTables, s \o t, i)}
<1>1. /\ L \in Nat /\ Len(t) \in Nat /\ Ps \subseteq 1..L /\ Pt \subseteq 1..Len(t)
      /\ \A i \in Ps : i \in P
      /\ \A i \in Pt : L + i \in P
      /\ \A n \in P : n \in Ps \/ \E i \in Pt : n = L + i
  BY JoinHaving
<1>2. /\ As \subseteq 1..L /\ At \subseteq 1..Len(t)
      /\ \A i \in As : i \in A
      /\ \A i \in At : L + i \in A
      /\ \A n \in A : n \in As \/ \E i \in At : n = L + i
  BY JoinHaving
<1>3. T.post.made # 0 <=> Ps # {}
  <2>1. T.post.made = IF Ps = {} THEN 0 ELSE 0 + Min(Ps)
    BY DEF RowsFrom, NoTables, NoRow
  <2> HIDE DEF T, L, Pt, P
  <2>2. Ps # {} => Min(Ps) \in Ps
    <3>1. Ps \in SUBSET Nat
      BY <1>1
    <3> QED BY <3>1, MinIsLeast
  <2> HIDE DEF Ps
  <2>3. Ps # {} => Min(Ps) \in 1..L
    BY <1>1, <2>2
  <2>4. CASE Ps = {}
    BY <2>1, <2>4
  <2>5. CASE Ps # {}
    <3>1. Min(Ps) \in 1..L /\ T.post.made = 0 + Min(Ps)
      BY <2>1, <2>3, <2>5
    <3> QED BY <1>1, <2>5, <3>1
  <2> QED BY <2>4, <2>5
<1>4. /\ \A i : Known(NoTables, s, i) <=> \E j \in Ps : j <= i
      /\ \A i : Known(NoTables, s \o t, i) <=> \E j \in P : j <= i
      /\ \A i : Known(T, t, i) <=> (Ps # {} \/ \E j \in Pt : j <= i)
  BY <1>3 DEF Known, NoTables, NoRow
<1> HIDE DEF Ps, Pt, P, As, At, A, L, T
<1>5. ASSUME NEW n \in S PROVE n \in S1 \/ n \in {L + i : i \in S2}
  <2>1. PICK j \in P : j <= n
    BY <1>4
  <2>2. CASE n \in As
    <3>1. n \in 1..L
      BY <1>2, <2>2
    <3>2. ASSUME NEW i \in Pt, j = L + i PROVE FALSE
      <4>1. i \in 1..Len(t) /\ L + i <= n
        BY <1>1, <2>1, <3>2
      <4> QED BY <1>1, <3>1, <4>1
    <3>3. j \in Ps
      BY <1>1, <3>2
    <3> QED BY <1>4, <2>1, <2>2, <3>3
  <2>3. ASSUME NEW a \in At, n = L + a PROVE n \in {L + i : i \in S2}
    <3>1. Ps # {} \/ \E i \in Pt : i <= a
      <4>1. CASE j \in Ps
        BY <4>1
      <4>2. ASSUME NEW i \in Pt, j = L + i PROVE i <= a
        <5>1. i \in 1..Len(t) /\ a \in 1..Len(t) /\ L + i <= L + a
          BY <1>1, <1>2, <2>1, <2>3, <4>2
        <5> QED BY <1>1, <5>1
      <4> QED BY <1>1, <4>1, <4>2
    <3>2. a \in S2
      BY <1>4, <3>1
    <3> QED BY <2>3, <3>2
  <2> QED BY <1>2, <2>2, <2>3
<1>6. ASSUME NEW n \in S1 PROVE n \in S
  BY <1>1, <1>2, <1>4
<1>7. ASSUME NEW i \in S2 PROVE L + i \in S
  <2>1. i \in At /\ i \in 1..Len(t)
    BY <1>2
  <2>2. CASE Ps # {}
    <3>1. PICK j \in Ps : TRUE
      BY <2>2
    <3>2. j \in P /\ j <= L + i
      BY <1>1, <2>1, <3>1
    <3> QED BY <1>2, <1>4, <2>1, <3>2
  <2>3. CASE \E j \in Pt : j <= i
    <3>1. PICK j \in Pt : j <= i
      BY <2>3
    <3>2. L + j \in P /\ L + j <= L + i
      BY <1>1, <2>1, <3>1
    <3> QED BY <1>2, <1>4, <2>1, <3>2
  <2> QED BY <1>4, <2>2, <2>3
<1>8. S = S1 \cup {L + i : i \in S2}
  BY <1>5, <1>6, <1>7
<1>9. S1 \subseteq 1..L /\ S2 \subseteq 1..Len(t)
  BY <1>2
<1> QED BY <1>8, <1>9 DEF L, T, A, As, At

(* Two sets of numbers, the second shifted past the first, count as one. *)
LEMMA ShiftedCount ==
    ASSUME NEW L \in Nat, NEW m \in Nat, NEW S1 \in SUBSET (1..L), NEW S2 \in SUBSET (1..m)
    PROVE  Cardinality(S1 \cup {L + i : i \in S2}) = Cardinality(S1) + Cardinality(S2)
<1> DEFINE R == {L + i : i \in S2}
           f == [i \in S2 |-> L + i]
<1>1. IsFiniteSet(S1) /\ IsFiniteSet(S2)
  <2>1. IsFiniteSet(1..L) /\ IsFiniteSet(1..m)
    BY FS_Interval
  <2> QED BY <2>1, FS_Subset
<1>2. f \in Bijection(S2, R)
  <2>1. \A i, j \in S2 : f[i] = f[j] => i = j
    <3> SUFFICES ASSUME NEW i \in S2, NEW j \in S2, L + i = L + j PROVE i = j
      OBVIOUS
    <3>1. i \in Int /\ j \in Int
      OBVIOUS
    <3> QED BY <3>1
  <2>2. f \in [S2 -> R] /\ \A r \in R : \E i \in S2 : f[i] = r
    OBVIOUS
  <2> HIDE DEF f, R
  <2> QED BY <2>1, <2>2 DEF Bijection, Injection, Surjection, IsInjective
<1>3. IsFiniteSet(R) /\ Cardinality(R) = Cardinality(S2)
  BY <1>1, <1>2, FS_Bijection DEF ExistsBijection
<1>4. S1 \cap R = {}
  <2> SUFFICES ASSUME NEW n \in S1, NEW i \in S2, n = L + i PROVE FALSE
    OBVIOUS
  <2>1. n \in 1..L /\ i \in 1..m
    OBVIOUS
  <2> QED BY <2>1
<1> HIDE DEF R
<1>5. Cardinality(S1 \cup R) = Cardinality(S1) + Cardinality(R)
  <2>1. Cardinality(S1 \cap R) = 0
    BY <1>4, FS_EmptySet
  <2>2. Cardinality(S1) \in Nat /\ Cardinality(R) \in Nat
    BY <1>1, <1>3, FS_CardinalityType
  <2>3. Cardinality(S1 \cup R) = Cardinality(S1) + Cardinality(R) - Cardinality(S1 \cap R)
    BY <1>1, <1>3, FS_Union
  <2> QED BY <2>1, <2>2, <2>3
<1> QED BY <1>3, <1>5 DEF R

(* _process block by block, or in parts: the rows of s \o t are those that t
   makes of the rows of s. *)
LEMMA RowsJoin ==
    ASSUME NEW s \in Seq(Block), NEW t \in Seq(Block)
    PROVE  RowsFrom(RowsFrom(NoTables, 0, s), Len(s), t) = RowsFrom(NoTables, 0, s \o t)
<1> DEFINE T  == RowsFrom(NoTables, 0, s)
           X  == RowsFrom(T, Len(s), t)
           Y  == RowsFrom(NoTables, 0, s \o t)
           S1 == {i \in Having(s, "pay") : Known(NoTables, s, i)}
           S2 == {i \in Having(t, "pay") : Known(T, t, i)}
           S  == {i \in Having(s \o t, "pay") : Known(NoTables, s \o t, i)}
<1>1. X.post.made = Y.post.made /\ X.post.deleted = Y.post.deleted
  BY JoinMade, JoinDeleted
<1>2. S = S1 \cup {Len(s) + i : i \in S2} /\ S1 \subseteq 1..Len(s) /\ S2 \subseteq 1..Len(t)
  BY JoinPaid
<1>3. Len(s) \in Nat /\ Len(t) \in Nat
  BY BlockSeq
<1>4. /\ T.post.promoted = 0 + Cardinality(S1)
      /\ T.payments = {} \cup {0 + i : i \in S1}
      /\ X.post.promoted = T.post.promoted + Cardinality(S2)
      /\ X.payments = T.payments \cup {Len(s) + i : i \in S2}
      /\ Y.post.promoted = 0 + Cardinality(S)
      /\ Y.payments = {} \cup {0 + i : i \in S}
  BY DEF RowsFrom, NoTables, NoRow
<1>5. /\ X = [post |-> [made |-> X.post.made, deleted |-> X.post.deleted,
                        promoted |-> X.post.promoted], payments |-> X.payments]
      /\ Y = [post |-> [made |-> Y.post.made, deleted |-> Y.post.deleted,
                        promoted |-> Y.post.promoted], payments |-> Y.payments]
  BY DEF RowsFrom
<1> HIDE DEF S1, S2, S, T, X, Y
<1>6. Cardinality(S) = Cardinality(S1) + Cardinality(S2)
  <2>1. S1 \in SUBSET (1..Len(s)) /\ S2 \in SUBSET (1..Len(t))
    BY <1>2
  <2>2. Cardinality(S1 \cup {Len(s) + i : i \in S2}) = Cardinality(S1) + Cardinality(S2)
    BY ZenonT(30), <1>3, <2>1, ShiftedCount
  <2> QED BY <1>2, <2>2
<1>7. Cardinality(S1) \in Nat /\ Cardinality(S2) \in Nat
  <2>1. IsFiniteSet(1..Len(s)) /\ IsFiniteSet(1..Len(t))
    BY <1>3, FS_Interval
  <2>2. IsFiniteSet(S1) /\ IsFiniteSet(S2)
    BY <1>2, <2>1, FS_Subset
  <2> QED BY <2>2, FS_CardinalityType
<1>8. X.post.promoted = Y.post.promoted
  BY <1>4, <1>6, <1>7
<1>9. X.payments = Y.payments
  <2>1. S1 \subseteq Nat /\ S \subseteq Nat
    <3>1. \A n \in S : n \in Nat
      BY <1>2, <1>3
    <3> QED BY <1>2, <1>3, <3>1
  <2>2. \A U \in SUBSET Nat : {0 + i : i \in U} = U
    <3> SUFFICES ASSUME NEW U \in SUBSET Nat PROVE {0 + i : i \in U} = U
      OBVIOUS
    <3>1. \A i \in U : 0 + i = i
      OBVIOUS
    <3> QED BY <3>1
  <2> QED BY <1>2, <1>4, <2>2
<1>10. X = Y
  BY <1>1, <1>5, <1>8, <1>9
<1> QED BY <1>10 DEF X, Y, T

-----------------------------------------------------------------------------
(* Under forks no deeper than trail_blocks: the blocks indexed are those of the
   node, irreversible or trail_blocks behind its head. *)
Behind == Len(blocks) <= lib \/ Len(blocks) + Trail <= Len(chain)

MicroInv == InSync /\ Behind /\ RowsAreExact

(* A fork of the node replaces no block that was indexed. *)
LEMMA MicroNode ==
    ASSUME MaxDepth <= Trail, SyncInv, MicroInv, NodeStep
    PROVE  MicroInv'
<1>1. /\ Len(chain) \in Nat /\ Len(blocks) \in Nat /\ lib \in 1..Len(chain)
      /\ MaxDepth \in Nat /\ Trail \in Nat /\ TypeOK /\ NodeInv /\ Len(blocks) <= Len(chain)
  BY Lengths, SyncAssumption DEF SyncInv, TypeOK, CopyInv, InSync, MicroInv
<1>2. UNCHANGED dbVars /\ blocks' = blocks /\ tables' = tables
  BY DEF NodeStep, Produce, Fork, Finalize, dbVars
<1>3. RowsAreExact'
  BY <1>2 DEF MicroInv, RowsAreExact
<1>4. ASSUME NEW k \in lib..Len(chain), Grown(k), Len(blocks) <= k, lib' = lib
      PROVE  InSync' /\ Behind'
  <2>1. Len(chain') = Len(chain) + 1 /\ \A n \in 1..k : chain'[n] = chain[n]
    BY <1>4 DEF Grown
  <2>2. \A n \in 1..Len(blocks) : n \in 1..k /\ n <= Len(chain')
    BY <1>1, <1>4, <2>1
  <2>3. InSync'
    BY <1>2, <2>1, <2>2 DEF MicroInv, InSync
  <2>4. Behind'
    BY <1>1, <1>2, <1>4, <2>1 DEF MicroInv, Behind
  <2> QED BY <2>3, <2>4
<1>5. CASE Produce
  <2>1. Grown(Len(chain)) /\ Len(chain) \in lib..Len(chain) /\ lib' = lib
    BY <1>1, <1>5, ProduceGrows DEF Produce
  <2> QED BY <1>1, <1>3, <1>4, <2>1 DEF MicroInv
<1>6. CASE Fork
  <2>1. PICK k \in lib..Len(chain) : Grown(k) /\ Len(chain) - k <= MaxDepth
    BY <1>1, <1>6, ForkGrows
  <2>2. Len(blocks) <= k
    BY <1>1, <2>1 DEF MicroInv, Behind
  <2>3. lib' = lib
    BY <1>6 DEF Fork
  <2> QED BY <1>3, <1>4, <2>1, <2>2, <2>3 DEF MicroInv
<1>7. CASE Finalize
  <2>1. lib' = lib + 1 /\ chain' = chain
    BY <1>7 DEF Finalize
  <2>2. InSync' /\ Behind'
    BY <1>1, <1>2, <2>1 DEF MicroInv, InSync, Behind
  <2> QED BY <1>3, <2>2 DEF MicroInv
<1> QED BY <1>5, <1>6, <1>7 DEF NodeStep

(* Blocks of the chain that are written far enough behind its head. *)
LEMMA MicroPush ==
    ASSUME SyncInv, MicroInv, NEW s \in Seq(Block), Len(s) >= 1,
           Len(blocks) + Len(s) <= Len(chain),
           \A i \in 1..Len(s) : s[i] = chain[Len(blocks) + i],
           Push(s), UNCHANGED nodeVars,
           Len(blocks) + Len(s) <= lib \/ Len(blocks) + Len(s) + Trail <= Len(chain)
    PROVE  MicroInv'
<1>1. /\ Len(chain) \in Nat /\ Len(blocks) \in Nat /\ Len(s) \in Nat /\ blocks \in Seq(Block)
      /\ chain' = chain /\ lib' = lib
  BY Lengths, BlockSeq DEF SyncInv, TypeOK, nodeVars
<1>2. /\ Len(blocks') = Len(blocks) + Len(s)
      /\ \A n \in 1..Len(blocks') : blocks'[n] = chain[n]
  BY PushedIsChain
<1>3. InSync'
  BY <1>1, <1>2 DEF InSync
<1>4. Behind'
  BY <1>1, <1>2 DEF Behind
<1>5. RowsAreExact'
  <2>1. blocks' = blocks \o s /\ tables' = RowsFrom(tables, Len(blocks), s)
    BY DEF Push, RowsAfter
  <2>2. tables = RowsFrom(NoTables, 0, blocks)
    BY DEF MicroInv, RowsAreExact
  <2>3. tables' = RowsFrom(RowsFrom(NoTables, 0, blocks), Len(blocks), s)
    BY <2>1, <2>2
  <2>4. tables' = RowsFrom(NoTables, 0, blocks \o s)
    BY <1>1, <2>3, RowsJoin
  <2>5. tables' = RowsFrom(NoTables, 0, blocks')
    BY <2>1, <2>4
  <2> QED BY <2>5 DEF RowsAreExact, RowsFrom, Having, Known, NoTables, NoRow
<1> QED BY <1>3, <1>4, <1>5 DEF MicroInv

(* Fast sync stays below the last irreversible block, the stream trail_blocks
   behind the head. *)
LEMMA MicroWrite ==
    ASSUME SyncInv, MicroInv, FastChunk \/ (FetchBlock /\ Full)
    PROVE  MicroInv' /\ Len(blocks') >= Len(blocks)
<1>1. /\ Len(chain) \in Nat /\ Len(blocks) \in Nat /\ Len(buf) \in Nat
      /\ lib \in 1..Len(chain) /\ Trail \in Nat
  BY Lengths, SyncAssumption DEF SyncInv, TypeOK
<1>2. PICK s \in Seq(Block) :
        /\ Len(s) >= 1 /\ Len(blocks) + Len(s) <= Len(chain) /\ Push(s)
        /\ \A i \in 1..Len(s) : s[i] = chain[Len(blocks) + i]
        /\ Len(blocks) + Len(s) <= lib \/ Len(blocks) + Len(s) + Trail <= Len(chain)
  <2>1. CASE FastChunk
    <3>1. /\ NextChunk \in Seq(Block) /\ Len(NextChunk) >= 1
          /\ Len(blocks) + Len(NextChunk) <= Len(chain)
          /\ Len(blocks) + Len(NextChunk) < lib
          /\ \A i \in 1..Len(NextChunk) : NextChunk[i] = chain[Len(blocks) + i]
          /\ Push(NextChunk)
      BY <2>1, ChunkIsChain DEF FastChunk
    <3>2. Len(NextChunk) \in Nat
      BY <3>1, BlockSeq
    <3>3. Len(blocks) + Len(NextChunk) <= lib
      BY <1>1, <3>1, <3>2
    <3> QED BY <3>1, <3>3
  <2>2. CASE FetchBlock /\ Full
    <3> DEFINE s == <<Head(Fetched)>>
    <3>1. Push(s) /\ Fetching /\ Linking
      BY <2>2 DEF FetchBlock
    <3>2. /\ s \in Seq(Block) /\ Len(s) = 1 /\ Len(blocks) + Len(s) <= Len(chain)
          /\ \A i \in 1..Len(s) : s[i] = chain[Len(blocks) + i]
      BY <3>1, YieldedBlock
    <3>3. Len(blocks) + (Len(buf) + 1) <= Len(chain)
      BY <3>1, FetchedIsChain
    <3>4. Len(buf) + 1 > Trail
      BY <2>2 DEF Full
    <3> HIDE DEF s
    <3>5. Len(blocks) + Len(s) + Trail <= Len(chain) /\ Len(s) >= 1
      BY <1>1, <3>2, <3>3, <3>4
    <3> QED BY <3>1, <3>2, <3>5
  <2> QED BY <2>1, <2>2
<1>3. UNCHANGED nodeVars
  BY DEF FastChunk, FetchBlock
<1>4. MicroInv'
  BY <1>2, <1>3, MicroPush
<1>5. Len(blocks') = Len(blocks) + Len(s) /\ Len(s) \in Nat
  BY <1>2, PushedIsChain, BlockSeq
<1> QED BY <1>1, <1>4, <1>5

(* No step of verify_head finds a block to pop, and no other step cuts. *)
LEMMA MicroNext ==
    ASSUME MaxDepth <= Trail, SyncInv, MicroInv, [Next]_vars
    PROVE  MicroInv' /\ Len(blocks') >= Len(blocks)
<1>1. Len(blocks) \in Nat
  BY Lengths DEF SyncInv
<1>2. ASSUME UNCHANGED <<nodeVars, dbVars>> PROVE MicroInv' /\ Len(blocks') >= Len(blocks)
  BY <1>1, <1>2 DEF MicroInv, InSync, Behind, RowsAreExact, nodeVars, dbVars
<1>3. CASE NodeStep
  <2>1. blocks' = blocks
    BY <1>3 DEF NodeStep, Produce, Fork, Finalize, dbVars
  <2> QED BY <1>1, <1>3, <2>1, MicroNode
<1>4. CASE FastChunk \/ (FetchBlock /\ Full)
  BY <1>4, MicroWrite
<1>5. CASE PopFork
  <2>1. /\ cursor \in 1..Len(blocks) /\ cursor < Len(blocks)
        /\ \A n \in (cursor + 1)..Len(blocks) : blocks[n].tag # chain[n].tag
    BY <1>5 DEF PopFork, SyncInv, VerifyInv
  <2>2. Len(blocks) \in (cursor + 1)..Len(blocks) /\ Len(blocks) \in 1..Len(blocks)
    BY <1>1, <2>1
  <2>3. blocks[Len(blocks)] = chain[Len(blocks)]
    BY <2>2 DEF MicroInv, InSync
  <2> QED BY <2>1, <2>2, <2>3
<1>6. CASE FetchBlock /\ ~Full
  BY <1>2, <1>6 DEF FetchBlock
<1>7. CASE Start \/ WalkBack \/ Agree \/ EnterFast \/ Listen \/ EndStream
  BY <1>2, <1>7 DEF Start, WalkBack, Agree, EnterFast, Listen, EndStream
<1>8. CASE Crash \/ Raise
  BY <1>2, <1>8 DEF Crash, Raise, Die
<1>9. CASE UNCHANGED vars \/ Wait
  BY <1>2, <1>9 DEF Wait, vars
<1> QED BY <1>3, <1>4, <1>5, <1>6, <1>7, <1>8, <1>9 DEF Next, IndexerStep

LEMMA MicroInit == Init => MicroInv
<1> SUFFICES ASSUME Init PROVE MicroInv
  OBVIOUS
<1>1. /\ chain = <<Genesis>> /\ blocks = <<Genesis>> /\ lib = 1 /\ tables = NoTables
      /\ Len(blocks) = 1 /\ Len(chain) = 1 /\ blocks[1] = Genesis /\ Genesis.body = {}
  BY DEF Init, Genesis
<1>2. InSync /\ Behind
  BY <1>1 DEF InSync, Behind
<1>3. \A op : Having(blocks, op) = {}
  BY <1>1 DEF Having
<1>4. {i \in Having(blocks, "pay") : Known(NoTables, blocks, i)} = {}
  BY <1>3
<1>5. RowsFrom(NoTables, 0, blocks) = NoTables
  <2>1. /\ NoTables.post.made = 0 /\ NoTables.post.deleted = FALSE
        /\ NoTables.post.promoted = 0 /\ NoTables.payments = {}
    BY DEF NoTables, NoRow
  <2>2. Cardinality({}) = 0
    BY FS_EmptySet
  <2>3. {0 + i : i \in {}} = {}
    OBVIOUS
  <2>4. RowsFrom(NoTables, 0, blocks) =
          [post |-> [made |-> 0, deleted |-> FALSE, promoted |-> 0 + 0], payments |-> {}]
    BY <1>3, <1>4, <2>1, <2>2, <2>3 DEF RowsFrom
  <2> QED BY <2>4 DEF NoTables, NoRow
<1> QED BY <1>1, <1>2, <1>5 DEF MicroInv, RowsAreExact

(* If no fork is deeper than trail_blocks, the rows of posts and payments are
   exactly those the blocks make, flags and balances that _pop would not take
   back included: _push composes, and there is never anything to pop. *)
THEOREM RowsAlwaysExact ==
    ASSUME MaxDepth <= Trail
    PROVE  Spec => []RowsAreExact
<1>1. SyncInv /\ MicroInv /\ [Next]_vars => MicroInv'
  BY MicroNext
<1>2. MicroInv => RowsAreExact
  BY DEF MicroInv
<1> QED BY <1>1, <1>2, MicroInit, SyncInvariant, PTL DEF Spec

(* If no fork is deeper than trail_blocks, the buffer of the stream confines
   them all: no block that was written is ever popped. *)
THEOREM ForksStayInBuffer ==
    ASSUME MaxDepth <= Trail
    PROVE  Spec => MicroForksStayInBuffer
<1>1. SyncInv /\ MicroInv /\ [Next]_vars => MicroInv' /\ [Len(blocks') >= Len(blocks)]_vars
  BY MicroNext
<1> QED BY <1>1, MicroInit, SyncInvariant, PTL DEF Spec, MicroForksStayInBuffer

=============================================================================
