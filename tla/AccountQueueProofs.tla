------------------------- MODULE AccountQueueProofs -------------------------
(* Proofs about AccountQueue, for any accounts and any constants. *)
EXTENDS AccountQueue, SequenceTheorems, FiniteSetTheorems, TLAPS

(* Some account is taken from a queue that is not empty. *)
LEMMA PortionRange ==
  ASSUME NEW n \in Nat
  PROVE  Portion(n) \in 0..n /\ (n > 0 => Portion(n) > 0)
<1>1. Spread \in Nat /\ Spread > 0 BY QueueAssumption
<1>2. CASE n = 0 BY <1>1, <1>2 DEF Portion
<1>3. CASE n > 0 BY <1>1, <1>3 DEF Portion
<1> QED BY <1>2, <1>3

(* An order of a set lists each of its elements once. *)
LEMMA SetToSeqsSet ==
  ASSUME NEW S, IsFiniteSet(S), NEW s \in SetToSeqs(S)
  PROVE  /\ s \in Seq(S)
         /\ ToSet(s) = S
         /\ \A i, j \in 1..Len(s) : s[i] = s[j] => i = j
<1>1. Cardinality(S) \in Nat BY FS_CardinalityType
<1>2. /\ s \in [1..Cardinality(S) -> S]
      /\ \A i, j \in 1..Cardinality(S) : i # j => s[i] # s[j]
  BY DEF SetToSeqs
<1>3. Len(s) = Cardinality(S) /\ s \in Seq(S) /\ DOMAIN s = 1..Cardinality(S)
  BY <1>1, <1>2
<1>4. s \in Injection(1..Cardinality(S), S)
  BY <1>2 DEF Injection, IsInjective
<1>5. Cardinality(1..Cardinality(S)) = Cardinality(S)
  BY <1>1, FS_Interval
<1>6. s \in Surjection(1..Cardinality(S), S)
  BY <1>4, <1>5, FS_Injection
<1>7. ToSet(s) = S
  BY <1>6, <1>3 DEF Surjection, ToSet
<1> QED BY <1>2, <1>3, <1>7

(* A UniqueFIFO: each member of the set is queued, once. *)
Fifo(q, m) ==
    /\ q \in Seq(Account)
    /\ m = ToSet(q)
    /\ \A i, j \in 1..Len(q) : q[i] = q[j] => i = j

(* Marking keeps a UniqueFIFO one, and the places of what is queued. *)
LEMMA AddedFifo ==
  ASSUME NEW q, NEW m, Fifo(q, m), NEW S \in SUBSET Account, NEW f \in Added(q, m, S)
  PROVE  /\ Fifo(f.queue, f.members)
         /\ f.members = m \cup S
         /\ Len(f.queue) >= Len(q)
         /\ \A i \in 1..Len(q) : f.queue[i] = q[i]
<1>1. PICK s \in SetToSeqs(S \ m) : f = [queue |-> q \o s, members |-> m \cup S]
  BY DEF Added
<1>2. IsFiniteSet(S \ m) BY FS_Subset, QueueAssumption
<1>3. /\ s \in Seq(S \ m) /\ ToSet(s) = S \ m
      /\ \A i, j \in 1..Len(s) : s[i] = s[j] => i = j
  BY <1>2, SetToSeqsSet
<1>4. s \in Seq(Account) /\ q \in Seq(Account)
  BY <1>3, SeqMonotonic DEF Fifo
<1>5. Len(s) \in Nat /\ Len(q) \in Nat BY <1>4
<1>6. /\ q \o s \in Seq(Account)
      /\ Len(q \o s) = Len(q) + Len(s)
      /\ \A i \in 1..(Len(q) + Len(s)) :
            (q \o s)[i] = IF i <= Len(q) THEN q[i] ELSE s[i - Len(q)]
  BY <1>4, ConcatProperties
<1>7. f.queue = q \o s /\ f.members = m \cup S BY <1>1
<1>8. m = ToSet(q) /\ \A i, j \in 1..Len(q) : q[i] = q[j] => i = j
  BY DEF Fifo
<1>9. /\ \A i \in 1..Len(q) : (q \o s)[i] = q[i] /\ q[i] \in m
      /\ \A i \in (Len(q) + 1)..(Len(q) + Len(s)) :
            i - Len(q) \in 1..Len(s) /\ (q \o s)[i] = s[i - Len(q)] /\ (q \o s)[i] \in S \ m
  <2>1. ASSUME NEW i \in 1..Len(q) PROVE (q \o s)[i] = q[i] /\ q[i] \in m
    BY <1>5, <1>6, <1>8, <1>4 DEF ToSet
  <2>2. ASSUME NEW i \in (Len(q) + 1)..(Len(q) + Len(s))
        PROVE  i - Len(q) \in 1..Len(s) /\ (q \o s)[i] = s[i - Len(q)] /\ (q \o s)[i] \in S \ m
    <3>1. i - Len(q) \in 1..Len(s) /\ i \in 1..(Len(q) + Len(s)) /\ ~(i <= Len(q)) BY <1>5
    <3>2. (q \o s)[i] = s[i - Len(q)] BY <3>1, <1>6
    <3>3. s[i - Len(q)] \in S \ m BY <3>1, <1>3, ElementOfSeq
    <3> QED BY <3>1, <3>2, <3>3
  <2> QED BY <2>1, <2>2
<1>10. \A i, j \in 1..Len(q \o s) : (q \o s)[i] = (q \o s)[j] => i = j
  <2> SUFFICES ASSUME NEW i \in 1..Len(q \o s), NEW j \in 1..Len(q \o s),
                      (q \o s)[i] = (q \o s)[j]
               PROVE  i = j
    OBVIOUS
  <2>1. /\ i \in 1..Len(q) \/ i \in (Len(q) + 1)..(Len(q) + Len(s))
        /\ j \in 1..Len(q) \/ j \in (Len(q) + 1)..(Len(q) + Len(s))
    BY <1>5, <1>6
  <2>2. CASE i \in 1..Len(q) /\ j \in 1..Len(q) BY <2>2, <1>9, <1>8
  <2>3. CASE i \in (Len(q) + 1)..(Len(q) + Len(s)) /\ j \in (Len(q) + 1)..(Len(q) + Len(s))
    <3>1. i - Len(q) = j - Len(q) BY <2>3, <1>9, <1>3
    <3> QED BY <3>1, <1>5
  <2>4. CASE i \in 1..Len(q) /\ j \in (Len(q) + 1)..(Len(q) + Len(s)) BY <2>4, <1>9
  <2>5. CASE i \in (Len(q) + 1)..(Len(q) + Len(s)) /\ j \in 1..Len(q) BY <2>5, <1>9
  <2> QED BY <2>1, <2>2, <2>3, <2>4, <2>5
<1>11. ToSet(q \o s) = m \cup S
  <2>1. ASSUME NEW a \in ToSet(q \o s) PROVE a \in m \cup S
    <3>1. PICK i \in 1..(Len(q) + Len(s)) : a = (q \o s)[i] BY <1>6 DEF ToSet
    <3>2. i \in 1..Len(q) \/ i \in (Len(q) + 1)..(Len(q) + Len(s)) BY <1>5
    <3> QED BY <3>1, <3>2, <1>9
  <2>2. ASSUME NEW a \in m PROVE a \in ToSet(q \o s)
    <3>1. PICK i \in 1..Len(q) : a = q[i] BY <1>8, <1>4 DEF ToSet
    <3>2. i \in 1..Len(q \o s) BY <1>5, <1>6
    <3> QED BY <3>1, <3>2, <1>9, <1>6 DEF ToSet
  <2>3. ASSUME NEW a \in S \ m PROVE a \in ToSet(q \o s)
    <3>1. PICK i \in 1..Len(s) : a = s[i] BY <1>3 DEF ToSet
    <3>2. i + Len(q) \in (Len(q) + 1)..(Len(q) + Len(s)) /\ (i + Len(q)) - Len(q) = i BY <1>5
    <3>3. (q \o s)[i + Len(q)] = a BY <3>1, <3>2, <1>9
    <3>4. i + Len(q) \in 1..Len(q \o s) BY <1>5, <1>6
    <3> QED BY <3>3, <3>4, <1>6 DEF ToSet
  <2> QED BY <2>1, <2>2, <2>3
<1>12. Len(q \o s) >= Len(q) BY <1>5, <1>6
<1>13. Fifo(q \o s, m \cup S) BY <1>6, <1>10, <1>11 DEF Fifo
<1> QED BY <1>7, <1>9, <1>12, <1>13

(* Taking the first n keeps it one, and moves the others n places. *)
LEMMA ShiftFifo ==
  ASSUME NEW f, Fifo(f.queue, f.members), NEW n \in 0..Len(f.queue)
  PROVE  LET g == Shift(f, n)
         IN  /\ Fifo(g.queue, g.members)
             /\ g.members \subseteq f.members
             /\ Len(g.queue) = Len(f.queue) - n
             /\ \A i \in 1..Len(g.queue) : g.queue[i] = f.queue[i + n]
             /\ ToSet(g.taken) \subseteq f.members
             /\ \A i \in 1..n : f.queue[i] \in ToSet(g.taken)
<1> DEFINE q == f.queue
           t == SubSeq(q, 1, n)
           r == SubSeq(q, n + 1, Len(q))
           g == Shift(f, n)
<1>1. /\ q \in Seq(Account) /\ f.members = ToSet(q)
      /\ \A i, j \in 1..Len(q) : q[i] = q[j] => i = j
  BY DEF Fifo
<1>2. Len(q) \in Nat /\ n \in Nat /\ n <= Len(q) BY <1>1
<1>3. g.queue = r /\ g.taken = t /\ g.members = f.members \ ToSet(t) BY DEF Shift
<1>4. /\ t \in Seq(Account) /\ Len(t) = n /\ \A i \in 1..n : t[i] = q[i]
  BY <1>1, <1>2
<1>5. /\ r \in Seq(Account) /\ Len(r) = Len(q) - n
      /\ \A i \in 1..(Len(q) - n) : r[i] = q[i + n]
  BY <1>1, <1>2
<1> HIDE DEF q, t, r, g
<1>6. ToSet(t) = {q[i] : i \in 1..n} BY <1>4 DEF ToSet
<1>7. ToSet(r) = {q[i + n] : i \in 1..(Len(q) - n)} BY SMTT(30), <1>5 DEF ToSet
<1>8. ToSet(q) = {q[i] : i \in 1..Len(q)} BY <1>1 DEF ToSet
<1>9. ToSet(r) = ToSet(q) \ ToSet(t)
  <2>1. ASSUME NEW a \in ToSet(r) PROVE a \in ToSet(q) \ ToSet(t)
    <3>1. PICK i \in 1..(Len(q) - n) : a = q[i + n] BY <1>7
    <3>2. i + n \in 1..Len(q) /\ \A j \in 1..n : j \in 1..Len(q) /\ j # i + n BY <1>2
    <3> QED BY <3>1, <3>2, <1>1, <1>6, <1>8
  <2>2. ASSUME NEW a \in ToSet(q) \ ToSet(t) PROVE a \in ToSet(r)
    <3>1. PICK i \in 1..Len(q) : a = q[i] BY <1>8
    <3>2. i \notin 1..n BY <3>1, <1>6
    <3>3. i - n \in 1..(Len(q) - n) /\ (i - n) + n = i BY <3>2, <1>2
    <3> QED BY <3>1, <3>3, <1>7
  <2> QED BY <2>1, <2>2
<1>10. \A i, j \in 1..Len(r) : r[i] = r[j] => i = j
  <2> SUFFICES ASSUME NEW i \in 1..Len(r), NEW j \in 1..Len(r), r[i] = r[j] PROVE i = j
    OBVIOUS
  <2>1. i + n \in 1..Len(q) /\ j + n \in 1..Len(q) BY <1>2, <1>5
  <2>2. q[i + n] = q[j + n] BY <1>5
  <2>3. i + n = j + n BY <2>1, <2>2, <1>1
  <2> QED BY <2>3, <1>2
<1>11. Fifo(r, f.members \ ToSet(t)) BY <1>5, <1>9, <1>10, <1>1 DEF Fifo
<1>12. ToSet(t) \subseteq f.members
  <2>1. \A i \in 1..n : i \in 1..Len(q) BY <1>2
  <2> QED BY <2>1, <1>6, <1>8, <1>1
<1>13. \A i \in 1..n : q[i] \in ToSet(t) BY <1>6
<1>14. f.queue = q BY DEF q
<1>15. Shift(f, n) = g BY DEF g
<1> QED BY <1>3, <1>5, <1>11, <1>12, <1>13, <1>14, <1>15

(* The rows written are the newest. *)
LEMMA TouchedNewest ==
  ASSUME rows \subseteq Account, age \in [Account -> Nat], NEW S
  PROVE  /\ Touched(S) \in [Account -> Nat]
         /\ \A a \in S \cap Account, b \in Account :
               Touched(S)[a] > 0 /\ Touched(S)[b] <= Touched(S)[a]
<1> DEFINE before == {b \in rows \ S : age[b] > 0}
           older(a) == {b \in before : age[b] < age[a]}
<1>1. IsFiniteSet(before) BY FS_Subset, QueueAssumption
<1>2. Cardinality(before) \in Nat BY <1>1, FS_CardinalityType
<1>3. \A a : IsFiniteSet(older(a)) /\ Cardinality(older(a)) <= Cardinality(before)
  BY <1>1, FS_Subset
<1>4. \A a : Cardinality(older(a)) \in Nat
  BY <1>3, FS_CardinalityType
<1>5. Touched(S) = [a \in Account |->
          IF a \in S THEN 1 + Cardinality(before)
          ELSE IF age[a] = 0 THEN 0 ELSE 1 + Cardinality(older(a))]
  BY DEF Touched
<1> HIDE DEF before, older
<1>6. \A a \in Account : Touched(S)[a] \in Nat /\ Touched(S)[a] <= 1 + Cardinality(before)
  BY <1>2, <1>3, <1>4, <1>5
<1>7. \A a \in S \cap Account : Touched(S)[a] = 1 + Cardinality(before)
  BY <1>5
<1>8. Touched(S) \in [Account -> Nat] BY <1>5, <1>6
<1> QED BY <1>2, <1>6, <1>7, <1>8
-----------------------------------------------------------------------------
(* The invariant: the queue is a UniqueFIFO of registered accounts, and fast
   sync has a chunk left. *)
IInv ==
    /\ TypeOK
    /\ Fifo(queue, members)
    /\ members \subseteq rows
    /\ pc = "fast" => chunks > 0

LEMMA InitIInv == Init => IInv
<1> SUFFICES ASSUME Init PROVE IInv OBVIOUS
<1>1. queue = <<>> /\ members = {} BY DEF Init
<1>2. Fifo(queue, members) BY <1>1 DEF Fifo, ToSet
<1>3. TypeOK BY QueueAssumption DEF Init, TypeOK, Phases
<1> QED BY <1>1, <1>2, <1>3 DEF IInv, Init

(* Marking registered accounts. *)
LEMMA MarkFifo ==
  ASSUME IInv, NEW S \in SUBSET rows', rows \subseteq rows', rows' \subseteq Account, Mark(S)
  PROVE  /\ Fifo(queue, members)'
         /\ members' \subseteq rows'
         /\ queue' \in Seq(Account)
<1>1. PICK f \in Added(queue, members, S) : queue' = f.queue /\ members' = f.members
  BY DEF Mark
<1>2. Fifo(f.queue, f.members) /\ f.members = members \cup S
  BY AddedFifo DEF IInv
<1>3. Fifo(queue', members') BY <1>1, <1>2
<1> QED BY <1>1, <1>2, <1>3 DEF Fifo, IInv, ToSet

(* The queue of a live block: what it marks, then all but a portion of the
   queue, then the authors it pays. *)
LEMMA LiveBlockQueue ==
  ASSUME IInv, LiveBlock
  PROVE  \E S \in SUBSET rows', authors \in SUBSET rows :
            \E f \in Added(queue, members, S) :
               LET g == Shift(f, Portion(Len(f.queue)))
               IN \E h \in Added(g.queue, g.members, authors) :
                   /\ queue' = h.queue /\ members' = h.members
                   /\ age' = Touched(ToSet(g.taken))
                   /\ Fifo(f.queue, f.members) /\ f.members \subseteq rows'
                   /\ Len(f.queue) >= Len(queue)
                   /\ \A i \in 1..Len(queue) : f.queue[i] = queue[i]
                   /\ Portion(Len(f.queue)) \in 0..Len(f.queue)
                   /\ Len(f.queue) > 0 => Portion(Len(f.queue)) > 0
                   /\ Fifo(g.queue, g.members) /\ g.members \subseteq f.members
                   /\ ToSet(g.taken) \subseteq f.members
                   /\ Fifo(h.queue, h.members) /\ h.members = g.members \cup authors
                   /\ Len(h.queue) >= Len(g.queue)
                   /\ \A i \in 1..Len(g.queue) : h.queue[i] = g.queue[i]
<1>1. PICK S \in SUBSET rows', authors \in SUBSET rows :
        \E f \in Added(queue, members, S) :
            LET g == Shift(f, Portion(Len(f.queue)))
            IN \E h \in Added(g.queue, g.members, authors) :
                 /\ queue' = h.queue /\ members' = h.members
                 /\ age' = Touched(ToSet(g.taken))
  BY DEF LiveBlock, Register
<1>2. PICK f \in Added(queue, members, S) :
            LET g == Shift(f, Portion(Len(f.queue)))
            IN \E h \in Added(g.queue, g.members, authors) :
                 /\ queue' = h.queue /\ members' = h.members
                 /\ age' = Touched(ToSet(g.taken))
  BY <1>1
<1> DEFINE n == Portion(Len(f.queue))
           g == Shift(f, n)
<1>3. PICK h \in Added(g.queue, g.members, authors) :
                 /\ queue' = h.queue /\ members' = h.members
                 /\ age' = Touched(ToSet(g.taken))
  BY <1>2
<1>4. rows \subseteq Account /\ rows' \subseteq Account /\ rows \subseteq rows'
  BY DEF LiveBlock, Register, IInv, TypeOK
<1>5. /\ Fifo(f.queue, f.members) /\ f.members = members \cup S
      /\ Len(f.queue) >= Len(queue)
      /\ \A i \in 1..Len(queue) : f.queue[i] = queue[i]
  BY <1>4, AddedFifo DEF IInv
<1>6. f.members \subseteq rows' BY <1>4, <1>5 DEF IInv
<1>7. Len(f.queue) \in Nat BY <1>5 DEF Fifo
<1>8. n \in 0..Len(f.queue) /\ (Len(f.queue) > 0 => n > 0) BY <1>7, PortionRange
<1>9. /\ Fifo(g.queue, g.members) /\ g.members \subseteq f.members
      /\ ToSet(g.taken) \subseteq f.members
  BY <1>5, <1>8, ShiftFifo
<1> HIDE DEF g
<1>10. /\ Fifo(h.queue, h.members) /\ h.members = g.members \cup authors
       /\ Len(h.queue) >= Len(g.queue)
       /\ \A i \in 1..Len(g.queue) : h.queue[i] = g.queue[i]
  BY <1>4, <1>9, AddedFifo
<1>11. g = Shift(f, Portion(Len(f.queue))) BY DEF g
<1> QED BY ZenonT(30), <1>3, <1>5, <1>6, <1>8, <1>9, <1>10, <1>11

LEMMA NextIInv == IInv /\ [Next]_vars => IInv'
<1> SUFFICES ASSUME IInv, [Next]_vars PROVE IInv' OBVIOUS
<1> USE QueueAssumption
<1>0. /\ TypeOK /\ Fifo(queue, members) /\ members \subseteq rows
      /\ pc = "fast" => chunks > 0
  BY DEF IInv
<1>1. ASSUME queue' = queue, members' = members, rows' = rows
      PROVE  Fifo(queue, members)' /\ members' \subseteq rows'
  BY <1>0, <1>1 DEF Fifo, ToSet
<1>2. ASSUME queue' = <<>>, members' = {} PROVE Fifo(queue, members)' /\ members' \subseteq rows'
  BY <1>2 DEF Fifo, ToSet
<1>3. CASE Change
  <2>1. TypeOK' BY <1>0, <1>3 DEF Change, TypeOK, queueVars
  <2> QED BY <1>0, <1>1, <1>3, <2>1 DEF Change, IInv, queueVars
<1>4. CASE Start
  <2>1. TypeOK' BY <1>0, <1>4 DEF Start, Catchup, TypeOK, Phases, queueVars, rowVars
  <2>2. pc' = "fast" => chunks' > 0 BY <1>4 DEF Start, Catchup
  <2> QED BY <1>1, <1>4, <2>1, <2>2 DEF Start, IInv, queueVars, rowVars
<1>5. CASE FastChunk
  <2>1. PICK new \in SUBSET (Account \ rows) :
          /\ rows' = rows \cup new
          /\ stale' = stale \cup new
          /\ \E S \in SUBSET rows' : Mark(S)
    BY <1>5 DEF FastChunk, Register
  <2>2. /\ Fifo(queue, members)' /\ members' \subseteq rows' /\ queue' \in Seq(Account)
    BY <2>1, <1>0, MarkFifo DEF TypeOK
  <2>3. chunks' \in 0..MaxChunks /\ pc' \in Phases /\ (pc' = "fast" => chunks' > 0)
    BY <1>0, <1>5 DEF FastChunk, Register, LastChunk, TypeOK, Phases
  <2>4. TypeOK' BY <1>0, <1>5, <2>1, <2>2, <2>3 DEF FastChunk, Register, TypeOK
  <2> QED BY <2>2, <2>3, <2>4 DEF IInv
<1>6. CASE TakeAll
  <2>1. TypeOK' BY <1>0, <1>6 DEF TakeAll, TypeOK, rowVars
  <2> QED BY <1>0, <1>2, <1>6, <2>1 DEF TakeAll, IInv, rowVars
<1>7. CASE WriteBatch
  <2> DEFINE n == IF Len(work) < Batch THEN Len(work) ELSE Batch
             done == ToSet(SubSeq(work, 1, n))
  <2>1. /\ stale' = stale \ done /\ age' = Touched(done)
        /\ work' = SubSeq(work, n + 1, Len(work))
        /\ pc' = IF work' = <<>> THEN "backlog" ELSE "flush"
        /\ UNCHANGED <<rows, queueVars, num, chunks, breaks>>
    BY <1>7 DEF WriteBatch
  <2>2. age' \in [Account -> Nat]
    <3> HIDE DEF done
    <3> QED BY <2>1, <1>0, TouchedNewest DEF TypeOK
  <2>3. work' \in Seq(Account)
    <3>1. work \in Seq(Account) BY <1>0 DEF TypeOK
    <3>2. Len(work) \in Nat BY <3>1
    <3>3. n \in Nat BY <3>2
    <3> HIDE DEF n
    <3> QED BY <2>1, <3>1, <3>2, <3>3
  <2> HIDE DEF n, done
  <2>4. TypeOK' BY <1>0, <2>1, <2>2, <2>3 DEF TypeOK, Phases, queueVars
  <2> QED BY <1>1, <2>1, <2>4 DEF IInv, queueVars
<1>8. CASE NothingToFlush
  <2>1. TypeOK' BY <1>0, <1>8 DEF NothingToFlush, TypeOK, Phases, queueVars, rowVars
  <2> QED BY <1>1, <1>8, <2>1 DEF NothingToFlush, IInv, queueVars, rowVars
<1>9. CASE Backlog
  <2>1. /\ Fifo(queue, members)' /\ members' \subseteq rows' /\ queue' \in Seq(Account)
    BY <1>0, <1>9, MarkFifo DEF Backlog, TypeOK, rowVars
  <2>2. TypeOK' BY <1>0, <1>9, <2>1 DEF Backlog, TypeOK, Phases, rowVars
  <2> QED BY <1>9, <2>1, <2>2 DEF Backlog, IInv
<1>10. CASE LiveBlock
  <2>1. /\ Fifo(queue, members)' /\ members' \subseteq rows' /\ queue' \in Seq(Account)
        /\ age' \in [Account -> Nat]
    <3>1. PICK S \in SUBSET rows', authors \in SUBSET rows : \E f \in Added(queue, members, S) :
               LET g == Shift(f, Portion(Len(f.queue)))
               IN \E h \in Added(g.queue, g.members, authors) :
                   /\ queue' = h.queue /\ members' = h.members
                   /\ age' = Touched(ToSet(g.taken))
                   /\ f.members \subseteq rows' /\ g.members \subseteq f.members
                   /\ Fifo(h.queue, h.members) /\ h.members = g.members \cup authors
      BY ZenonT(30), <1>10, LiveBlockQueue
    <3>2. PICK h, T : /\ queue' = h.queue /\ members' = h.members
                      /\ age' = Touched(T)
                      /\ Fifo(h.queue, h.members) /\ h.members \subseteq rows' \cup rows
      BY <3>1
    <3>3. rows \subseteq rows' BY <1>10 DEF LiveBlock, Register
    <3>4. age' \in [Account -> Nat] BY <3>2, <1>0, TouchedNewest DEF TypeOK
    <3>5. Fifo(queue', members') BY <3>2
    <3> QED BY <3>2, <3>3, <3>4, <3>5 DEF Fifo, ToSet
  <2>2. rows' \subseteq Account /\ stale' \subseteq rows'
    BY <1>0, <1>10 DEF LiveBlock, Register, TypeOK
  <2>3. num' \in 0..(SweepEvery - 1) BY <1>0, <1>10 DEF LiveBlock, Register, TypeOK
  <2>4. pc' \in {"live", "sweep"} /\ UNCHANGED <<work, chunks, breaks>>
    BY <1>10 DEF LiveBlock, Register
  <2>5. TypeOK' BY <1>0, <2>1, <2>2, <2>3, <2>4 DEF TypeOK, Phases, Fifo, ToSet
  <2> QED BY <2>1, <2>4, <2>5 DEF IInv
<1>11. CASE Sweep
  <2>1. PICK S \in SUBSET rows : Mark(S) BY <1>11 DEF Sweep
  <2>2. /\ Fifo(queue, members)' /\ members' \subseteq rows' /\ queue' \in Seq(Account)
    BY <1>0, <1>11, <2>1, MarkFifo DEF Sweep, TypeOK, rowVars
  <2>3. TypeOK' BY <1>0, <1>11, <2>2 DEF Sweep, TypeOK, Phases, rowVars
  <2> QED BY <1>11, <2>2, <2>3 DEF Sweep, IInv
<1>12. CASE LeaveLive
  <2>1. TypeOK' BY <1>0, <1>12 DEF LeaveLive, Catchup, TypeOK, Phases, queueVars, rowVars
  <2>2. pc' = "fast" => chunks' > 0 BY <1>12 DEF LeaveLive, Catchup
  <2> QED BY <1>1, <1>12, <2>1, <2>2 DEF LeaveLive, IInv, queueVars, rowVars
<1>13. CASE Crash
  <2>1. TypeOK' BY <1>0, <1>13 DEF Crash, TypeOK, Phases, rowVars
  <2> QED BY <1>2, <1>13, <2>1 DEF Crash, IInv
<1>14. CASE UNCHANGED vars
  <2>1. TypeOK' BY <1>0, <1>14 DEF TypeOK, vars, queueVars, rowVars
  <2> QED BY <1>0, <1>1, <1>14, <2>1 DEF IInv, vars, queueVars, rowVars
<1> QED
  BY <1>3, <1>4, <1>5, <1>6, <1>7, <1>8, <1>9, <1>10, <1>11, <1>12, <1>13, <1>14
  DEF Next, IndexerStep

(* The types of the state. *)
THEOREM TypeCorrect == Spec => []TypeOK
<1>1. IInv => TypeOK BY DEF IInv
<1> QED BY <1>1, InitIInv, NextIInv, PTL DEF Spec

(* The set that UniqueFIFO asks is that of its queue, which has no account
   twice, whatever is marked, taken and lost. *)
THEOREM UniqueFIFOCorrect == Spec => []QueueMatchesSet
<1>1. IInv => QueueMatchesSet BY DEF IInv, Fifo, QueueMatchesSet
<1> QED BY <1>1, InitIInv, NextIInv, PTL DEF Spec

(* A live block: what it writes is newest, and the rest moves forward. *)
LEMMA LiveBlockAdvances ==
  ASSUME IInv, LiveBlock, NEW i \in 1..Len(queue)
  PROVE  queue[i] \in Newest' \/ \E j \in 1..(i - 1) : queue'[j] = queue[i]
<1>1. PICK S \in SUBSET rows', authors \in SUBSET rows : \E f \in Added(queue, members, S) :
               LET g == Shift(f, Portion(Len(f.queue)))
               IN \E h \in Added(g.queue, g.members, authors) :
                   /\ queue' = h.queue
                   /\ age' = Touched(ToSet(g.taken))
                   /\ Fifo(f.queue, f.members) /\ f.members \subseteq rows'
                   /\ Len(f.queue) >= Len(queue)
                   /\ \A k \in 1..Len(queue) : f.queue[k] = queue[k]
                   /\ Portion(Len(f.queue)) \in 0..Len(f.queue)
                   /\ Len(f.queue) > 0 => Portion(Len(f.queue)) > 0
                   /\ ToSet(g.taken) \subseteq f.members
                   /\ Len(h.queue) >= Len(g.queue)
                   /\ \A k \in 1..Len(g.queue) : h.queue[k] = g.queue[k]
  BY ZenonT(30), LiveBlockQueue
<1>2. PICK f \in Added(queue, members, S) :
               LET g == Shift(f, Portion(Len(f.queue)))
               IN \E h \in Added(g.queue, g.members, authors) :
                   /\ queue' = h.queue
                   /\ age' = Touched(ToSet(g.taken))
                   /\ Fifo(f.queue, f.members) /\ f.members \subseteq rows'
                   /\ Len(f.queue) >= Len(queue)
                   /\ \A k \in 1..Len(queue) : f.queue[k] = queue[k]
                   /\ Portion(Len(f.queue)) \in 0..Len(f.queue)
                   /\ Len(f.queue) > 0 => Portion(Len(f.queue)) > 0
                   /\ ToSet(g.taken) \subseteq f.members
                   /\ Len(h.queue) >= Len(g.queue)
                   /\ \A k \in 1..Len(g.queue) : h.queue[k] = g.queue[k]
  BY <1>1
<1> DEFINE n == Portion(Len(f.queue))
           g == Shift(f, n)
<1>3. /\ queue[i] \in rows'
      /\ Len(queue) \in Nat /\ Len(f.queue) \in Nat
  BY <1>2 DEF IInv, Fifo, ToSet, LiveBlock, Register
<1>4. n \in 1..Len(f.queue) BY <1>2, <1>3
<1>5. /\ Len(g.queue) = Len(f.queue) - n
      /\ \A k \in 1..Len(g.queue) : g.queue[k] = f.queue[k + n]
      /\ \A k \in 1..n : f.queue[k] \in ToSet(g.taken)
  BY <1>2, <1>4, ShiftFifo
<1>6. /\ age' = Touched(ToSet(g.taken)) /\ ToSet(g.taken) \subseteq rows'
      /\ Len(queue') >= Len(g.queue)
      /\ \A k \in 1..Len(g.queue) : queue'[k] = g.queue[k]
  BY <1>2
<1>7. f.queue[i] = queue[i] /\ i \in 1..Len(f.queue) BY <1>2, <1>3
<1> HIDE DEF n, g
<1>8. CASE i <= n
  <2>1. i \in 1..n BY <1>8, <1>4, <1>7
  <2>2. queue[i] \in ToSet(g.taken) BY <2>1, <1>5, <1>7
  <2>3. rows \subseteq Account /\ rows' \subseteq Account /\ age \in [Account -> Nat]
    BY DEF LiveBlock, Register, IInv, TypeOK
  <2>4. \A b \in rows' : age'[queue[i]] > 0 /\ age'[b] <= age'[queue[i]]
    BY <2>2, <2>3, <1>3, <1>6, TouchedNewest
  <2> QED BY <2>4, <1>3 DEF Newest
<1>9. CASE ~(i <= n)
  <2>1. i - n \in 1..Len(g.queue) /\ i - n \in 1..(i - 1) /\ (i - n) + n = i
    BY <1>9, <1>4, <1>5, <1>7, <1>3
  <2>2. queue'[i - n] = queue[i] BY <2>1, <1>5, <1>6, <1>7
  <2> QED BY <2>1, <2>2
<1> QED BY <1>8, <1>9

(* No account waits for more live blocks than its place in the queue, for any
   portion and whatever the blocks and the payouts mark. *)
THEOREM QueueAdvances == Spec => EveryBlockAdvances
<1> DEFINE Advance ==
      pc = "live" /\ num' # num =>
        \A i \in 1..Len(queue) :
            queue[i] \in Newest' \/ \E j \in 1..(i - 1) : queue'[j] = queue[i]
<1>1. IInv /\ [Next]_vars => [Advance]_vars
  <2> SUFFICES ASSUME IInv, Next, pc = "live", num' # num PROVE Advance
    BY DEF vars
  <2>1. LiveBlock
    BY DEF Next, IndexerStep, Change, Start, FastChunk, TakeAll, WriteBatch, NothingToFlush,
           Backlog, Sweep, LeaveLive, Crash
  <2> QED BY <2>1, LiveBlockAdvances
<1>2. EveryBlockAdvances <=> [][Advance]_vars
  BY DEF EveryBlockAdvances
<1> QED BY <1>1, <1>2, InitIInv, NextIInv, PTL DEF Spec
=============================================================================
