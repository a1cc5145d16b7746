----------------------------- MODULE NodeClient -----------------------------
(***************************************************************************)
(* The client of the chain's API nodes.  A batch is cut into chunks that   *)
(* worker threads fetch side by side, each retrying on its own, while the  *)
(* caller reads the results in the order it asked for them; the names of   *)
(* all accounts are read page by page while accounts are created, from     *)
(* nodes of which some may not know the latest ones.                       *)
(***************************************************************************)
EXTENDS Integers, Sequences, FiniteSets, SequencesExt, Functions

CONSTANTS
    Workers,       \* the threads of the pool
    Main,          \* the caller's thread
    Nodes,         \* the nodes HttpClient is given, in turn; WorthClient gives it one
    MaxTries,      \* 100
    Batches,       \* what may be asked for: [method, params, size]
    Names,         \* the names of accounts that may exist: numbers, as they sort
    PageSize,      \* the limit of lookup_accounts: 1000
    MaxLag         \* how many of the latest accounts a node may not know yet

ASSUME NodeClientAssumption ==
    /\ Main \notin Workers
    /\ Workers # {}
    /\ Len(Nodes) \in Nat \ {0} /\ DOMAIN Nodes = 1 .. Len(Nodes)
    /\ MaxTries \in Nat /\ MaxTries >= 2 * Len(Nodes) - 1
    /\ \A b \in Batches : b.params \in Seq(Nat \ {0}) /\ b.params # <<>> /\ b.size \in Nat \ {0}
    /\ Names \subseteq Nat \ {0} /\ IsFiniteSet(Names)
    /\ PageSize \in Nat /\ PageSize > 1
    /\ MaxLag \in Nat

VARIABLES
    phase,         \* what the caller does
    batch,         \* what it asked for
    futures,       \* the state and the results of each chunk
    yielded,       \* how many chunks the caller has read
    result,        \* what it has read
    threads,       \* each thread's call
    turn,          \* the current node, a position in Nodes
    created,       \* the names on the chain, as they were created
    known          \* those every node had when the caller began

vars == <<phase, batch, futures, yielded, result, threads, turn, created, known>>

Threads == Workers \cup {Main}
Methods == {"get_content", "get_block"}
NoBlock == 0

Idle == [pc |-> "idle", chunk |-> 0, lower |-> 0, tries |-> 0,
         called |-> {}, alone |-> TRUE]
Started(chunk, lower) == [Idle EXCEPT !.pc = "send", !.chunk = chunk, !.lower = lower]
Resting == phase \in {"new", "returned", "raised"}

-----------------------------------------------------------------------------
(* What a node may answer, and what the client makes of it. *)

Chunks ==
    LET n == Len(batch.params)
        size == batch.size
    IN [i \in 1 .. (n + size - 1) \div size |->
            SubSeq(batch.params, (i - 1) * size + 1,
                   IF i * size < n THEN i * size ELSE n)]

\* A fault is a lost or late answer, a bad status, or no JSON, or one error for
\* all; an item carries the number of its request.
Fault == [fault |-> TRUE, items |-> <<>>]
Good(n) == [i \in 1 .. n |-> [id |-> i, has |-> "result"]]
Answers(n) ==
    {Fault} \cup
    {[fault |-> FALSE, items |-> s] : s \in
        {Good(n), Front(Good(n)), Reverse(Good(n))}
        \cup {[Good(n) EXCEPT ![i].has = h] : i \in 1 .. n, h \in {"error", "nothing"}}}

\* is_recoverable: every error is.
ErrorVerdict == "retry"

\* "raise" is an AssertionError, "retry" any other exception.
Verdict(answer, n) ==
    LET items == answer.items
        bad == {i \in DOMAIN items : items[i].has # "result"}
    IN CASE answer.fault -> "retry"
         [] ~answer.fault /\ (Len(items) # n \/ \E i \in DOMAIN items : items[i].id # i) -> "raise"
         [] OTHER ->
              IF bad = {} THEN "ok"
              ELSE IF items[CHOOSE i \in bad : \A j \in bad : i <= j].has = "error"
              THEN ErrorVerdict ELSE "raise"

\* A node that is behind has no block where others have one.
Contents(params, head) ==
    [i \in DOMAIN params |->
        IF batch.method = "get_block" /\ params[i] > head THEN NoBlock ELSE params[i]]
Heads == {batch.params[Len(batch.params)] - 1, batch.params[Len(batch.params)]}

Ascending(S) ==
    CHOOSE s \in [1 .. Cardinality(S) -> S] : \A i, j \in DOMAIN s : i < j => s[i] < s[j]

NamesUpTo(k) == {created[i] : i \in 1 .. k}
Settled == IF Len(created) > MaxLag THEN Len(created) - MaxLag ELSE 0

\* The page of a node that has these names.
Page(names, lower) ==
    LET from == Ascending({n \in names : n >= lower})
    IN SubSeq(from, 1, IF Len(from) < PageSize THEN Len(from) ELSE PageSize)

-----------------------------------------------------------------------------
(* A thread's call: exec. *)

Init ==
    /\ phase = "new"
    /\ batch \in Batches
    /\ futures = <<>> /\ yielded = 0 /\ result = <<>>
    /\ threads = [t \in Threads |-> Idle]
    /\ turn = 1
    /\ created \in UNION {{s \in [1 .. Cardinality(S) -> S] : IsInjective(s)} : S \in SUBSET Names}
    /\ known = {}

TriesReset(t) == 1
Tries(t) == threads[t].tries + 1

Send(t) ==
    /\ threads[t].pc = "send"
    /\ threads' = [threads EXCEPT
           ![t].pc = "wait", ![t].tries = Tries(t),
           ![t].called = @ \cup {turn}]
    /\ UNCHANGED <<phase, batch, futures, yielded, result, turn, created, known>>

\* The answer to a worker: results, an AssertionError, or a try that failed.
Receive(w) ==
    /\ threads[w].pc = "wait"
    /\ LET chunk == Chunks[threads[w].chunk] IN
       \E answer \in Answers(Len(chunk)), head \in Heads :
         LET verdict == Verdict(answer, Len(chunk)) IN
           /\ threads' = [threads EXCEPT
                 ![w] = IF verdict = "retry" THEN [@ EXCEPT !.pc = "failed"] ELSE Idle]
           /\ futures' = CASE verdict = "ok" ->
                               [futures EXCEPT ![threads[w].chunk] =
                                   [state |-> "done", items |-> Contents(chunk, head)]]
                           [] verdict = "raise" ->
                               [futures EXCEPT ![threads[w].chunk].state = "raised"]
                           [] OTHER -> futures
    /\ UNCHANGED <<phase, batch, yielded, result, turn, created, known>>

\* After a failed try: the next node after every second, a pause, and another
\* try or, after the last, an exception.
SwitchesLast(t) == threads[t].tries % MaxTries = 0
Switches(t) == threads[t].tries % 2 = 0
AgainOnce(t) == threads[t].tries <= MaxTries
Again(t) == threads[t].tries < MaxTries

Retry(t) ==
    /\ threads[t].pc = "failed"
    /\ turn' = IF Switches(t) THEN (turn % Len(Nodes)) + 1 ELSE turn
    /\ threads' = [u \in Threads |->
           IF u = t THEN [threads[t] EXCEPT !.pc = IF Again(t) THEN "send" ELSE "gaveup"]
           ELSE IF Switches(t) THEN [threads[u] EXCEPT !.alone = FALSE]
           ELSE threads[u]]
    /\ UNCHANGED <<phase, batch, futures, yielded, result, created, known>>

\* The exception reaches the future, or the caller.
GiveUp(t) ==
    /\ threads[t].pc = "gaveup"
    /\ threads' = [threads EXCEPT ![t] = Idle]
    /\ IF t = Main
       THEN phase' = "raised" /\ UNCHANGED futures
       ELSE /\ futures' = [futures EXCEPT ![threads[t].chunk].state = "raised"]
            /\ UNCHANGED phase
    /\ UNCHANGED <<batch, yielded, result, turn, created, known>>

-----------------------------------------------------------------------------
(* A batch: get_content_batch and get_blocks_range. *)

Call(b) ==
    /\ Resting
    /\ batch' = b
    /\ phase' = "reading"
    /\ yielded' = 0 /\ result' = <<>>
    /\ futures' = [i \in 1 .. Len(Chunks') |-> [state |-> "pending", items |-> <<>>]]
    /\ known' = {}
    /\ UNCHANGED <<threads, turn, created>>

Pending == {i \in DOMAIN futures : futures[i].state = "pending"}

Take(w) ==
    /\ threads[w].pc = "idle" /\ Pending # {}
    /\ LET i == CHOOSE i \in Pending : \A j \in Pending : i <= j IN
           /\ futures' = [futures EXCEPT ![i].state = "running"]
           /\ threads' = [threads EXCEPT ![w] = Started(i, 0)]
    /\ UNCHANGED <<phase, batch, yielded, result, turn, created, known>>

\* The chunks the caller may read next: executor.map keeps the order.
ReadyAsCompleted == {i \in DOMAIN futures : futures[i].state \in {"done", "raised"}}
ReadyDone == {i \in {yielded + 1} \cap DOMAIN futures : futures[i].state = "done"}
Ready == {i \in {yielded + 1} \cap DOMAIN futures : futures[i].state \in {"done", "raised"}}

\* An exception cancels what no worker has begun; the pool is then shut down.
Read ==
    /\ phase = "reading"
    /\ \E i \in Ready :
         IF futures[i].state = "done"
         THEN /\ result' = result \o futures[i].items
              /\ yielded' = yielded + 1
              /\ futures' = [futures EXCEPT ![i].state = "read"]
              /\ phase' = IF yielded' = Len(futures) THEN "closing" ELSE phase
         ELSE /\ phase' = "failing"
              /\ futures' = [j \in DOMAIN futures |->
                     IF j \in Pending THEN [futures[j] EXCEPT !.state = "cancelled"]
                     ELSE futures[j]]
              /\ UNCHANGED <<result, yielded>>
    /\ UNCHANGED <<batch, threads, turn, created, known>>

\* The pool waits for its threads; then the blocks are put in order, or one is
\* found missing.
QuietIfWell == phase = "failing" \/ \A w \in Workers : threads[w].pc = "idle"
Quiet == \A w \in Workers : threads[w].pc = "idle"

Sane == batch.method = "get_block" => \A i \in DOMAIN result : result[i] # NoBlock

Close ==
    /\ phase \in {"closing", "failing"}
    /\ Quiet
    /\ phase' = IF phase = "closing" /\ Sane THEN "returned" ELSE "raised"
    /\ UNCHANGED <<batch, futures, yielded, result, threads, turn, created, known>>

-----------------------------------------------------------------------------
(* The names of all accounts: get_all_account_names. *)

CallNames ==
    /\ Resting
    /\ phase' = "names"
    /\ result' = <<>>
    /\ known' = NamesUpTo(Settled)
    /\ threads' = [threads EXCEPT ![Main] = Started(0, 0)]
    /\ futures' = <<>> /\ yielded' = 0
    /\ UNCHANGED <<batch, turn, created>>

\* Of all but the first page the first name is dropped, whichever it is: that of
\* a node that has the last name given is that name.
NewNamesWhole(names, lower) == Page(names, lower)
NewNames(names, lower) ==
    LET page == Page(names, lower)
    IN IF lower = 0 THEN page ELSE SubSeq(page, 2, Len(page))

ReceiveNames ==
    /\ threads[Main].pc = "wait"
    /\ UNCHANGED <<batch, futures, yielded, turn, created, known>>
    /\ \/ /\ threads' = [threads EXCEPT ![Main].pc = "failed"]      \* a fault or an error
          /\ UNCHANGED <<phase, result>>
       \/ /\ threads' = [threads EXCEPT ![Main] = Idle]             \* an AssertionError
          /\ phase' = "raised"
          /\ UNCHANGED result
       \/ \E k \in Settled .. Len(created) :                        \* a page
           LET names == NewNames(NamesUpTo(k), threads[Main].lower) IN
             /\ result' = result \o names
             /\ IF names = <<>>
                THEN /\ threads' = [threads EXCEPT ![Main] = Idle]
                     /\ phase' = "returned"
                ELSE /\ threads' = [threads EXCEPT ![Main] = Started(0, Last(names))]
                     /\ UNCHANGED phase

NewAccount ==
    /\ \E n \in Names \ ToSet(created) : created' = Append(created, n)
    /\ UNCHANGED <<phase, batch, futures, yielded, result, threads, turn, known>>

-----------------------------------------------------------------------------
WorkerStep(w) == Take(w) \/ Send(w) \/ Receive(w) \/ Retry(w) \/ GiveUp(w)
MainStep == Read \/ Close \/ Send(Main) \/ ReceiveNames \/ Retry(Main) \/ GiveUp(Main)

Next ==
    \/ \E b \in Batches : Call(b)
    \/ CallNames
    \/ MainStep
    \/ \E w \in Workers : WorkerStep(w)
    \/ NewAccount

Spec == Init /\ [][Next]_vars

\* Threads run, and a call to a node is answered or times out after 30 seconds.
FairSpec == Spec /\ WF_vars(MainStep) /\ \A w \in Workers : WF_vars(WorkerStep(w))

-----------------------------------------------------------------------------
(* Properties. *)

\* Every variable holds a value of its type; no thread tries more often than
\* exec allows, and each works on a chunk that exists and is running.
TypeOK ==
    /\ phase \in {"new", "reading", "closing", "failing", "names", "returned", "raised"}
    /\ batch \in Batches
    /\ \A i \in DOMAIN futures :
          futures[i].state \in {"pending", "running", "done", "raised", "read", "cancelled"}
    /\ yielded \in 0 .. Len(futures)
    /\ turn \in DOMAIN Nodes
    /\ created \in Seq(Names) /\ known \subseteq NamesUpTo(Settled)
    /\ \A t \in Threads :
          /\ threads[t].pc \in {"idle", "send", "wait", "failed", "gaveup"}
          /\ threads[t].tries \in 0 .. MaxTries
          /\ threads[t].called \subseteq DOMAIN Nodes
          /\ threads[t].pc # "idle" /\ t # Main => futures[threads[t].chunk].state = "running"

\* A batch that returns holds the answer to each request, once and in the
\* order of the requests, however often chunks were tried and whichever thread
\* was first (client.py get_content_batch asks "how are we ensuring sequential
\* results?"): what has been read is always a beginning of it, and a missing
\* block is never passed on.
InOrder ==
    /\ phase = "returned" /\ futures # <<>> => result = batch.params
    /\ phase \in {"reading", "closing"} =>
          \A i \in DOMAIN result : result[i] \in {batch.params[i], NoBlock}

\* When the caller has its result or its exception, no thread works for it any
\* more: nothing it asked for is still under way when it goes on, or starts over
\* (http_client.py exec_multi).
NothingLeftRunning ==
    Resting => \A w \in Workers : threads[w].pc = "idle"

\* A thread that gives up has called every node, unless another thread switched
\* the node in the meantime: the two share one cycle (http_client.py next_node).
EveryNodeCalled ==
    \A t \in Threads :
        threads[t].pc = "gaveup" /\ threads[t].alone => threads[t].called = DOMAIN Nodes

\* The names come sorted and without repetition, though accounts are created
\* between two pages, and of those that every node had at the start none is left
\* out: but that one may be that comes next after a newer account, when the page
\* after that account is from a node that does not know it yet (client.py
\* get_all_account_names drops a page's first name unseen).
NamesInOrder ==
    LET given == {result[i] : i \in DOMAIN result} IN
    phase \in {"names", "returned"} /\ futures = <<>> =>
        /\ \A i, j \in DOMAIN result : i < j => result[i] < result[j]
        /\ \A n \in known \ given :
              \/ phase = "names" /\ \A g \in given : g < n
              \/ /\ MaxLag > 0
                 /\ \E g \in given \ known :
                       g < n /\ \A m \in given \cup known : ~(g < m /\ m < n)

\* "Fetch all account names." (client.py:33): a list that is returned has every
\* name that all nodes had at the start.
NamesComplete ==
    phase = "returned" /\ futures = <<>> => known \subseteq {result[i] : i \in DOMAIN result}

\* Every call ends, with a result or an exception (exec's tries are bounded, a
\* pool is shut down, and pages run out).
Ends == ~Resting ~> Resting
=============================================================================
