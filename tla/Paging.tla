------------------------------- MODULE Paging -------------------------------
(***************************************************************************)
(* A client walks through a list page by page, starting each page from the *)
(* last item it was given, while blocks change the tables.  A request asks *)
(* for the ids of a page first and loads the posts of these ids later.     *)
(***************************************************************************)
EXTENDS Listings

CONSTANTS
    Walks,         \* the listings to walk
    Limits         \* the limits of requests

ASSUME PagingAssumption ==
    /\ Limits \subseteq Nat \ {0}
    /\ \A l \in Walks : \E a \in Accounts :
          l \in CondenserListings(a, {l.tag}) \cup BridgeListings(a, {l.tag})

VARIABLES
    phase,         \* "idle", "ask", "load" or "done"
    list,          \* the listing walked
    limit,         \* the limit of every request of the walk
    start,         \* the last item of the page before
    number,        \* how many pages before this one
    page,          \* the ids of the page asked for
    \* what the properties watch
    seen,          \* the items given so far
    again,         \* items given more than once
    ahead,         \* items put before the first page
    steady,        \* items shown, with one field, ever since the walk began
    calm,          \* rows a page may go on from: see Ask
    full,          \* the last page had as many rows as asked for
    lost           \* a page was sought from an item, or an offset, that had moved

walk == <<phase, list, limit, start, number, page, seen, again, ahead, full, lost>>
vars == <<tableVars, walk, steady, calm>>

Init ==
    /\ TablesInit
    /\ phase = "idle"
    /\ list \in Walks
    /\ limit \in Limits
    /\ start = NoItem
    /\ number = 0
    /\ page = <<>>
    /\ seen = {} /\ again = {} /\ ahead = {} /\ steady = {} /\ calm = {}
    /\ full = FALSE /\ lost = FALSE

Visible(l) == {p \in Rows(l, NoItem) : Shown(l, p)}

\* An offset stands for the rows before it: none may have come, gone or moved,
\* and no two be of one date.
Quiet(l) ==
    /\ steady = Visible(l) /\ seen \subseteq steady
    /\ \A p, q \in steady : Value(l, p) = Value(l, q) => p = q

-----------------------------------------------------------------------------
Begin ==
    /\ phase = "idle" /\ phase' = "ask"
    /\ steady' = IF Closed(list) THEN {} ELSE Visible(list)
    /\ UNCHANGED <<tableVars, list, limit, start, number, page, seen, again, ahead, full, lost, calm>>

\* The ids of a page; those the operators want first come first.  The walk may
\* go on from a row that has not been put there, and whose field is the one a
\* page is sought by.
Ask ==
    /\ phase = "ask" /\ phase' = "load"
    /\ lost' = (lost \/ IF ByOffset(list) THEN ~Quiet(list)
                        ELSE start # NoItem /\ start \notin calm)
    /\ \E rows \in Pages(list, start, number, limit),
          first \in SetToSeqs(FirstPosts(list, start)) :
          IF Closed(list) THEN page' = <<>> /\ full' = FALSE
          ELSE page' = first \o rows /\ full' = (Len(rows) = limit)
    /\ ahead' = ahead \cup FirstPosts(list, start)
    /\ calm' = {p \in Rows(list, start) \ FirstPosts(list, start) :
                   Value(list, p) = SeekValue(list, p)}
    /\ UNCHANGED <<tableVars, list, limit, start, number, seen, again, steady>>

\* The posts of the page, each where it comes first; a page that brings nothing
\* new ends the walk.
Load ==
    /\ phase = "load"
    /\ LET places == {i \in DOMAIN page : /\ Shown(list, page[i])
                                          /\ \A j \in 1 .. i - 1 : page[j] # page[i]}
           given == {page[i] : i \in places}
       IN  /\ seen' = seen \cup given
           /\ again' = again \cup (given \cap seen)
           /\ IF given \subseteq seen
              THEN phase' = "done" /\ UNCHANGED <<start, number>>
              ELSE /\ phase' = "ask"
                   /\ start' = page[Max(places)]
                   /\ number' = number + 1
    /\ page' = <<>>
    /\ UNCHANGED <<tableVars, list, limit, ahead, full, lost, steady, calm>>

TablesStep ==
    /\ phase # "done"
    /\ TablesNext
    /\ UNCHANGED walk
    /\ steady' = {p \in steady : /\ p \in Visible(list)' /\ Value(list, p)' = Value(list, p)
                                 /\ ~Closed(list)'}
    /\ calm' = {p \in calm : /\ p \in Sought(list)' /\ SeekValue(list, p)' = SeekValue(list, p)
                             /\ list.name = "replies" => Replied(list.account, p)'
                                                          = Replied(list.account, p)}

Rest == phase = "done" /\ UNCHANGED vars

Next == TablesStep \/ Begin \/ Ask \/ Load \/ Rest

Spec == Init /\ [][Next]_vars

-----------------------------------------------------------------------------
\* A walk that ended on a short page, and never sought from an item that had
\* moved, was given every item that was there all along, whatever came, went
\* or moved beside it.
WalkComplete == phase = "done" /\ ~full /\ ~lost => steady \subseteq seen

\* Where rows are told apart by their id no item that stays is given twice,
\* but for those the operators put first.
GivenOnce == Exact(list) /\ ~lost => again \cap steady \subseteq ahead

\* A walk ends on a full page of items that stay only where all are of one field
\* with the start and nothing tells them apart, or where all had been put first.
StopsOnlyAtTies ==
    [][phase = "load" /\ phase' = "done" /\ full /\ ~lost
       /\ ToSet(page) \cup ({start} \ {NoItem}) \subseteq steady =>
         IF Exact(list) THEN ToSet(page) \subseteq ahead
         ELSE start # NoItem /\ \A p \in ToSet(page) : Value(list, p) = Value(list, start)]_vars

\* The list of top-level posts by payout shows top-level posts, the list of
\* comments by payout comments.
ListsByDepth ==
    /\ list.api = "condenser" /\ list.name = "payout"
          => \A p \in seen : posts[p].depth = 0
    /\ list.name = "payout_comments" => \A p \in seen : posts[p].depth > 0
=============================================================================
