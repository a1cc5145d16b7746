------------------------------ MODULE Notices ------------------------------
(***************************************************************************)
(* Notifications: what the post cache's flush writes of replies, mentions  *)
(* and votes, and what an account reads of them page by page.  In live     *)
(* mode a block and its flush are one transaction.  When the indexer       *)
(* catches up or recovers, each notification is committed when written and *)
(* the cache rows after all of them, and it may crash in between.          *)
(***************************************************************************)
EXTENDS Integers, Sequences, FiniteSets

CONSTANTS
    Accounts,
    Posts,          \* [author, parent] of each post, by id
    Mentionable,    \* the accounts a body may mention
    Voters,
    Irredeemables,  \* Mutes.all()
    Pairs,          \* <<a, b>>: a may follow or mute b
    Rebloggers,
    Moderators,     \* the accounts that send community operations
    Reader,         \* the account that reads its notifications
    Limit,          \* notifications in a page
    MaxCrashes, MaxNotifs

NoParent == 0
NoPost == 0
NoAccount == 0
Ids == DOMAIN Posts

ASSUME NoticesAssumption ==
    /\ IsFiniteSet(Accounts) /\ NoAccount \notin Accounts
    /\ Posts \in Seq([author : Accounts, parent : Nat])
    /\ \A p \in Ids : Posts[p].parent < p
    /\ Mentionable \cup Voters \cup Rebloggers \cup Moderators
           \cup Irredeemables \cup {Reader} \subseteq Accounts
    /\ Pairs \subseteq Accounts \X Accounts
    /\ Limit \in Nat \ {0}

VARIABLES
    state,          \* of each post: "none", "live", "deleted" (worth_posts)
    cache,          \* the posts with a cache row
    follows,        \* worth_follows: 1 follows, 2 mutes, 3 does both
    notifs,         \* worth_notifs, by id
    mode,           \* "sync", "flush", "live"
    queue,          \* CachedPost._queue
    votes,          \* CachedPost._votes
    lastId,         \* CachedPost._last_id
    batch,          \* <<p, level>> yet to be worked on in a flush
    writing,        \* the notifications yet to be written for the one begun
    storing,        \* the posts whose rows the flush will insert
    client,         \* a reader's walk through its notifications
    crashes,
    excused         \* posts whose insert had no reply to tell of

tables == <<state, cache, follows, notifs>>
memory == <<queue, votes, lastId, batch, writing, storing>>
vars == <<tables, memory, mode, client, crashes, excused>>

Levels == {"insert", "update", "upvote"}
Author(p) == Posts[p].author
ParentAuthor(p) == Posts[Posts[p].parent].author
IsReply(p) == Posts[p].parent # NoParent
LastOf(S) == IF S = {} THEN 0 ELSE CHOOSE p \in S : \A q \in S : q <= p

Clean == [p \in Ids |-> "clean"]
Done == [on |-> FALSE, last |-> 0, given |-> <<>>, need |-> {}]

Init ==
    /\ state = [p \in Ids |-> "none"]
    /\ cache = {} /\ notifs = <<>>
    /\ follows = [pair \in Pairs |-> 0]
    /\ mode = "sync"
    /\ queue = Clean
    /\ votes = [p \in Ids |-> {}]
    /\ lastId = 0
    /\ batch = <<>> /\ writing = <<>> /\ storing = {}
    /\ client = Done
    /\ crashes = 0
    /\ excused = {}

-----------------------------------------------------------------------------
(* What one post's flush writes, f being worth_follows. *)

Notif(type, src, dst, p) == [type |-> type, src |-> src, dst |-> dst, post |-> p]
Written == {notifs[i] : i \in DOMAIN notifs}
ToldBefore(n) ==
    \E w \in Written : /\ w.type = n.type /\ w.post = n.post /\ w.dst = n.dst
                       /\ n.type = "vote" => w.src = n.src

Mutes(f, a, b) == <<a, b>> \in Pairs /\ f[<<a, b>>] \in {2, 3}

TellsReply(f, p, level) ==
    /\ level = "insert" /\ IsReply(p) /\ ParentAuthor(p) # Author(p)
    /\ ParentAuthor(p) \notin Irredeemables
    /\ ~Mutes(f, ParentAuthor(p), Author(p))

Replies(f, p, level) ==
    IF TellsReply(f, p, level) THEN {Notif("reply", Author(p), ParentAuthor(p), p)} ELSE {}

Mentioned(f, p, names) ==
    {a \in names : a # Author(p) /\ (IsReply(p) => a # ParentAuthor(p)) /\ ~Mutes(f, a, Author(p))}

MentionNotifs(f, p, level, names) ==
    IF level = "upvote" THEN {}
    ELSE {Notif("mention", Author(p), a, p) : a \in Mentioned(f, p, names)}
MentionsAgain(f, p, level, names) == MentionNotifs(f, p, level, names)
Mentions(f, p, level, names) ==
    {n \in MentionNotifs(f, p, level, names) : ~ToldBefore(n)}

\* Of the voters since the last flush, those with a big enough share of the payout.
Votes(p, big) ==
    {n \in {Notif("vote", v, Author(p), p) : v \in big} : ~ToldBefore(n)}

Tells(f, p, level, names, big) ==
    Replies(f, p, level) \cup Mentions(f, p, level, names) \cup Votes(p, big)

\* The members of S by their place.
Ordered(S, place) ==
    CHOOSE s \in [1 .. Cardinality(S) -> S] :
        \A i, j \in DOMAIN s : i < j => s[i] # s[j] /\ place[s[i]] <= place[s[j]]

\* Post by post the reply, the mentions and the votes, these in any order.
Place(n) == 3 * n.post + (CASE n.type = "reply" -> 0 [] n.type = "mention" -> 1 [] n.type = "vote" -> 2)
InOrder(told) == Ordered(told, [n \in told |-> Place(n)])

-----------------------------------------------------------------------------
(* Marking posts. *)

Rank(level) == CASE level = "insert" -> 0 [] level = "update" -> 1
                 [] level = "upvote" -> 2 [] level = "clean" -> 3
Dirty(q, p, level) == [q EXCEPT ![p] = IF Rank(level) < Rank(@) THEN level ELSE @]

\* What an operation of a block makes of the tables and the marks.
Now == [state |-> state, cache |-> cache, follows |-> follows, notifs |-> notifs,
        queue |-> queue, votes |-> votes, excused |-> excused]

Comment(p) ==
    LET live == [Now EXCEPT !.state[p] = "live"] IN
    IF state[p] = "live" THEN [Now EXCEPT !.queue = Dirty(queue, p, "update")]
    ELSE IF state[p] = "none" \/ p > lastId
    THEN [live EXCEPT !.queue = Dirty(queue, p, "insert")]
    ELSE [live EXCEPT !.cache = @ \cup {p}, !.queue = Dirty(queue, p, "update"),
                      !.excused = @ \cup {p}]

Delete(p) ==
    [Now EXCEPT !.state[p] = "deleted", !.cache = @ \ {p}, !.queue[p] = "clean"]

Vote(p, v) ==
    [Now EXCEPT !.queue = Dirty(queue, p, "upvote"), !.votes[p] = @ \cup {v}]

FollowOp(pair, new) ==
    [Now EXCEPT !.follows[pair] = new,
                !.notifs = IF follows[pair] = 0 /\ new = 1
                           THEN Append(@, Notif("follow", pair[1], pair[2], NoPost)) ELSE @]

Reblog(a, p) ==
    [Now EXCEPT !.notifs = Append(@, Notif("reblog", a, Author(p), p))]

\* name[:5] has five characters and never is "worth-": no name is valid, the map
\* of ids stays empty, and every operation is answered with an error.
NoCommunity == 0
ValidatedId == NoCommunity
CommunityOp(a) ==
    [Now EXCEPT !.notifs = IF ValidatedId = NoCommunity
                           THEN Append(@, Notif("error", NoAccount, a, NoPost)) ELSE @]

\* What a block may do: ids are given in the order of creation, only live posts
\* are voted on, only those without live replies are deleted; a reblog is a
\* custom_json that the chain does not look into.
Effects ==
    {Comment(p) : p \in {q \in Ids :
        /\ \A r \in 1 .. (q - 1) : state[r] # "none"
        /\ IsReply(q) => state[Posts[q].parent] = "live"}}
    \cup {Delete(p) : p \in {q \in Ids :
        state[q] = "live" /\ \A r \in Ids : Posts[r].parent = q => state[r] # "live"}}
    \cup {Vote(p, v) : p \in {q \in Ids : state[q] = "live"}, v \in Voters}
    \cup {FollowOp(pair, new) : pair \in Pairs, new \in 0 .. 3}
    \cup {Reblog(a, p) : a \in Rebloggers, p \in {q \in Ids : state[q] # "none" /\ ~IsReply(q)}}
    \cup {CommunityOp(a) : a \in Moderators}

-----------------------------------------------------------------------------
(* The indexer. *)

Visible ==
    {i \in DOMAIN notifs :
        notifs[i].dst = Reader /\ (notifs[i].post # NoPost => state[notifs[i].post] # "deleted")}

\* What a walk must give shrinks as posts are deleted.
Needing == [client EXCEPT !.need = @ \cap Visible']

Room == Len(notifs) + Len(writing) < MaxNotifs

SyncBlock ==
    /\ mode = "sync" /\ Room
    /\ \E e \in Effects :
         /\ state' = e.state /\ cache' = e.cache /\ follows' = e.follows /\ notifs' = e.notifs
         /\ queue' = e.queue /\ votes' = e.votes /\ excused' = e.excused
    /\ client' = Needing
    /\ UNCHANGED <<mode, lastId, batch, writing, storing, crashes>>

\* The flush takes all marked posts, in the order of their ids.
Tuples(q) ==
    LET marked == {p \in Ids : q[p] # "clean"}
        ids == Ordered(marked, [p \in marked |-> p])
    IN [i \in DOMAIN ids |-> <<ids[i], q[ids[i]]>>]

Flush ==
    /\ mode = "sync"
    /\ mode' = "flush"
    /\ batch' = Tuples(queue)
    /\ queue' = Clean
    /\ UNCHANGED <<tables, votes, lastId, writing, storing, client, crashes, excused>>

Excused(f, e, inserts) == (e \ inserts) \cup {p \in inserts : ~TellsReply(f, p, "insert")}
Inserted(p, level) == IF level = "insert" THEN {p} ELSE {}

\* The next post: the node tells what it mentions and which votes are big, or
\* does not know it (yet, or any more), and its mark is put back.
Begin ==
    /\ mode = "flush" /\ writing = <<>> /\ batch # <<>> /\ Room
    /\ LET p == Head(batch)[1]
           level == Head(batch)[2]
       IN
         /\ batch' = Tail(batch)
         /\ lastId' = LastOf({lastId, p})
         /\ \/ /\ \E names \in SUBSET Mentionable, big \in SUBSET votes[p] :
                     writing' = InOrder(Tells(follows, p, level, names, big))
               /\ votes' = [votes EXCEPT ![p] = {}]
               /\ storing' = storing \cup Inserted(p, level)
               /\ excused' = Excused(follows, excused, Inserted(p, level))
               /\ UNCHANGED queue
            \/ /\ queue' = Dirty(queue, p, level)
               /\ UNCHANGED <<votes, writing, storing, excused>>
    /\ UNCHANGED <<tables, mode, client, crashes>>

Write ==
    /\ writing # <<>>
    /\ notifs' = Append(notifs, Head(writing))
    /\ writing' = Tail(writing)
    /\ UNCHANGED <<state, cache, follows, queue, votes, lastId, batch, storing, mode, client,
                   crashes, excused>>

\* The rows are stored when everything has been told; then the indexer listens.
StoresEarly == mode = "flush" /\ (storing # {} \/ (batch = <<>> /\ writing = <<>>))
Stores == mode = "flush" /\ batch = <<>> /\ writing = <<>>

Store ==
    /\ Stores
    /\ cache' = cache \cup storing
    /\ storing' = {}
    /\ mode' = IF batch = <<>> /\ writing = <<>> THEN "live" ELSE mode
    /\ UNCHANGED <<state, follows, notifs, queue, votes, lastId, batch, writing, client, crashes,
                   excused>>

\* A block in live mode: its operation, and the flush of all marked posts, in
\* one transaction.  The posts the node does not know stay marked.
LiveBlock ==
    /\ mode = "live" /\ Room
    /\ \E e \in Effects :
       \E found \in SUBSET {p \in Ids : e.queue[p] # "clean"} :
       \E names \in [found -> SUBSET Mentionable], big \in SUBSET Voters :
         LET told == UNION {Tells(e.follows, p, e.queue[p], names[p], e.votes[p] \cap big) : p \in found}
             inserts == {p \in found : e.queue[p] = "insert"}
         IN
         /\ state' = e.state
         /\ follows' = e.follows
         /\ notifs' = e.notifs \o InOrder(told)
         /\ cache' = e.cache \cup inserts
         /\ queue' = [p \in Ids |-> IF p \in found THEN "clean" ELSE e.queue[p]]
         /\ votes' = [p \in Ids |-> IF p \in found THEN {} ELSE e.votes[p]]
         /\ lastId' = LastOf({lastId} \cup {p \in Ids : e.queue[p] # "clean"})
         /\ excused' = Excused(e.follows, e.excused, inserts)
    /\ client' = Needing
    /\ UNCHANGED <<mode, batch, writing, storing, crashes>>

\* A gap or a microfork ends the stream; the indexer syncs again.
Restream ==
    /\ mode = "live"
    /\ mode' = "sync"
    /\ UNCHANGED <<tables, memory, client, crashes, excused>>

\* A crash loses the memory; the start marks the posts past the last row and
\* flushes them.
Missing == [p \in Ids |-> IF state[p] = "live" /\ p > LastOf(cache) THEN "insert" ELSE "clean"]

Crash ==
    /\ crashes < MaxCrashes
    /\ crashes' = crashes + 1
    /\ mode' = "flush"
    /\ queue' = Clean
    /\ votes' = [p \in Ids |-> {}]
    /\ lastId' = LastOf(cache)
    /\ batch' = Tuples(Missing)
    /\ writing' = <<>> /\ storing' = {}
    /\ UNCHANGED <<tables, client, excused>>

-----------------------------------------------------------------------------
(* A reader. *)

SeekTo(last) == {i \in Visible : last # 0 => i <= last}
Seek(last) == {i \in Visible : last # 0 => i < last}

Page(last) ==
    LET seq == Ordered(Seek(last), [i \in Seek(last) |-> Len(notifs) - i])
    IN SubSeq(seq, 1, IF Len(seq) < Limit THEN Len(seq) ELSE Limit)

\* The reader asks for the first page, or for the one after the last it got, until
\* one is not full.
Ask ==
    /\ LET page == Page(client.last)
           need == IF client.on THEN client.need ELSE Visible
           given == IF client.on THEN client.given ELSE <<>>
       IN client' = [on |-> Len(page) = Limit, given |-> given \o page,
                     need |-> need,
                     last |-> IF Len(page) = Limit THEN page[Limit] ELSE 0]
    /\ UNCHANGED <<tables, memory, mode, crashes, excused>>

Indexer == SyncBlock \/ Flush \/ Begin \/ Write \/ Store \/ LiveBlock \/ Restream \/ Crash

Next == Indexer \/ Ask

Spec == Init /\ [][Next]_vars
-----------------------------------------------------------------------------
(* Properties. *)

\* Every variable holds a value of its type; a post past the last one the cache
\* has seen is only ever marked for an insert (cached_post.py _sql raises
\* otherwise), and the last id is at or past every cached post's.
TypeOK ==
    /\ state \in [Ids -> {"none", "live", "deleted"}]
    /\ cache \subseteq {p \in Ids : state[p] = "live"}
    /\ follows \in [Pairs -> 0 .. 3]
    /\ mode \in {"sync", "flush", "live"}
    /\ queue \in [Ids -> Levels \cup {"clean"}]
    /\ \A p \in Ids : queue[p] # "clean" /\ p > lastId => queue[p] = "insert"
    /\ \A p \in cache : p <= lastId
    /\ votes \in [Ids -> SUBSET Voters]
    /\ storing \subseteq Ids /\ excused \subseteq Ids
    /\ \A n \in Written : n.type \in {"reply", "mention", "vote", "follow", "reblog", "error"}

\* An account is told once of a mention in a post, and once of a voter's vote on
\* it, through edits, repeated votes, deferred posts, crashes and the flushes
\* made again after them (cached_post.py _mentioned, _voted).  A reply is told
\* of once, though it be edited, deferred, deleted and made again, unless a
\* crash came in between.
OnceEach ==
    \A i, j \in DOMAIN notifs :
        i # j => \/ notifs[i].type \in {"follow", "reblog", "error"}
                 \/ notifs[i].type = "reply" /\ crashes > 0
                 \/ notifs[i] # notifs[j]

\* A reply whose cache row is in the table has been told to the author of its
\* parent, unless it was excused: a crash at any point of a flush may repeat a
\* notification but not lose it (the rows are stored last, cached_post.py
\* _update_batch).
CachedIsTold ==
    \A p \in cache \ excused : \E n \in Written : n.type = "reply" /\ n.post = p

\* A walk gives no notification twice, though new ones come and posts vanish, and
\* when it ends it has given all that were there from its beginning on
\* (worth_api/notify.py account_notifications).
WalkComplete ==
    /\ \A i, j \in DOMAIN client.given : i # j => client.given[i] # client.given[j]
    /\ ~client.on => client.need \subseteq {client.given[i] : i \in DOMAIN client.given}
=============================================================================
