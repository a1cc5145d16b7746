--------------------------- MODULE ThreadsProofs ---------------------------
(* Proofs about Threads, for any tables, requests and mute lists. *)
EXTENDS Threads, SequenceTheorems, TLAPS

-----------------------------------------------------------------------------
(* The posts: live ones hang under live ones, one level down. *)

Categories == {Shapes[i].category : i \in DOMAIN Shapes}
TagSets == {Shapes[i].tags : i \in DOMAIN Shapes} \cup {{}}
PostRow == [author : Accounts, parent : Nat, depth : Nat,
            category : Categories, tags : TagSets, deleted : BOOLEAN]

Hangs(p) ==
    \/ posts[p].parent = NoPost /\ posts[p].depth = 0
    \/ /\ posts[p].parent \in Ids /\ Live(posts[p].parent)
       /\ posts[p].depth = posts[posts[p].parent].depth + 1

PostsInv ==
    /\ posts \in Seq(PostRow) /\ Len(posts) <= Len(Shapes)
    /\ \A p \in Ids : Live(p) => Hangs(p)

LEMMA PostsFacts ==
  ASSUME PostsInv
  PROVE  /\ Len(posts) \in Nat /\ Ids = 1 .. Len(posts)
         /\ \A p \in Ids : posts[p] \in PostRow
         /\ NoPost \notin Ids
<1>1. posts \in Seq(PostRow)
  BY DEF PostsInv
<1> HIDE DEF PostRow
<1>2. Len(posts) \in Nat /\ Ids = 1 .. Len(posts)
  BY <1>1 DEF Ids
<1>3. \A p \in Ids : posts[p] \in PostRow
  BY <1>1, <1>2, ElementOfSeq
<1> QED BY <1>2, <1>3 DEF NoPost

\* Posts whose rows a step keeps hang where they hung.
Same(p) == /\ p \in Ids /\ p \in Ids'
           /\ posts'[p].parent = posts[p].parent /\ posts'[p].depth = posts[p].depth

LEMMA NewPostKeeps ==
  ASSUME PostsInv, NewPost
  PROVE  PostsInv' /\ \A p \in Ids : Same(p)
<1> DEFINE n == Len(posts) + 1
           shape == Shapes[n]
           row == [author |-> shape.author, parent |-> shape.parent,
                   depth |-> Depth(shape.parent),
                   category |-> Category(n, shape.parent),
                   tags |-> Tags(n, shape.parent), deleted |-> FALSE]
<1>1. /\ Len(posts) \in Nat /\ Ids = 1 .. Len(posts) /\ posts \in Seq(PostRow)
      /\ \A p \in Ids : posts[p] \in PostRow
  BY PostsFacts DEF PostsInv
<1>2. n \in DOMAIN Shapes /\ n \notin Ids
  BY <1>1, TablesAssumption DEF NewPost
<1>3. shape.author \in Accounts /\ shape.parent \in 0 .. Len(posts)
  BY <1>1, <1>2, TablesAssumption DEF NoPost
<1>4. /\ shape.parent # NoPost => shape.parent \in Ids /\ Live(shape.parent)
      /\ posts' = Append(posts, row)
  BY <1>1, <1>3 DEF NewPost, NoPost
<1>5. row \in PostRow
  <2>1. Depth(shape.parent) \in Nat
    BY SMTT(30), <1>1, <1>4 DEF Depth, PostRow
  <2>2. Category(n, shape.parent) \in Categories
    BY <1>1, <1>2, <1>4 DEF Category, PostRow, Categories
  <2>3. Tags(n, shape.parent) \in TagSets
    BY <1>2 DEF Tags, TagSets
  <2> HIDE DEF shape, n
  <2> QED BY <1>3, <2>1, <2>2, <2>3 DEF PostRow
<1>6. row.parent = shape.parent /\ row.depth = Depth(shape.parent)
  OBVIOUS
<1> HIDE DEF row, shape, PostRow
<1>7. /\ posts' \in Seq(PostRow) /\ Ids' = 1 .. n /\ Len(posts') = n
      /\ \A p \in Ids : posts'[p] = posts[p]
      /\ posts'[n] = row
  BY <1>1, <1>4, <1>5 DEF Ids
<1>8. \A p \in Ids : p \in Ids' /\ Same(p)
  BY <1>1, <1>7 DEF Same
<1>9. ASSUME NEW p \in Ids', Live(p)' PROVE Hangs(p)'
  <2>1. CASE p \in Ids
    <3>1. Live(p) /\ Hangs(p)
      BY <1>7, <1>9, <2>1 DEF Live, PostsInv
    <3> QED BY <1>7, <1>8, <2>1, <3>1 DEF Hangs, Live
  <2>2. CASE p = n
    BY <1>4, <1>6, <1>7, <1>8, <2>2 DEF Hangs, Live, Depth
  <2> QED BY <1>1, <1>7, <2>1, <2>2
<1>10. Len(posts') <= Len(Shapes)
  BY <1>1, <1>2, <1>7, TablesAssumption
<1> QED BY <1>7, <1>8, <1>9, <1>10 DEF PostsInv

LEMMA DeleteKeeps ==
  ASSUME PostsInv, NEW d \in Ids, Delete(d)
  PROVE  PostsInv' /\ \A p \in Ids : Same(p)
<1>1. /\ Len(posts) \in Nat /\ Ids = 1 .. Len(posts) /\ posts \in Seq(PostRow)
      /\ \A p \in Ids : posts[p] \in PostRow
  BY PostsFacts DEF PostsInv
<1> DEFINE row == [posts[d] EXCEPT !.deleted = TRUE, !.tags = {}]
<1>2. posts' = [posts EXCEPT ![d] = row]
  BY DEF Delete
<1>3. /\ row \in PostRow /\ row.deleted
      /\ row.parent = posts[d].parent /\ row.depth = posts[d].depth
  BY <1>1 DEF PostRow, TagSets
<1> HIDE DEF row, PostRow
<1>4. /\ posts' \in Seq(PostRow) /\ Ids' = Ids /\ Len(posts') = Len(posts)
      /\ \A p \in Ids : posts'[p] = IF p = d THEN row ELSE posts[p]
  BY <1>1, <1>2, <1>3, ExceptSeq DEF Ids
<1>5. \A p \in Ids : Same(p)
  BY <1>3, <1>4 DEF Same
<1>6. ASSUME NEW p \in Ids', Live(p)' PROVE Hangs(p)'
  <2>1. p # d /\ p \in Ids /\ Live(p) /\ Hangs(p)
    BY <1>3, <1>4, <1>6 DEF Live, PostsInv
  <2>2. posts[p].parent # d
    BY <2>1 DEF Delete
  <2> QED BY <1>4, <2>1, <2>2 DEF Hangs, Live
<1> QED BY <1>4, <1>5, <1>6 DEF PostsInv

LEMMA ReinstateKeeps ==
  ASSUME PostsInv, NEW d \in Ids, Reinstate(d)
  PROVE  /\ PostsInv' /\ Ids' = Ids /\ ~Live(d) /\ Live(d)'
         /\ \A p \in Ids : p # d => Same(p)
<1>1. /\ Len(posts) \in Nat /\ Ids = 1 .. Len(posts) /\ posts \in Seq(PostRow)
      /\ \A p \in Ids : posts[p] \in PostRow
      /\ NoPost \notin Ids
  BY PostsFacts DEF PostsInv
<1>2. PICK parent \in {q \in Ids : Live(q)} \cup {NoPost} :
        posts' = [posts EXCEPT ![d] =
            [author |-> posts[d].author, parent |-> parent, depth |-> Depth(parent),
             category |-> Category(d, parent),
             tags |-> Tags(d, parent), deleted |-> FALSE]]
  BY DEF Reinstate
<1> DEFINE row == [author |-> posts[d].author, parent |-> parent, depth |-> Depth(parent),
                   category |-> Category(d, parent),
                   tags |-> Tags(d, parent), deleted |-> FALSE]
<1>3. row \in PostRow
  <2>1. Depth(parent) \in Nat
    BY <1>1 DEF Depth, PostRow
  <2>2. d \in DOMAIN Shapes
    BY <1>1, TablesAssumption DEF PostsInv
  <2>3. Category(d, parent) \in Categories
    BY <1>1, <1>2, <2>2 DEF Category, Categories, PostRow
  <2>4. Tags(d, parent) \in TagSets
    BY <2>2 DEF Tags, TagSets
  <2>5. posts[d].author \in Accounts /\ parent \in Nat
    BY <1>1, <1>2 DEF PostRow, NoPost
  <2> QED BY <2>1, <2>3, <2>4, <2>5 DEF PostRow
<1>4. row.parent = parent /\ row.depth = Depth(parent) /\ ~row.deleted /\ posts' = [posts EXCEPT ![d] = row]
  BY <1>2
<1> HIDE DEF row, PostRow
<1>5. /\ posts' \in Seq(PostRow) /\ Ids' = Ids /\ Len(posts') = Len(posts)
      /\ \A p \in Ids : posts'[p] = IF p = d THEN row ELSE posts[p]
  BY <1>1, <1>3, <1>4, ExceptSeq DEF Ids
<1>6. ~Live(d) /\ Live(d)'
  BY <1>4, <1>5 DEF Reinstate, Live
<1>7. ASSUME NEW p \in Ids', Live(p)' PROVE Hangs(p)'
  <2>1. CASE p # d
    <3>1. Live(p) /\ Hangs(p) /\ p \in Ids
      BY <1>5, <1>7, <2>1 DEF Live, PostsInv
    <3>2. posts[p].parent # d
      BY <1>1, <1>6, <3>1 DEF Hangs
    <3> QED BY <1>5, <2>1, <3>1, <3>2 DEF Hangs, Live
  <2>2. CASE p = d
    <3>1. CASE parent = NoPost
      BY <1>4, <1>5, <2>2, <3>1 DEF Hangs, Depth
    <3>2. CASE parent # NoPost
      <4>1. parent \in Ids /\ Live(parent) /\ parent # d
        BY <1>2, <1>6, <3>2
      <4> QED BY <1>4, <1>5, <2>2, <3>2, <4>1 DEF Hangs, Depth, Live
    <3> QED BY <3>1, <3>2
  <2> QED BY <2>1, <2>2
<1>8. \A p \in Ids : p # d => Same(p)
  BY <1>5 DEF Same
<1> QED BY <1>5, <1>6, <1>7, <1>8 DEF PostsInv

\* A step on the tables moves no post unless it makes a deleted one again, and that
\* one only.
LEMMA TablesKeep ==
  ASSUME PostsInv, TablesNext
  PROVE  /\ PostsInv' /\ Ids \subseteq Ids'
         /\ \A p \in Ids : Live(p) => Same(p)
         /\ (\E d \in Ids : ~Live(d) /\ Live(d)') \/ \A p \in Ids : Same(p)
<1>1. CASE NewPost
  BY <1>1, NewPostKeeps DEF Same
<1>2. CASE \E d \in Ids : Delete(d)
  BY <1>2, DeleteKeeps DEF Same
<1>3. CASE \E d \in Ids : Reinstate(d)
  BY <1>3, ReinstateKeeps
<1>4. CASE posts' = posts
  BY <1>4 DEF PostsInv, Ids, Live, Hangs, Same
<1>5. CASE Change
  <2>1. \/ \E d \in Ids : Delete(d)
        \/ \E d \in Ids : Reinstate(d)
        \/ posts' = posts
    BY <1>5 DEF Change, CacheLate, Rescore, Reblog, Moderate, FollowAgain
  <2> QED BY <1>2, <1>3, <1>4, <2>1
<1>6. CASE Follow \/ Tick
  <2>1. posts' = posts
    BY <1>6 DEF Follow, FollowFirst, Tick, tables
  <2> QED BY <1>4, <2>1
<1> QED BY <1>1, <1>5, <1>6 DEF TablesNext

-----------------------------------------------------------------------------
(* The request: the tree it has read, and the posts it takes out. *)

Child(p, q) == /\ p \in Ids /\ q \in Ids
               /\ posts[p].parent = q /\ posts[p].depth = posts[q].depth + 1

\* The posts found hang under the root, each under one post of the tree, and those
\* of the next level are new.
Found(p) ==
    \/ p = root
    \/ posts[p].depth > posts[root].depth /\ \E q \in DOMAIN tree : p \in tree[q]

Grown ==
    /\ root \in Ids
    /\ ids \subseteq Ids /\ todo \subseteq Ids /\ todo \cap ids = {}
    /\ DOMAIN tree \subseteq ids
    /\ \A q \in DOMAIN tree : \A p \in tree[q] : Child(p, q)
    /\ \A p \in ids \cup todo : Found(p)

\* Replies to be checked are those of the level just read.
Checking ==
    /\ DOMAIN rows \subseteq ids \ DOMAIN tree
    /\ \A q \in DOMAIN rows : \A p \in rows[q] : Child(p, q) /\ p \notin ids

Early == phase \in {"idle", "author", "post"}

\* What hangs under a post taken out is taken out, or will be.
Taken ==
    /\ phase \notin {"prune", "done"} => out = {}
    /\ Early => shown = {} /\ rem = {} /\ ids = {} /\ DOMAIN tree = {}
    /\ phase = "idle" => ~moved
    /\ phase = "done" => rem = {}
    /\ shown \subseteq ids
    /\ \A q \in out \cap DOMAIN tree : tree[q] \cap shown \subseteq rem

ThreadInv ==
    /\ PostsInv
    /\ Taken
    /\ ~moved /\ phase # "idle" => Grown
    /\ ~moved /\ phase = "hide" => Checking

LEMMA InitInv == Init => ThreadInv
<1> SUFFICES ASSUME Init PROVE ThreadInv
  OBVIOUS
<1>1. posts = <<>> /\ Len(posts) = 0 /\ Ids = {} /\ posts \in Seq(PostRow)
  BY EmptySeq DEF Init, TablesInit, Ids
<1>2. PostsInv
  BY <1>1, TablesAssumption DEF PostsInv
<1>3. DOMAIN tree = {}
  BY DEF Init
<1> QED BY <1>2, <1>3 DEF Init, ThreadInv, Taken, Early

\* The tables and what the request has found are as before.
LEMMA SamePosts ==
  ASSUME PostsInv, posts' = posts
  PROVE  PostsInv' /\ \A p \in Ids : Same(p)
BY DEF PostsInv, Ids, Live, Hangs, Same

LEMMA SameGrown ==
  ASSUME Grown, \A p \in Ids : Same(p), UNCHANGED <<root, ids, todo, tree>>
  PROVE  Grown'
<1>1. \A p, q : Child(p, q) => Child(p, q)'
  BY DEF Child, Same
<1>2. \A p \in Ids : Found(p) => Found(p)'
  BY DEF Found, Same, Grown
<1>3. \A p \in Ids : p \in Ids'
  BY DEF Same
<1>4. \A q \in DOMAIN tree' : \A p \in tree'[q] : Child(p, q)'
  BY <1>1 DEF Grown
<1>5. \A p \in ids' \cup todo' : Found(p)'
  BY <1>2 DEF Grown
<1> QED BY <1>3, <1>4, <1>5 DEF Grown

LEMMA SameChecking ==
  ASSUME Checking, \A p \in Ids : Same(p), UNCHANGED <<ids, tree, rows>>
  PROVE  Checking'
<1>1. \A p, q : Child(p, q) => Child(p, q)'
  BY DEF Child, Same
<1> QED BY <1>1 DEF Checking

\* A request begins.
LEMMA FindInv ==
  ASSUME ThreadInv, NEW r \in Ids, Find(r)
  PROVE  ThreadInv'
<1>1. PostsInv'
  BY SamePosts DEF ThreadInv, Find, tableVars, tables
<1>2. /\ ids' = {} /\ DOMAIN tree' = {} /\ shown' = {} /\ rem' = {} /\ out' = {}
      /\ phase' \in {"author", "level"} /\ todo' = {r} /\ root' = r /\ Ids' = Ids
  BY DEF Find, ThreadInv, Taken, Early, tableVars, tables, Ids
<1>3. Taken'
  BY <1>2 DEF Taken, Early
<1>4. Grown'
  BY <1>2 DEF Grown, Found
<1> QED BY <1>1, <1>2, <1>3, <1>4 DEF ThreadInv

\* A step of the request that leaves the tree alone.
LEMMA QuietInv ==
  ASSUME ThreadInv, phase # "idle",
         UNCHANGED <<posts, root, ids, tree, todo, rows, moved>>,
         Taken', phase' # "hide", phase' # "idle"
  PROVE  ThreadInv'
<1>1. PostsInv' /\ \A p \in Ids : Same(p)
  BY SamePosts DEF ThreadInv
<1>2. ~moved' => Grown'
  BY <1>1, SameGrown DEF ThreadInv
<1> QED BY <1>1, <1>2 DEF ThreadInv

LEMMA CheckInv ==
  ASSUME ThreadInv, CheckAuthor \/ CheckPost
  PROVE  ThreadInv'
<1>1. /\ UNCHANGED <<posts, root, ids, tree, todo, rows, moved, shown, rem, out>>
      /\ phase' \in {"post", "done", "level"} /\ phase \in {"author", "post"}
  BY DEF CheckAuthor, CheckPost, tableVars, tables, watch
<1>2. Taken'
  BY <1>1 DEF ThreadInv, Taken, Early
<1> QED BY <1>1, <1>2, QuietInv

LEMMA LoadInv ==
  ASSUME ThreadInv, Load
  PROVE  ThreadInv'
<1>1. /\ UNCHANGED <<posts, root, ids, tree, todo, rows, moved, rem, out>>
      /\ phase' = "judge" /\ phase = "load" /\ shown' \subseteq ids
  BY DEF Load, tableVars, tables, watch
<1>2. Taken'
  BY <1>1 DEF ThreadInv, Taken, Early
<1> QED BY <1>1, <1>2, QuietInv

LEMMA JudgeInv ==
  ASSUME ThreadInv, Judge
  PROVE  ThreadInv'
<1>1. /\ UNCHANGED <<posts, root, ids, tree, todo, rows, moved, shown, out>>
      /\ phase' = "prune" /\ phase = "judge"
  BY DEF Judge, tableVars, tables
<1>2. Taken'
  BY <1>1 DEF ThreadInv, Taken, Early
<1> QED BY <1>1, <1>2, QuietInv

LEMMA PruneInv ==
  ASSUME ThreadInv, NEW p \in Ids, Prune(p)
  PROVE  ThreadInv'
<1>1. /\ UNCHANGED <<posts, root, ids, tree, todo, rows, moved, phase>>
      /\ phase = "prune"
      /\ shown' = shown \ {p} /\ out' = out \cup {p}
      /\ rem' = (rem \ {p}) \cup IF p \in DOMAIN tree THEN tree[p] ELSE {}
  BY DEF Prune, tableVars, tables
<1>2. Taken'
  <2>1. ASSUME NEW q \in out' \cap DOMAIN tree' PROVE tree'[q] \cap shown' \subseteq rem'
    <3>1. CASE q = p
      BY <1>1, <2>1, <3>1
    <3>2. CASE q # p
      <4>1. tree[q] \cap shown \subseteq rem
        BY <1>1, <2>1, <3>2 DEF ThreadInv, Taken
      <4> QED BY <1>1, <4>1
    <3> QED BY <3>1, <3>2
  <2>2. shown' \subseteq ids'
    BY <1>1 DEF ThreadInv, Taken
  <2> QED BY <1>1, <2>1, <2>2 DEF Taken, Early
<1> QED BY <1>1, <1>2, QuietInv

LEMMA AnswerInv ==
  ASSUME ThreadInv, Answer
  PROVE  ThreadInv'
<1>1. /\ UNCHANGED <<posts, root, ids, tree, todo, rows, moved, shown, rem, out>>
      /\ phase' = "done" /\ phase = "prune" /\ rem = {}
  BY DEF Answer, tableVars, tables, watch
<1>2. Taken'
  BY <1>1 DEF ThreadInv, Taken, Early
<1> QED BY <1>1, <1>2, QuietInv

\* The replies to a level hang under it and are new: each post has one parent, and
\* the root is above all that were found.
LEMMA RepliesAreNew ==
  ASSUME PostsInv, Grown, NEW q \in todo, NEW p \in Replies(q)
  PROVE  /\ Child(p, q) /\ p \notin ids \cup todo
         /\ posts[p].depth > posts[root].depth
<1>1. /\ p \in Ids /\ q \in Ids /\ root \in Ids /\ NoPost \notin Ids
      /\ posts[p] \in PostRow /\ posts[q] \in PostRow /\ posts[root] \in PostRow
      /\ posts[p].parent = q /\ Live(p)
  BY PostsFacts DEF Grown, Replies
<1>2. Hangs(p) /\ posts[p].parent # NoPost
  BY <1>1 DEF PostsInv
<1>3. Child(p, q)
  BY <1>1, <1>2 DEF Hangs, Child
<1>4. posts[p].depth \in Nat /\ posts[q].depth \in Nat /\ posts[root].depth \in Nat
  BY <1>1 DEF PostRow
<1>5. q = root \/ posts[q].depth > posts[root].depth
  BY DEF Grown, Found
<1>6. posts[p].depth > posts[root].depth
  BY <1>3, <1>4, <1>5 DEF Child
<1>7. ASSUME p \in ids \cup todo PROVE FALSE
  <2>1. p # root
    BY <1>4, <1>6
  <2>2. PICK x \in DOMAIN tree : p \in tree[x]
    BY <1>7, <2>1 DEF Grown, Found
  <2>3. x = q
    BY <1>1, <2>2 DEF Grown, Child
  <2> QED BY <2>2, <2>3 DEF Grown
<1> QED BY <1>3, <1>6, <1>7

LEMMA LevelInv ==
  ASSUME ThreadInv, Level
  PROVE  ThreadInv'
<1> DEFINE found == [q \in {x \in todo : Replies(x) # {}} |-> Replies(q)]
           next == UNION {found[q] : q \in DOMAIN found}
<1>1. /\ UNCHANGED <<posts, root, moved, shown, rem, out>>
      /\ phase = "level" /\ ids' = ids \cup todo
  BY DEF Level, tableVars, tables, watch
<1>2. \/ rows' = found /\ todo' = {} /\ phase' = "hide" /\ tree' = tree
      \/ /\ tree' = TreeWith(found) /\ todo' = next
         /\ phase' = AfterLevel(next)
  BY DEF Level
<1>3. PostsInv' /\ Ids' = Ids
  BY <1>1, SamePosts DEF ThreadInv, Ids
<1>4. Taken'
  <2>1. phase' \in {"hide", "level", "load"}
    BY <1>2 DEF AfterLevel
  <2> QED BY <1>1, <2>1 DEF ThreadInv, Taken, Early
<1>5. ASSUME ~moved'
      PROVE  Grown' /\ (phase' = "hide" => Checking')
  <2>1. Grown
    BY <1>1, <1>5 DEF ThreadInv
  <2>2. DOMAIN found \subseteq todo /\ \A q \in DOMAIN found : found[q] = Replies(q)
    OBVIOUS
  <2>3. ASSUME NEW q \in DOMAIN found, NEW p \in found[q]
        PROVE  Child(p, q) /\ p \notin ids' /\ posts[p].depth > posts[root].depth
    BY <1>1, <2>1, <2>2, <2>3, RepliesAreNew DEF ThreadInv
  <2>4. \A p, q : Child(p, q)' <=> Child(p, q)
    BY <1>1, <1>3 DEF Child
  <2>5. root' \in Ids' /\ ids' \subseteq Ids'
    BY <1>1, <1>3, <2>1 DEF Grown
  <2> HIDE DEF found
  <2>6. CASE rows' = found /\ todo' = {} /\ phase' = "hide" /\ tree' = tree
    <3>1. \A p \in ids' : Found(p)'
      BY <1>1, <2>1, <2>6 DEF Grown, Found
    <3>2. Grown'
      BY <1>1, <2>1, <2>4, <2>5, <2>6, <3>1 DEF Grown
    <3>3. DOMAIN found \subseteq ids' \ DOMAIN tree
      BY <1>1, <2>1, <2>2 DEF Grown
    <3>4. Checking'
      BY <2>3, <2>4, <2>6, <3>3 DEF Checking
    <3> QED BY <3>2, <3>4
  <2>7. CASE tree' = TreeWith(found) /\ todo' = next /\ phase' = AfterLevel(next)
    <3>1. /\ DOMAIN tree' = DOMAIN found \cup DOMAIN tree
          /\ \A q \in DOMAIN found : tree'[q] = found[q]
          /\ \A q \in DOMAIN tree : q \notin DOMAIN found => tree'[q] = tree[q]
      BY <2>7 DEF TreeWith
    <3>2. \A q \in DOMAIN tree : q \notin DOMAIN found
      BY <2>1, <2>2 DEF Grown
    <3>3. \A p \in todo' : p \in Ids /\ p \notin ids' /\ Found(p)'
      <4> SUFFICES ASSUME NEW p \in next PROVE p \in Ids /\ p \notin ids' /\ Found(p)'
        BY <2>7
      <4>1. PICK q \in DOMAIN found : p \in found[q]
        OBVIOUS
      <4>2. Child(p, q) /\ p \notin ids' /\ posts[p].depth > posts[root].depth
        BY <2>3, <4>1
      <4> QED BY <1>1, <3>1, <4>1, <4>2 DEF Child, Found
    <3>4. \A p \in ids' : Found(p)'
      BY <1>1, <2>1, <3>1, <3>2 DEF Grown, Found
    <3>5. \A q \in DOMAIN tree' : \A p \in tree'[q] : Child(p, q)'
      BY <2>1, <2>3, <2>4, <3>1, <3>2 DEF Grown
    <3>6. DOMAIN tree' \subseteq ids'
      BY <1>1, <2>1, <2>2, <3>1 DEF Grown
    <3>7. Grown'
      BY <1>3, <2>5, <3>3, <3>4, <3>5, <3>6 DEF Grown
    <3>8. phase' # "hide"
      BY <2>7 DEF AfterLevel
    <3> QED BY <3>7, <3>8
  <2> QED BY <1>2, <2>6, <2>7
<1> QED BY <1>3, <1>4, <1>5 DEF ThreadInv

LEMMA HideInv ==
  ASSUME ThreadInv, NEW q \in Ids, Hide(q)
  PROVE  ThreadInv'
<1> DEFINE cids == {p \in rows[q] : ~Has(1, p)}
<1>1. /\ UNCHANGED <<posts, root, moved, shown, rem, out, ids>>
      /\ phase = "hide" /\ q \in DOMAIN rows
      /\ tree' = TreeWith([x \in {q} |-> cids])
      /\ todo' = todo \cup cids
      /\ rows' = [x \in DOMAIN rows \ {q} |-> rows[x]]
      /\ phase' \in {"hide", "level", "load"}
  BY DEF Hide, AfterLevel, tableVars, tables, watch
<1>2. PostsInv' /\ Ids' = Ids
  BY <1>1, SamePosts DEF ThreadInv, Ids
<1>3. Taken'
  BY <1>1 DEF ThreadInv, Taken, Early
<1>4. ASSUME ~moved'
      PROVE  Grown' /\ Checking'
  <2>1. Grown /\ Checking /\ PostsInv
    BY <1>1, <1>4 DEF ThreadInv
  <2>2. /\ DOMAIN tree' = {q} \cup DOMAIN tree
        /\ tree'[q] = cids
        /\ \A x \in DOMAIN tree : x # q => tree'[x] = tree[x]
    BY <1>1 DEF TreeWith
  <2>3. q \in ids /\ q \notin DOMAIN tree
    BY <1>1, <2>1 DEF Checking
  <2>4. ASSUME NEW p \in cids
        PROVE  Child(p, q) /\ p \notin ids /\ posts[p].depth > posts[root].depth
    <3>1. Child(p, q) /\ p \notin ids
      BY <1>1, <2>1 DEF Checking
    <3>2. root \in Ids /\ (q = root \/ posts[q].depth > posts[root].depth)
      BY <2>1, <2>3 DEF Grown, Found
    <3>3. posts[q].depth \in Nat /\ posts[root].depth \in Nat
      BY <2>1, PostsFacts DEF PostRow, Grown
    <3> QED BY <3>1, <3>2, <3>3 DEF Child
  <2>5. \A x, y : Child(x, y)' <=> Child(x, y)
    BY <1>1, <1>2 DEF Child
  <2>6. \A p \in todo' : p \in Ids /\ p \notin ids
    BY <1>1, <2>1, <2>4 DEF Grown, Child
  <2>7. ASSUME NEW p \in ids' \cup todo' PROVE Found(p)'
    <3>1. CASE p \in cids
      BY <1>1, <2>2, <2>4, <3>1 DEF Found
    <3>2. CASE p \notin cids
      <4>1. Found(p)
        BY <1>1, <2>1, <2>7, <3>2 DEF Grown
      <4> QED BY <1>1, <2>2, <2>3, <4>1 DEF Found
    <3> QED BY <3>1, <3>2
  <2>8. \A x \in DOMAIN tree' : \A p \in tree'[x] : Child(p, x)'
    BY <2>1, <2>2, <2>4, <2>5 DEF Grown
  <2>9. Grown'
    BY <1>1, <1>2, <2>1, <2>2, <2>3, <2>6, <2>7, <2>8 DEF Grown
  <2>10. Checking'
    BY <1>1, <2>1, <2>2, <2>5 DEF Checking
  <2> QED BY <2>9, <2>10
<1> QED BY <1>1, <1>2, <1>3, <1>4 DEF ThreadInv

\* Blocks, operators and reloads, and steps that change nothing.
LEMMA OutsideInv ==
  ASSUME ThreadInv, TablesStep \/ Reload \/ UNCHANGED vars
  PROVE  ThreadInv'
<1>1. /\ UNCHANGED <<request, out>>
      /\ posts' = posts \/ TablesNext
      /\ moved' = moved \/ /\ TablesStep /\ phase # "idle"
                           /\ moved' = (moved \/ \E p \in Ids : ~Live(p) /\ Live(p)')
  BY DEF TablesStep, Reload, vars, watch, tableVars, tables
<1>2. PostsInv'
  BY <1>1, SamePosts, TablesKeep DEF ThreadInv
<1>3. Taken'
  BY <1>1 DEF ThreadInv, Taken, Early, request
<1>4. ASSUME ~moved', phase # "idle"
      PROVE  ~moved /\ \A p \in Ids : Same(p)
  <2>1. CASE posts' = posts
    <3>1. ~moved
      <4>1. CASE moved' = moved
        BY <1>4, <4>1
      <4>2. CASE moved' = (moved \/ \E p \in Ids : ~Live(p) /\ Live(p)')
        BY <1>4, <4>2
      <4> QED BY <1>1, <4>1, <4>2
    <3>2. \A p \in Ids : Same(p)
      BY <2>1, SamePosts DEF ThreadInv
    <3> QED BY <3>1, <3>2
  <2>2. CASE posts' # posts
    <3>1. TablesStep
      BY <2>2 DEF Reload, vars, tableVars, tables
    <3>2. moved' = (moved \/ \E p \in Ids : ~Live(p) /\ Live(p)') /\ TablesNext
      BY <1>4, <3>1 DEF TablesStep
    <3>3. PostsInv /\ ~moved /\ ~(\E p \in Ids : ~Live(p) /\ Live(p)')
      BY <1>4, <3>2 DEF ThreadInv
    <3> QED BY <3>2, <3>3, TablesKeep
  <2> QED BY <2>1, <2>2
<1>5. ~moved' /\ phase' # "idle" => Grown'
  BY <1>1, <1>4, SameGrown DEF ThreadInv, request
<1>6. ~moved' /\ phase' = "hide" => Checking'
  BY <1>1, <1>4, SameChecking DEF ThreadInv, request
<1> QED BY <1>2, <1>3, <1>5, <1>6 DEF ThreadInv

LEMMA StepInv == ThreadInv /\ [Next]_vars => ThreadInv'
<1> SUFFICES ASSUME ThreadInv, [Next]_vars PROVE ThreadInv'
  OBVIOUS
<1>1. CASE Request
  BY <1>1, CheckInv, LevelInv, LoadInv, JudgeInv, AnswerInv, HideInv, PruneInv DEF Request
<1>2. CASE \E r \in Ids : Find(r)
  BY <1>2, FindInv
<1>3. CASE Reload \/ TablesStep \/ UNCHANGED vars
  BY <1>3, OutsideInv
<1> QED BY <1>1, <1>2, <1>3 DEF Next, Rest

-----------------------------------------------------------------------------
(* What the request promises. *)

\* As long as no post is made again under another, the answer is one tree and nothing
\* is left in it of what hangs under a post taken out: for any posts, replies, mute
\* lists and changes between the queries (bridge_api/thread.py).
THEOREM AlwaysConnected == Spec => []Connected
<1>1. ThreadInv => Connected
  <2> SUFFICES ASSUME ThreadInv, phase = "done", ~moved, NEW p \in shown \ {root}
               PROVE  \E q \in DOMAIN tree : /\ p \in tree[q]
                                             /\ p \notin UNION {tree[x] : x \in DOMAIN tree \ {q}}
                                             /\ q \notin out
    BY DEF Connected
  <2>1. Grown /\ rem = {} /\ p \in ids
    BY DEF ThreadInv, Taken
  <2>2. PICK q \in DOMAIN tree : p \in tree[q]
    BY <2>1 DEF Grown, Found
  <2>3. \A x \in DOMAIN tree : p \in tree[x] => x = q
    BY <2>1, <2>2 DEF Grown, Child
  <2>4. q \notin out
    BY <2>1, <2>2 DEF ThreadInv, Taken
  <2> QED BY <2>2, <2>3, <2>4
<1> QED BY <1>1, InitInv, StepInv, PTL DEF Spec

-----------------------------------------------------------------------------
(* The posts that stay: found once whatever is made again beside them. *)

Watched ==
    /\ \A p \in fixed : p \in Ids /\ Live(p)
    /\ \A p \in clear : p \in Ids /\ Clear(p)
    /\ \A v \in veils : v[1] \in Ids /\ v \in Veils(v[1])
    /\ phase = "idle" => fixed = {} /\ clear = {} /\ veils = {}

\* With a post that stays, all above it stay.
Upward ==
    \A p \in fixed : posts[p].parent # NoPost => posts[p].parent \in fixed

\* Of the posts that stay, those found are under their parents in the tree, below
\* the root, and are read once.
Kept ==
    /\ root \in Ids /\ root \in ids \cup todo
    /\ ids \subseteq Ids /\ todo \subseteq Ids
    /\ DOMAIN tree \subseteq ids
    /\ fixed \cap ids \cap todo = {}
    /\ \A q \in DOMAIN tree : \A p \in tree[q] \cap fixed :
          posts[p].parent = q /\ p \in ids \cup todo /\ p # root
    /\ \A p \in fixed \cap (ids \cup todo) : p # root =>
          /\ posts[p].parent \in DOMAIN tree /\ p \in tree[posts[p].parent]
          /\ root \in fixed => posts[p].depth > posts[root].depth

\* The replies to be checked that stay were not found before.
KeptRows ==
    /\ api = "bridge" /\ DOMAIN rows \subseteq ids
    /\ \A q \in DOMAIN rows :
          /\ rows[q] \subseteq Ids
          /\ q \in fixed => q \notin DOMAIN tree
          /\ \A p \in rows[q] : p \in fixed =>
                /\ posts[p].parent = q /\ p \notin ids \cup todo
                /\ root \in fixed => posts[p].depth > posts[root].depth
          /\ \A p \in rows[q] : <<p, "author">> \notin veils

\* No open reply to a post read is missed.
NoneMissed ==
    \A p \in fixed \cap clear : posts[p].parent \in ids =>
        \/ p \in ids \cup todo
        \/ /\ phase = "hide" /\ posts[p].parent \in DOMAIN rows
           /\ p \in rows[posts[p].parent]

\* Nothing hidden is found, the root apart: it ends the request.
NoneHidden ==
    \A v \in veils : v[2] # "muted" =>
        IF v[1] = root
        THEN /\ ids = {} /\ phase \in {"author", "post", "done"}
             /\ phase = "post" => v[2] # "author"
        ELSE v[1] \notin ids \cup todo

\* What the end of a request knows of all it has read.
Ended ==
    /\ phase \in {"author", "post"} => api = "bridge"
    /\ phase \in {"load", "judge", "prune"} => todo = {}
    /\ phase = "done" => todo = {} \/ (root \notin clear /\ ids = {})
    /\ Early => todo = {root}
    /\ phase \notin {"judge", "prune", "done"} => shown = {}
    /\ phase \notin {"prune", "done"} => rem = {} /\ out = {}
    /\ shown \cap out = {}
    /\ \A q \in out \cap DOMAIN tree : tree[q] \subseteq rem \cup out

\* The open posts loaded are taken out only with their parents; the muted ones
\* are taken out.
Judged ==
    /\ \A p \in fixed \cap clear \cap ids : p \in shown \cup out
    /\ phase \in {"prune", "done"} =>
          /\ \A p \in fixed \cap clear \cap (rem \cup out) :
                p # root /\ posts[p].parent \in out
    /\ \A v \in veils : v[2] = "muted" /\ v[1] \in ids =>
          v[1] \in IF phase = "judge" THEN shown ELSE rem \cup out

StayInv ==
    /\ Watched
    /\ phase # "idle" =>
          Upward /\ Kept /\ NoneMissed /\ NoneHidden /\ Ended
    /\ phase = "hide" => KeptRows
    /\ phase \in {"judge", "prune", "done"} => Judged

\* What the request sees of a post is as before.
LEMMA SameSight ==
  ASSUME UNCHANGED <<tableVars, muted, api>>
  PROVE  /\ Ids' = Ids
         /\ \A p : Live(p)' <=> Live(p)
         /\ \A p : Clear(p)' <=> Clear(p)
         /\ \A p : Veils(p)' = Veils(p)
<1>1. \A k, p : Has(k, p)' <=> Has(k, p)
  BY DEF Has, tableVars, tables
<1>2. HiddenAuthors' = HiddenAuthors
  BY DEF HiddenAuthors, tableVars, tables
<1>3. \A p : Muted(p)' <=> Muted(p)
  BY DEF Muted, tableVars, tables
<1>4. \A p : Hidden(p)' <=> Hidden(p)
  BY <1>1, <1>2 DEF Hidden, tableVars, tables
<1>5. \A p : Clear(p)' <=> Clear(p)
  BY <1>3, <1>4 DEF Clear, tableVars, tables
<1>6. \A p : Veils(p)' = Veils(p)
  BY <1>1, <1>2, <1>3 DEF Veils, tableVars, tables
<1> QED BY <1>5, <1>6 DEF Live, Ids, tableVars, tables

LEMMA VeilFacts ==
  ASSUME NEW v, NEW p, v \in Veils(p)
  PROVE  /\ v = <<p, v[2]>> /\ v[1] = p /\ v[2] \in {"post", "author", "muted"}
         /\ v[2] = "post" => api = "bridge" /\ Has(1, p)
         /\ v[2] = "author" => api = "bridge" /\ posts[p].author \in HiddenAuthors
         /\ v[2] = "muted" => Muted(p)
<1>1. PICK why \in {"post", "author", "muted"} :
        /\ v = <<p, why>>
        /\ CASE why = "post" -> api = "bridge" /\ Has(1, p)
             [] why = "author" -> api = "bridge" /\ posts[p].author \in HiddenAuthors
             [] why = "muted" -> Muted(p)
  BY DEF Veils
<1>2. v[1] = p /\ v[2] = why
  BY <1>1
<1>3. CASE why = "post"
  BY <1>1, <1>2, <1>3
<1>4. CASE why = "author"
  BY <1>1, <1>2, <1>4
<1>5. CASE why = "muted"
  BY <1>1, <1>2, <1>5
<1> QED BY <1>3, <1>4, <1>5

\* What a step on the tables or on the list of muted accounts leaves of the posts
\* that stay; so does a step that leaves these alone.
Steady ==
    /\ Ids \subseteq Ids' /\ Watched' /\ Upward'
    /\ fixed' \subseteq fixed /\ clear' \subseteq clear /\ veils' \subseteq veils
    /\ \A p \in fixed' : posts'[p].parent = posts[p].parent /\ posts'[p].depth = posts[p].depth

LEMMA QuietSteady ==
  ASSUME StayInv, phase # "idle", phase' # "idle",
         UNCHANGED <<tableVars, muted, api, fixed, clear, veils>>
  PROVE  Steady
<1>1. Watched' /\ Ids \subseteq Ids'
  BY SameSight DEF StayInv, Watched
<1>2. posts' = posts
  BY DEF tableVars, tables
<1> QED BY <1>1, <1>2 DEF StayInv, Steady, Upward

LEMMA TablesSteady ==
  ASSUME StayInv, ThreadInv, phase # "idle", phase' # "idle", Watch,
         TablesNext \/ posts' = posts
  PROVE  Steady
<1>1. PostsInv' /\ Ids \subseteq Ids' /\ \A p \in Ids : Live(p) => Same(p)
  BY TablesKeep, SamePosts DEF ThreadInv, Same
<1>2. /\ fixed' \subseteq fixed /\ clear' \subseteq clear /\ veils' \subseteq veils
      /\ \A p \in fixed' : Live(p)'
      /\ \A p \in clear' : Clear(p)'
      /\ \A v \in veils' : v \in Veils(v[1])'
  BY DEF Watch
<1>3. /\ \A p \in fixed : p \in Ids /\ Live(p)
      /\ \A p \in clear : p \in Ids
      /\ \A v \in veils : v[1] \in Ids
  BY DEF StayInv, Watched
<1>4. \A p \in fixed' : p \in Ids' /\ Same(p)
  BY <1>1, <1>2, <1>3
<1>5. Watched'
  BY <1>1, <1>2, <1>3 DEF Watched
<1>6. Upward'
  <2> SUFFICES ASSUME NEW p \in fixed', posts'[p].parent # NoPost
               PROVE  posts'[p].parent \in fixed'
    BY DEF Upward
  <2>1. Hangs(p)'
    BY <1>1, <1>2, <1>4 DEF PostsInv
  <2>2. posts[p].parent \in fixed
    BY <1>2, <1>4 DEF StayInv, Upward, Same
  <2>3. posts[p].parent = posts'[p].parent /\ Live(posts[p].parent)'
    BY <1>4, <2>1 DEF Same, Hangs, Live
  <2> QED BY <2>2, <2>3 DEF Watch
<1> QED BY <1>1, <1>2, <1>4, <1>5, <1>6 DEF Steady, Same

\* A step that leaves the tree alone.
LEMMA StillKept ==
  ASSUME Steady, Kept, UNCHANGED <<root, ids, todo, tree>>
  PROVE  Kept'
BY DEF Steady, Kept

LEMMA StillRows ==
  ASSUME Steady, KeptRows, UNCHANGED <<api, root, ids, todo, tree, rows>>
  PROVE  KeptRows'
BY DEF Steady, KeptRows

LEMMA StillNoneMissed ==
  ASSUME Steady, NoneMissed, UNCHANGED <<ids, todo, rows>>,
         phase' = "hide" <=> phase = "hide"
  PROVE  NoneMissed'
<1> SUFFICES ASSUME NEW p \in fixed' \cap clear', posts'[p].parent \in ids'
             PROVE  \/ p \in ids' \cup todo'
                    \/ /\ phase' = "hide" /\ posts'[p].parent \in DOMAIN rows'
                       /\ p \in rows'[posts'[p].parent]
  BY DEF NoneMissed
<1>1. p \in fixed \cap clear /\ posts'[p].parent = posts[p].parent
  BY DEF Steady
<1> QED BY <1>1 DEF NoneMissed

LEMMA StillNoneHidden ==
  ASSUME Steady, NoneHidden, UNCHANGED <<root, ids, todo>>,
         phase' = phase \/ phase \in {"load", "judge", "prune"}
  PROVE  NoneHidden'
<1>1. \A v \in veils' : v \in veils
  BY DEF Steady
<1> SUFFICES ASSUME NEW v \in veils', v[2] # "muted"
             PROVE  IF v[1] = root
                    THEN /\ ids = {} /\ phase' \in {"author", "post", "done"}
                         /\ phase' = "post" => v[2] # "author"
                    ELSE v[1] \notin ids \cup todo
  BY DEF NoneHidden
<1>2. IF v[1] = root
      THEN /\ ids = {} /\ phase \in {"author", "post", "done"}
           /\ phase = "post" => v[2] # "author"
      ELSE v[1] \notin ids \cup todo
  BY <1>1 DEF NoneHidden
<1> QED BY <1>2

LEMMA StillJudged ==
  ASSUME Steady, Judged, UNCHANGED <<root, ids, shown, rem, out>>,
         phase' = phase \/ (phase = "prune" /\ phase' = "done")
  PROVE  Judged'
<1>1. \A p \in fixed' \cap clear' : p \in fixed \cap clear /\ posts'[p].parent = posts[p].parent
  BY DEF Steady
<1>2. \A v \in veils' : v \in veils
  BY DEF Steady
<1>3. phase' \in {"prune", "done"} => phase \in {"prune", "done"}
  OBVIOUS
<1>4. phase' = "judge" <=> phase = "judge"
  OBVIOUS
<1>5. \A p \in fixed' \cap clear' \cap ids' : p \in shown' \cup out'
  BY <1>1 DEF Judged
<1>6. phase' \in {"prune", "done"} =>
        \A p \in fixed' \cap clear' \cap (rem' \cup out') :
            p # root' /\ posts'[p].parent \in out'
  BY <1>1, <1>3 DEF Judged
<1>7. \A v \in veils' : v[2] = "muted" /\ v[1] \in ids' =>
        v[1] \in IF phase' = "judge" THEN shown' ELSE rem' \cup out'
  BY <1>2, <1>4 DEF Judged
<1> QED BY <1>5, <1>6, <1>7 DEF Judged

\* A step on the tables, a reload, or a step that changes nothing.
LEMMA OutsideStay ==
  ASSUME ThreadInv, StayInv, TablesStep \/ Reload \/ UNCHANGED vars
  PROVE  StayInv'
<1>1. UNCHANGED <<request, out>>
  BY DEF TablesStep, Reload, vars, watch
<1>2. CASE phase = "idle"
  <2>1. fixed' = {} /\ clear' = {} /\ veils' = {}
    BY <1>2 DEF StayInv, Watched, TablesStep, Reload, vars, watch
  <2> QED BY <1>1, <1>2, <2>1 DEF StayInv, Watched, request
<1>3. CASE phase # "idle"
  <2>1. Steady
    <3>1. CASE UNCHANGED vars
      BY <1>3, <3>1, QuietSteady DEF vars, watch, request
    <3>2. CASE TablesStep
      <4>1. Watch /\ TablesNext
        BY <1>3, <3>2 DEF TablesStep
      <4> QED BY <1>1, <1>3, <4>1, TablesSteady DEF request
    <3>3. CASE Reload
      <4>1. Watch /\ posts' = posts
        BY <3>3 DEF Reload, tableVars, tables
      <4> QED BY <1>1, <1>3, <4>1, TablesSteady DEF request
    <3> QED BY <3>1, <3>2, <3>3
  <2>2. UNCHANGED <<phase, api, root, ids, tree, todo, rows, shown, rem, out>>
    BY <1>1 DEF request
  <2>3. Kept' /\ NoneMissed' /\ NoneHidden'
    BY <1>3, <2>1, <2>2, StillKept, StillNoneMissed, StillNoneHidden DEF StayInv
  <2>4. Ended'
    BY <1>3, <2>1, <2>2 DEF StayInv, Ended, Early, Steady
  <2>5. phase' = "hide" => KeptRows'
    BY <2>1, <2>2, StillRows DEF StayInv
  <2>6. phase' \in {"judge", "prune", "done"} => Judged'
    BY <2>1, <2>2, StillJudged DEF StayInv
  <2> QED BY <2>1, <2>3, <2>4, <2>5, <2>6 DEF StayInv, Steady
<1> QED BY <1>2, <1>3

LEMMA FindStay ==
  ASSUME ThreadInv, StayInv, NEW r \in Ids, Find(r)
  PROVE  StayInv'
<1>1. /\ UNCHANGED <<tableVars, muted, api>> /\ posts' = posts /\ Ids' = Ids
      /\ phase' = IF api = "bridge" THEN "author" ELSE "level"
      /\ root' = r /\ todo' = {r}
      /\ fixed' = {p \in Ids : Live(p)}
      /\ clear' = {p \in Ids : Clear(p)}
      /\ veils' = UNION {Veils(p) : p \in Ids}
      /\ phase = "idle" /\ UNCHANGED <<ids, tree, shown, rem, out>>
  BY DEF Find, tableVars, tables, Ids
<1>2. ids' = {} /\ DOMAIN tree' = {} /\ shown' = {} /\ rem' = {} /\ out' = {}
  BY <1>1 DEF ThreadInv, Taken, Early
<1>3. Watched'
  <2>1. \A v \in veils' : v[1] \in Ids /\ v \in Veils(v[1])
    BY <1>1, VeilFacts
  <2>2. /\ \A p \in fixed' : p \in Ids' /\ Live(p)'
        /\ \A p \in clear' : p \in Ids' /\ Clear(p)'
        /\ \A v \in veils' : v[1] \in Ids' /\ v \in Veils(v[1])'
    BY <1>1, <2>1, SameSight
  <2> QED BY <1>1, <2>2 DEF Watched
<1>4. Upward'
  BY <1>1 DEF Upward, ThreadInv, PostsInv, Hangs, Live
<1>5. Kept'
  BY <1>1, <1>2 DEF Kept
<1>6. NoneMissed'
  BY <1>2 DEF NoneMissed
<1>7. NoneHidden'
  <2> SUFFICES ASSUME NEW v \in veils', v[2] # "muted"
               PROVE  phase' = "author"
    BY <1>1, <1>2 DEF NoneHidden
  <2>1. PICK p \in Ids : v \in Veils(p)
    BY <1>1
  <2> QED BY <1>1, <2>1, VeilFacts
<1>8. Ended'
  BY <1>1, <1>2 DEF Ended, Early
<1> QED BY <1>1, <1>3, <1>4, <1>5, <1>6, <1>7, <1>8 DEF StayInv

LEMMA CheckStay ==
  ASSUME ThreadInv, StayInv, CheckAuthor \/ CheckPost
  PROVE  StayInv'
<1>1. /\ UNCHANGED <<tableVars, muted, api, fixed, clear, veils>>
      /\ UNCHANGED <<root, ids, tree, todo, rows, shown, rem, out>>
      /\ phase' \in {"done", "post", "level"} /\ phase \in {"author", "post"}
  BY DEF CheckAuthor, CheckPost, watch
<1>2. Steady
  BY <1>1, QuietSteady
<1>3. /\ ids = {} /\ DOMAIN tree = {} /\ todo = {root} /\ api = "bridge"
      /\ shown = {} /\ rem = {} /\ out = {} /\ root \in Ids
  BY <1>1 DEF StayInv, ThreadInv, Ended, Taken, Early, Kept
<1>4. Kept' /\ NoneMissed'
  BY <1>1, <1>2, StillKept, StillNoneMissed DEF StayInv
<1>5. NoneHidden'
  <2> SUFFICES ASSUME NEW v \in veils, v[2] # "muted", v[1] = root
               PROVE  phase' \in {"post", "done"} /\ (phase' = "post" => v[2] # "author")
    BY <1>1, <1>3 DEF NoneHidden
  <2>1. /\ v[2] \in {"post", "author"}
        /\ v[2] = "post" => Has(1, root)
        /\ v[2] = "author" => posts[root].author \in HiddenAuthors
    BY VeilFacts DEF StayInv, Watched
  <2>2. CASE CheckAuthor
    BY <2>1, <2>2 DEF CheckAuthor
  <2>3. CASE CheckPost
    <3>1. v[2] = "post"
      <4>1. phase = "post" /\ NoneHidden
        BY <1>1, <2>3 DEF StayInv, CheckPost
      <4>2. v[2] # "author"
        BY <4>1 DEF NoneHidden
      <4> QED BY <2>1, <4>2
    <3> QED BY <2>1, <2>3, <3>1 DEF CheckPost
  <2> QED BY <2>2, <2>3
<1>6. phase' = "done" => root \notin clear
  <2>1. phase' = "done" => Hidden(root)
    BY <1>3 DEF CheckAuthor, CheckPost, Hidden
  <2> QED BY <2>1 DEF StayInv, Watched, Clear
<1>7. Ended'
  BY <1>1, <1>3, <1>6 DEF Ended, Early
<1>8. Judged'
  BY <1>1, <1>3 DEF Judged
<1> QED BY <1>1, <1>2, <1>4, <1>5, <1>7, <1>8 DEF StayInv, Steady

\* A reply that stays hangs under a post that stays, and is new with its level.
LEMMA StayingReplies ==
  ASSUME PostsInv, StayInv, phase # "idle", NEW q \in todo, NEW p \in Replies(q), p \in fixed
  PROVE  /\ q \in fixed /\ q \notin ids /\ posts[p].parent = q
         /\ p \in Ids /\ p \notin ids \cup todo /\ p # root
         /\ root \in fixed => posts[p].depth > posts[root].depth
<1>1. /\ p \in Ids /\ q \in Ids /\ root \in Ids /\ NoPost \notin Ids
      /\ posts[p] \in PostRow /\ posts[q] \in PostRow /\ posts[root] \in PostRow
      /\ posts[p].parent = q /\ Live(p) /\ Kept /\ Upward
  BY PostsFacts DEF StayInv, Kept, Replies
<1>2. q \in fixed /\ q \notin ids
  BY <1>1 DEF Upward, Kept
<1>3. posts[p].depth = posts[q].depth + 1
  BY <1>1 DEF PostsInv, Hangs
<1>4. posts[p].depth \in Nat /\ posts[q].depth \in Nat /\ posts[root].depth \in Nat
  BY <1>1 DEF PostRow
<1>5. root \in fixed => q = root \/ posts[q].depth > posts[root].depth
  BY <1>1, <1>2 DEF Kept
<1>6. root \in fixed => posts[p].depth > posts[root].depth
  BY <1>3, <1>4, <1>5
<1>7. p # root
  BY <1>4, <1>6
<1>8. p \notin ids \cup todo
  BY <1>1, <1>2, <1>7 DEF Kept
<1> QED BY <1>1, <1>2, <1>6, <1>7, <1>8

LEMMA LevelStay ==
  ASSUME ThreadInv, StayInv, Level
  PROVE  StayInv'
<1> DEFINE found == [q \in {x \in todo : Replies(x) # {}} |-> Replies(q)]
           next == UNION {found[q] : q \in DOMAIN found}
<1>1. /\ UNCHANGED <<tableVars, muted, api, fixed, clear, veils>>
      /\ UNCHANGED <<root, shown, rem, out>> /\ posts' = posts
      /\ phase = "level" /\ ids' = ids \cup todo
  BY DEF Level, tableVars, tables, watch
<1>2. \/ /\ api = "bridge" /\ next # {}
         /\ rows' = found /\ todo' = {} /\ phase' = "hide" /\ tree' = tree
      \/ /\ ~(api = "bridge" /\ next # {})
         /\ tree' = TreeWith(found) /\ todo' = next
         /\ phase' = AfterLevel(next)
  BY DEF Level
<1>3. phase' \in {"hide", "level", "load"}
  BY <1>2 DEF AfterLevel
<1>4. Steady
  BY <1>1, <1>3, QuietSteady
<1>5. /\ Kept /\ NoneMissed /\ NoneHidden /\ Ended /\ Upward /\ Watched /\ PostsInv
      /\ Ids' = Ids
  BY <1>1 DEF StayInv, ThreadInv, Ids
<1>6. /\ DOMAIN found \subseteq todo
      /\ \A q \in DOMAIN found : found[q] = Replies(q)
      /\ \A q \in todo : \A p \in Replies(q) : q \in DOMAIN found /\ p \in found[q] /\ p \in next
      /\ \A p \in next : \E q \in DOMAIN found : p \in found[q]
  OBVIOUS
<1>7. ASSUME NEW q \in DOMAIN found, NEW p \in found[q], p \in fixed
      PROVE  /\ q \in fixed /\ q \notin ids /\ posts[p].parent = q
             /\ p \in Ids /\ p \notin ids \cup todo /\ p # root
             /\ root \in fixed => posts[p].depth > posts[root].depth
  BY <1>1, <1>5, <1>6, <1>7, StayingReplies
<1>8. \A q \in DOMAIN found : \A p \in found[q] : p \in Ids
  BY <1>6 DEF Replies
<1> HIDE DEF found, next
<1>9. ASSUME NEW p \in fixed \cap clear, posts[p].parent \in ids'
      PROVE  \/ p \in ids \cup todo
             \/ /\ posts[p].parent \in DOMAIN found /\ p \in next
                /\ p \in found[posts[p].parent]
  <2>1. CASE posts[p].parent \in ids
    BY <1>1, <1>5, <1>9, <2>1 DEF NoneMissed
  <2>2. CASE posts[p].parent \in todo
    <3>1. p \in Ids /\ Live(p) /\ (api = "bridge" => posts[p].author \notin HiddenAuthors)
      BY <1>5 DEF Watched, Clear, Hidden
    <3>2. p \in Replies(posts[p].parent)
      BY <3>1 DEF Replies
    <3> QED BY <1>6, <2>2, <3>2
  <2> QED BY <1>1, <1>9, <2>1, <2>2
<1>10. Kept' /\ (phase' = "hide" => KeptRows')
  <2>1. CASE /\ api = "bridge" /\ next # {}
             /\ rows' = found /\ todo' = {} /\ phase' = "hide" /\ tree' = tree
    <3>1. Kept'
      BY <1>1, <1>5, <2>1 DEF Kept
    <3>2. \A q \in DOMAIN found : \A p \in found[q] : <<p, "author">> \notin veils
      <4> SUFFICES ASSUME NEW q \in DOMAIN found, NEW p \in found[q], <<p, "author">> \in veils
                   PROVE  FALSE
        OBVIOUS
      <4>1. <<p, "author">> \in Veils(p)
        BY <1>5 DEF Watched
      <4>2. posts[p].author \in HiddenAuthors
        BY <4>1, VeilFacts
      <4> QED BY <1>6, <2>1, <4>2 DEF Replies
    <3>3. \A q \in DOMAIN found : q \in fixed => q \notin DOMAIN tree
      BY <1>5, <1>6 DEF Kept
    <3>4. \A q \in DOMAIN found : \A p \in found[q] : p \in fixed =>
            /\ posts[p].parent = q /\ p \notin ids' \cup todo'
            /\ root \in fixed => posts[p].depth > posts[root].depth
      BY <1>1, <1>7, <2>1
    <3>5. \A q \in DOMAIN found : found[q] \subseteq Ids'
      BY <1>5, <1>8
    <3>6. KeptRows'
      BY <1>1, <1>6, <2>1, <3>2, <3>3, <3>4, <3>5 DEF KeptRows
    <3> QED BY <3>1, <3>6
  <2>2. CASE tree' = TreeWith(found) /\ todo' = next /\ phase' = AfterLevel(next)
    <3>1. /\ DOMAIN tree' = DOMAIN found \cup DOMAIN tree
          /\ \A q \in DOMAIN found : tree'[q] = found[q]
          /\ \A q \in DOMAIN tree : q \notin DOMAIN found => tree'[q] = tree[q]
      BY <2>2 DEF TreeWith
    <3>2. \A q \in DOMAIN tree' : \A p \in tree'[q] \cap fixed :
            posts[p].parent = q /\ p \in ids' \cup todo' /\ p # root
      <4> SUFFICES ASSUME NEW q \in DOMAIN tree', NEW p \in tree'[q] \cap fixed
                   PROVE  posts[p].parent = q /\ p \in ids' \cup todo' /\ p # root
        OBVIOUS
      <4>1. CASE q \in DOMAIN found
        <5>1. p \in found[q] /\ p \in next
          BY <1>6, <3>1, <4>1
        <5> QED BY <1>7, <2>2, <4>1, <5>1
      <4>2. CASE q \notin DOMAIN found
        BY <1>1, <1>5, <3>1, <4>2 DEF Kept
      <4> QED BY <4>1, <4>2
    <3>3. ASSUME NEW p \in fixed \cap (ids' \cup todo'), p # root
          PROVE  /\ posts[p].parent \in DOMAIN tree' /\ p \in tree'[posts[p].parent]
                 /\ root \in fixed => posts[p].depth > posts[root].depth
      <4>1. CASE p \in next
        BY <1>6, <1>7, <3>1, <4>1
      <4>2. CASE p \in ids \cup todo
        <5>1. /\ posts[p].parent \in DOMAIN tree /\ p \in tree[posts[p].parent]
              /\ root \in fixed => posts[p].depth > posts[root].depth
          BY <1>5, <3>3, <4>2 DEF Kept
        <5>2. posts[p].parent \in fixed
          <6>1. posts[p].parent \in Ids /\ NoPost \notin Ids
            BY <1>5, <5>1, PostsFacts DEF Kept
          <6> QED BY <1>5, <6>1 DEF Upward
        <5>3. posts[p].parent \notin DOMAIN found
          BY <1>5, <1>6, <5>1, <5>2 DEF Kept
        <5> QED BY <3>1, <5>1, <5>3
      <4> QED BY <1>1, <2>2, <3>3, <4>1, <4>2
    <3>4. \A p \in next : p \in Ids /\ (p \in fixed => p \notin ids')
      BY <1>1, <1>6, <1>7, <1>8
    <3>5. root' \in Ids' /\ root' \in ids' /\ ids' \subseteq Ids' /\ todo' \subseteq Ids'
      BY <1>1, <1>5, <2>2, <3>4 DEF Kept
    <3>6. DOMAIN tree' \subseteq ids' /\ fixed' \cap ids' \cap todo' = {}
      BY <1>1, <1>5, <1>6, <2>2, <3>1, <3>4 DEF Kept
    <3>7. Kept'
      BY <1>1, <3>2, <3>3, <3>5, <3>6 DEF Kept
    <3>8. phase' # "hide"
      BY <2>2 DEF AfterLevel
    <3> QED BY <3>7, <3>8
  <2> QED BY <1>2, <2>1, <2>2
<1>11. NoneMissed'
  <2> SUFFICES ASSUME NEW p \in fixed \cap clear, posts[p].parent \in ids'
               PROVE  \/ p \in ids' \cup todo'
                      \/ /\ phase' = "hide" /\ posts[p].parent \in DOMAIN rows'
                         /\ p \in rows'[posts[p].parent]
    BY <1>1 DEF NoneMissed
  <2> QED BY <1>1, <1>2, <1>9
<1>12. NoneHidden'
  <2> SUFFICES ASSUME NEW v \in veils, v[2] # "muted"
               PROVE  v[1] # root /\ v[1] \notin ids' \cup todo'
    BY <1>1 DEF NoneHidden
  <2>1. v[1] # root /\ v[1] \notin ids \cup todo
    BY <1>1, <1>5 DEF NoneHidden
  <2>2. api = "bridge"
    BY <1>5, VeilFacts DEF Watched
  <2> QED BY <1>1, <1>2, <2>1, <2>2
<1>13. Ended'
  <2>1. phase' = "load" => todo' = {}
    BY <1>2 DEF AfterLevel
  <2> QED BY <1>1, <1>3, <1>5, <2>1 DEF Ended, Early
<1> QED BY <1>3, <1>4, <1>10, <1>11, <1>12, <1>13 DEF StayInv, Steady

LEMMA HideStay ==
  ASSUME ThreadInv, StayInv, NEW q \in Ids, Hide(q)
  PROVE  StayInv'
<1> DEFINE cids == {p \in rows[q] : ~Has(1, p)}
<1>1. /\ UNCHANGED <<tableVars, muted, api, fixed, clear, veils>>
      /\ UNCHANGED <<root, shown, rem, out, ids>> /\ posts' = posts
      /\ phase = "hide" /\ q \in DOMAIN rows
      /\ tree' = TreeWith([x \in {q} |-> cids])
      /\ todo' = todo \cup cids
      /\ rows' = [x \in DOMAIN rows \ {q} |-> rows[x]]
      /\ phase' = IF rows' = <<>> THEN AfterLevel(todo') ELSE "hide"
  BY DEF Hide, tableVars, tables, watch
<1>2. phase' \in {"hide", "level", "load"} /\ (phase' = "load" => todo' = {})
  BY <1>1 DEF AfterLevel
<1>3. Steady
  BY <1>1, <1>2, QuietSteady
<1>4. /\ Kept /\ KeptRows /\ NoneMissed /\ NoneHidden /\ Ended /\ Upward /\ Watched /\ PostsInv
      /\ Ids' = Ids
  BY <1>1 DEF StayInv, ThreadInv, Ids
<1>5. /\ DOMAIN tree' = {q} \cup DOMAIN tree
      /\ tree'[q] = cids
      /\ \A x \in DOMAIN tree : x # q => tree'[x] = tree[x]
  BY <1>1 DEF TreeWith
<1>6. ASSUME NEW p \in cids, p \in fixed
      PROVE  /\ posts[p].parent = q /\ p \notin ids \cup todo /\ p # root
             /\ root \in fixed => posts[p].depth > posts[root].depth
  BY <1>1, <1>4, <1>6 DEF KeptRows, Kept
<1>7. q \in fixed => q \notin DOMAIN tree
  BY <1>1, <1>4 DEF KeptRows
<1>8. cids \subseteq Ids
  BY <1>1, <1>4 DEF KeptRows
<1>9. \A p \in cids : p \in rows[q]
  OBVIOUS
<1> HIDE DEF cids
<1>10. Kept'
  <2>1. \A x \in DOMAIN tree' : \A p \in tree'[x] \cap fixed :
          posts[p].parent = x /\ p \in ids' \cup todo' /\ p # root
    BY <1>1, <1>4, <1>5, <1>6 DEF Kept
  <2>2. ASSUME NEW p \in fixed \cap (ids' \cup todo'), p # root
        PROVE  /\ posts[p].parent \in DOMAIN tree' /\ p \in tree'[posts[p].parent]
               /\ root \in fixed => posts[p].depth > posts[root].depth
    <3>1. CASE p \in cids
      BY <1>5, <1>6, <3>1
    <3>2. CASE p \in ids \cup todo
      <4>1. /\ posts[p].parent \in DOMAIN tree /\ p \in tree[posts[p].parent]
            /\ root \in fixed => posts[p].depth > posts[root].depth
        BY <1>4, <2>2, <3>2 DEF Kept
      <4>2. posts[p].parent \in fixed
        <5>1. posts[p].parent \in Ids /\ NoPost \notin Ids
          BY <1>4, <4>1, PostsFacts DEF Kept
        <5> QED BY <1>4, <5>1 DEF Upward
      <4> QED BY <1>5, <1>7, <4>1, <4>2
    <3> QED BY <1>1, <2>2, <3>1, <3>2
  <2>3. fixed \cap ids \cap todo' = {}
    BY <1>1, <1>4, <1>6 DEF Kept
  <2>4. q \in ids
    BY <1>1, <1>4 DEF KeptRows
  <2> QED BY <1>1, <1>4, <1>5, <1>8, <2>1, <2>2, <2>3, <2>4 DEF Kept
<1>11. KeptRows'
  <2>1. DOMAIN rows' = DOMAIN rows \ {q} /\ \A x \in DOMAIN rows' : rows'[x] = rows[x]
    BY <1>1
  <2>2. ASSUME NEW x \in DOMAIN rows', NEW p \in rows'[x], p \in fixed
        PROVE  /\ posts[p].parent = x /\ p \notin ids \cup todo'
               /\ root \in fixed => posts[p].depth > posts[root].depth
    <3>1. /\ posts[p].parent = x /\ p \notin ids \cup todo
          /\ root \in fixed => posts[p].depth > posts[root].depth
      BY <1>4, <2>1, <2>2 DEF KeptRows
    <3>2. p \notin cids
      BY <1>6, <2>1, <2>2, <3>1
    <3> QED BY <1>1, <3>1, <3>2
  <2>3. \A x \in DOMAIN rows' : \A p \in rows'[x] : <<p, "author">> \notin veils
    BY <1>4, <2>1 DEF KeptRows
  <2>4. \A x \in DOMAIN rows' : x \in fixed => x \notin DOMAIN tree'
    BY <1>4, <1>5, <2>1 DEF KeptRows
  <2> QED BY <1>1, <1>4, <2>1, <2>2, <2>3, <2>4 DEF KeptRows
<1>12. NoneMissed'
  <2> SUFFICES ASSUME NEW p \in fixed \cap clear, posts[p].parent \in ids,
                      p \notin ids \cup todo'
               PROVE  /\ phase' = "hide" /\ posts[p].parent \in DOMAIN rows'
                      /\ p \in rows'[posts[p].parent]
    BY <1>1 DEF NoneMissed
  <2>1. posts[p].parent \in DOMAIN rows /\ p \in rows[posts[p].parent]
    BY <1>1, <1>4 DEF NoneMissed
  <2>2. ~Has(1, p)
    BY <1>4 DEF Watched, Clear, Hidden, KeptRows
  <2>3. posts[p].parent # q
    BY <1>1, <2>1, <2>2 DEF cids
  <2>4. posts[p].parent \in DOMAIN rows' /\ p \in rows'[posts[p].parent]
    BY <1>1, <2>1, <2>3
  <2>5. rows' # <<>>
    BY <2>4, EmptySeq
  <2> QED BY <1>1, <2>4, <2>5
<1>13. NoneHidden'
  <2> SUFFICES ASSUME NEW v \in veils, v[2] # "muted"
               PROVE  v[1] # root /\ v[1] \notin ids \cup todo'
    BY <1>1 DEF NoneHidden
  <2>1. v[1] # root /\ v[1] \notin ids \cup todo
    BY <1>1, <1>4 DEF NoneHidden
  <2>2. /\ v = <<v[1], v[2]>> /\ v[2] \in {"post", "author", "muted"}
        /\ v[2] = "post" => Has(1, v[1])
    BY <1>4, VeilFacts DEF Watched
  <2>3. v[1] \notin cids
    <3>1. CASE v[2] = "post"
      BY <2>2, <3>1 DEF cids
    <3>2. CASE v[2] = "author"
      <4>1. <<v[1], "author">> \in veils
        BY <2>2, <3>2
      <4> QED BY <1>1, <1>4, <1>9, <4>1 DEF KeptRows
    <3> QED BY <2>2, <3>1, <3>2
  <2> QED BY <1>1, <2>1, <2>3
<1>14. Ended'
  BY <1>1, <1>2, <1>4 DEF Ended, Early
<1> QED BY <1>2, <1>3, <1>10, <1>11, <1>12, <1>13, <1>14 DEF StayInv, Steady

LEMMA LoadStay ==
  ASSUME ThreadInv, StayInv, Load
  PROVE  StayInv'
<1>1. /\ UNCHANGED <<tableVars, muted, api, fixed, clear, veils>>
      /\ UNCHANGED <<root, ids, tree, todo, rows, rem, out>>
      /\ phase = "load" /\ phase' = "judge" /\ shown' = ids \cap DOMAIN cache
  BY DEF Load, watch
<1>2. Steady
  BY <1>1, QuietSteady
<1>3. Kept' /\ NoneMissed' /\ NoneHidden'
  BY <1>1, <1>2, StillKept, StillNoneMissed, StillNoneHidden DEF StayInv
<1>4. Ended'
  BY <1>1 DEF StayInv, Ended, Early
<1>5. \A p \in clear : p \in DOMAIN cache
  BY DEF StayInv, Watched, Clear
<1>6. ASSUME NEW v \in veils, v[2] = "muted" PROVE v[1] \in DOMAIN cache
  BY <1>6, VeilFacts DEF StayInv, Watched, Muted
<1>7. Judged'
  BY <1>1, <1>5, <1>6 DEF Judged
<1> QED BY <1>1, <1>2, <1>3, <1>4, <1>7 DEF StayInv, Steady

\* Posts open before and after are muted by neither list; those muted by both are
\* taken out.
LEMMA JudgeStay ==
  ASSUME ThreadInv, StayInv, Judge
  PROVE  StayInv'
<1>1. /\ UNCHANGED <<tableVars, api, root, ids, tree, todo, rows, shown, out>>
      /\ posts' = posts /\ phase = "judge" /\ phase' = "prune" /\ Watch
  BY DEF Judge, tableVars, tables
<1>2. PICK before \in SUBSET shown :
        rem' = {p \in shown :
                  posts[p].author \in IF p \in before THEN muted ELSE muted'}
  <2>1. CASE rem' = {p \in shown : posts[p].author \in muted}
    BY <2>1
  <2>2. CASE \E list \in MuteLists \cup {{}}, before \in SUBSET shown :
                /\ muted' = list
                /\ rem' = {p \in shown :
                             posts[p].author \in IF p \in before THEN muted ELSE list}
    BY <2>2
  <2> QED BY <2>1, <2>2 DEF Judge
<1>3. Steady
  BY <1>1, TablesSteady
<1>4. Kept' /\ NoneMissed' /\ NoneHidden'
  BY <1>1, <1>3, StillKept, StillNoneMissed, StillNoneHidden DEF StayInv
<1>5. out = {} /\ todo = {} /\ Judged
  BY <1>1 DEF StayInv, Ended
<1>6. Ended'
  BY <1>1, <1>5 DEF Ended, Early
<1>7. \A p \in clear' : posts[p].author \notin muted /\ posts[p].author \notin muted'
  <2> SUFFICES ASSUME NEW p \in clear'
               PROVE  posts[p].author \notin muted /\ posts[p].author \notin muted'
    OBVIOUS
  <2>1. p \in clear
    BY <1>3 DEF Steady
  <2>2. Clear(p) /\ Clear(p)'
    BY <1>3, <2>1 DEF Steady, StayInv, Watched
  <2> QED BY <1>1, <2>2 DEF Clear, Muted
<1>8. ASSUME NEW v \in veils', v[2] = "muted", v[1] \in ids'
      PROVE  v[1] \in rem'
  <2>1. v \in veils /\ v[1] \in shown
    BY <1>1, <1>3, <1>5, <1>8 DEF Steady, Judged
  <2>2. v \in Veils(v[1]) /\ v \in Veils(v[1])'
    BY <1>3, <2>1 DEF Steady, StayInv, Watched
  <2>3. posts[v[1]].author \in muted
    BY <1>8, <2>2, VeilFacts DEF Muted
  <2>4. ASSUME NEW w, NEW p, w \in Veils(p)', w[2] = "muted" PROVE Muted(p)'
    <3>1. PICK why \in {"post", "author", "muted"} :
            /\ w = <<p, why>>
            /\ CASE why = "post" -> (api = "bridge" /\ Has(1, p))'
                 [] why = "author" -> (api = "bridge" /\ posts[p].author \in HiddenAuthors)'
                 [] why = "muted" -> Muted(p)'
      BY <2>4 DEF Veils
    <3>2. why = "muted"
      BY <2>4, <3>1
    <3> QED BY <3>1, <3>2
  <2>5. posts[v[1]].author \in muted'
    BY <1>1, <1>8, <2>2, <2>4 DEF Muted
  <2> QED BY <1>2, <2>1, <2>3, <2>5
<1>9. \A p \in fixed' \cap clear' \cap ids' : p \in shown' \cup out'
  BY <1>1, <1>3, <1>5 DEF Steady, Judged
<1>10. \A p \in clear' : p \notin rem' \cup out'
  BY <1>1, <1>2, <1>5, <1>7
<1>11. Judged'
  BY <1>1, <1>8, <1>9, <1>10 DEF Judged
<1> QED BY <1>1, <1>3, <1>4, <1>6, <1>11 DEF StayInv, Steady

LEMMA PruneStay ==
  ASSUME ThreadInv, StayInv, NEW p \in Ids, Prune(p)
  PROVE  StayInv'
<1>1. /\ UNCHANGED <<tableVars, muted, api, fixed, clear, veils>>
      /\ UNCHANGED <<root, ids, tree, todo, rows, phase>> /\ posts' = posts
      /\ phase = "prune" /\ p \in rem
      /\ shown' = shown \ {p} /\ out' = out \cup {p}
      /\ rem' = (rem \ {p}) \cup IF p \in DOMAIN tree THEN tree[p] ELSE {}
  BY DEF Prune, tableVars, tables
<1>2. Steady
  BY <1>1, QuietSteady
<1>3. Kept' /\ NoneMissed' /\ NoneHidden'
  BY <1>1, <1>2, StillKept, StillNoneMissed, StillNoneHidden DEF StayInv
<1>4. Kept /\ Ended /\ Judged
  BY <1>1 DEF StayInv
<1>5. rem \cup out \subseteq rem' \cup out'
  BY <1>1
<1>6. Ended'
  <2>1. ASSUME NEW q \in out' \cap DOMAIN tree PROVE tree[q] \subseteq rem' \cup out'
    <3>1. CASE q = p
      BY <1>1, <2>1, <3>1
    <3>2. CASE q # p
      BY <1>1, <1>4, <1>5, <2>1, <3>2 DEF Ended
    <3> QED BY <3>1, <3>2
  <2>2. shown' \cap out' = {} /\ todo' = {}
    BY <1>1, <1>4 DEF Ended
  <2> QED BY <1>1, <2>1, <2>2 DEF Ended, Early
<1>7. Judged'
  <2>1. ASSUME NEW c \in fixed \cap clear \cap (rem' \cup out')
        PROVE  c # root /\ posts[c].parent \in out'
    <3>1. CASE c \in rem \cup out
      BY <1>1, <1>4, <3>1 DEF Judged
    <3>2. CASE c \notin rem \cup out
      <4>1. p \in DOMAIN tree /\ c \in tree[p]
        BY <1>1, <2>1, <3>2
      <4> QED BY <1>1, <1>4, <4>1 DEF Kept
    <3> QED BY <3>1, <3>2
  <2>2. \A c \in fixed \cap clear \cap ids : c \in shown' \cup out'
    BY <1>1, <1>4 DEF Judged
  <2>3. \A v \in veils : v[2] = "muted" /\ v[1] \in ids => v[1] \in rem' \cup out'
    BY <1>1, <1>4, <1>5 DEF Judged
  <2> QED BY <1>1, <2>1, <2>2, <2>3 DEF Judged
<1> QED BY <1>1, <1>2, <1>3, <1>6, <1>7 DEF StayInv, Steady

LEMMA AnswerStay ==
  ASSUME ThreadInv, StayInv, Answer
  PROVE  StayInv'
<1>1. /\ UNCHANGED <<tableVars, muted, api, fixed, clear, veils>>
      /\ UNCHANGED <<root, ids, tree, todo, rows, shown, rem, out>>
      /\ phase = "prune" /\ phase' = "done"
  BY DEF Answer, watch
<1>2. Steady
  BY <1>1, QuietSteady
<1>3. Kept' /\ NoneMissed' /\ NoneHidden' /\ Judged'
  BY <1>1, <1>2, StillKept, StillNoneMissed, StillNoneHidden, StillJudged DEF StayInv
<1>4. Ended'
  BY <1>1 DEF StayInv, Ended, Early
<1> QED BY <1>1, <1>2, <1>3, <1>4 DEF StayInv, Steady

LEMMA BothInv ==
  /\ Init => ThreadInv /\ StayInv
  /\ ThreadInv /\ StayInv /\ [Next]_vars => ThreadInv' /\ StayInv'
<1>1. Init => StayInv
  BY DEF Init, StayInv, Watched
<1>2. ASSUME ThreadInv, StayInv, [Next]_vars PROVE StayInv'
  <2>1. CASE Request
    BY <1>2, <2>1, CheckStay, LevelStay, LoadStay, JudgeStay, AnswerStay, HideStay, PruneStay DEF Request
  <2>2. CASE \E r \in Ids : Find(r)
    BY <1>2, <2>2, FindStay
  <2>3. CASE Reload \/ TablesStep \/ UNCHANGED vars
    BY <1>2, <2>3, OutsideStay
  <2> QED BY <1>2, <2>1, <2>2, <2>3 DEF Next, Rest
<1> QED BY <1>1, <1>2, InitInv, StepInv

-----------------------------------------------------------------------------
(* Paths of posts that stay. *)

\* A set of posts that holds m and is closed under replies holds all under m.
LEMMA UnderWithin ==
  ASSUME NEW m, NEW S, NEW T \in SUBSET S, m \in S => m \in T,
         \A q \in S : posts[q].parent \in T => q \in T
  PROVE  Under(m, S) \subseteq T
BY DEF Under

\* A discussion shows every post that hung on an open path from the root all
\* through the request, under its parent, for any posts, mute lists and changes
\* between the queries, whatever is made again beside it (bridge_api/thread.py,
\* condenser_api/get_state.py).
THEOREM AlwaysComplete == Spec => []ThreadComplete
<1>1. StayInv => ThreadComplete
  <2> SUFFICES ASSUME StayInv, phase = "done"
               PROVE  \A p \in Under(root, fixed \cap clear) :
                        /\ p \in shown
                        /\ p # root => p \in RepliesTo(posts[p].parent)
    BY DEF ThreadComplete
  <2>1. Kept /\ NoneMissed /\ Ended /\ Judged
    BY DEF StayInv
  <2> DEFINE T == {p \in fixed \cap clear : /\ p \in ids /\ p \notin out
                                            /\ p # root => posts[p].parent \in ids \ out}
  <2>2. root \in fixed \cap clear => root \in T
    BY <2>1 DEF Kept, Ended, Judged
  <2>3. ASSUME NEW q \in fixed \cap clear, posts[q].parent \in T PROVE q \in T
    <3>1. q \in ids
      <4>1. todo = {}
        BY <2>1, <2>3 DEF Ended
      <4> QED BY <2>1, <2>3, <4>1 DEF NoneMissed
    <3>2. q \notin out
      BY <2>1, <2>3 DEF Judged
    <3> QED BY <2>3, <3>1, <3>2
  <2>4. T \in SUBSET (fixed \cap clear)
    OBVIOUS
  <2> HIDE DEF T
  <2>5. Under(root, fixed \cap clear) \subseteq T
    BY <2>2, <2>3, <2>4, UnderWithin
  <2>6. ASSUME NEW p \in T
        PROVE  p \in shown /\ (p # root => p \in RepliesTo(posts[p].parent))
    <3>1. p \in fixed \cap clear \cap ids /\ p \notin out
      BY DEF T
    <3>2. p \in shown
      BY <2>1, <3>1 DEF Judged
    <3> QED BY <2>1, <3>1, <3>2 DEF Kept, RepliesTo
  <2> QED BY <2>5, <2>6
<1> QED BY <1>1, BothInv, PTL DEF Spec

\* Nothing is shown of what hung, all through the request, under a post that was
\* hidden in one way, or was by a muted account, all the while: for any posts, mute
\* lists and changes between the queries.
THEOREM AlwaysVeiled == Spec => []NothingVeiled
<1>1. ThreadInv /\ StayInv => NothingVeiled
  <2> SUFFICES ASSUME ThreadInv, StayInv, phase = "done",
                      NEW v \in veils, v[1] \in Under(root, fixed)
               PROVE  Under(v[1], fixed) \cap shown = {}
    BY DEF NothingVeiled
  <2>1. /\ Watched /\ Upward /\ Kept /\ NoneHidden /\ Ended /\ Judged /\ PostsInv
        /\ shown \subseteq ids /\ rem = {}
    BY DEF StayInv, ThreadInv, Taken
  <2>2. CASE ids = {}
    BY <2>1, <2>2
  <2>3. CASE ids # {}
    <3>1. todo = {}
      BY <2>1, <2>3 DEF Ended
    <3> DEFINE Deep(p) == p = root \/ posts[p].depth > posts[root].depth
               S == {p \in fixed : Deep(p)}
               T == {p \in fixed : Deep(p) /\ (p \notin ids \/ p \in out)}
    <3>2. root \in fixed
      <4> DEFINE None == {}
      <4>1. None \in SUBSET fixed /\ \A q \in fixed : posts[q].parent \notin None
        OBVIOUS
      <4> HIDE DEF None
      <4>2. root \notin fixed => Under(root, fixed) \subseteq None
        BY <4>1, UnderWithin
      <4> QED BY <4>2 DEF None
    <3>3. ASSUME NEW q \in fixed, posts[q].parent \in S
          PROVE  q \in S /\ q # root /\ posts[q].parent \in fixed
      <4>1. /\ q \in Ids /\ Live(q) /\ posts[q].parent \in Ids /\ NoPost \notin Ids
            /\ root \in Ids
        BY <2>1, <3>2, <3>3, PostsFacts DEF Watched
      <4>2. posts[q].depth = posts[posts[q].parent].depth + 1
        BY <2>1, <4>1 DEF PostsInv, Hangs
      <4>3. posts[q].depth \in Nat /\ posts[posts[q].parent].depth \in Nat /\ posts[root].depth \in Nat
        BY <2>1, <4>1, PostsFacts DEF PostRow
      <4>4. posts[q].depth > posts[root].depth
        BY <3>3, <4>2, <4>3
      <4> QED BY <3>3, <4>3, <4>4
    <3>4. v[1] \in S
      <4>1. S \in SUBSET fixed /\ root \in S
        BY <3>2
      <4> HIDE DEF S
      <4> QED BY <3>3, <4>1, UnderWithin
    <3>5. v[1] \in T
      <4>1. v[2] \in {"post", "author", "muted"}
        BY <2>1, VeilFacts DEF Watched
      <4>2. CASE v[2] = "muted"
        BY <2>1, <3>4, <4>2 DEF Judged
      <4>3. CASE v[2] # "muted"
        BY <2>1, <2>3, <3>4, <4>3 DEF NoneHidden
      <4> QED BY <4>2, <4>3
    <3>6. ASSUME NEW q \in fixed, posts[q].parent \in T PROVE q \in T
      <4>1. q \in S /\ q # root /\ posts[q].parent \in S
        BY <3>3, <3>6
      <4>2. q \in ids => /\ posts[q].parent \in DOMAIN tree /\ q \in tree[posts[q].parent]
                         /\ posts[q].parent \in ids
        BY <2>1, <3>6, <4>1 DEF Kept
      <4>3. q \in ids => q \in out
        BY <2>1, <3>6, <4>2 DEF Ended
      <4> QED BY <4>1, <4>3
    <3>7. T \in SUBSET fixed
      OBVIOUS
    <3>8. T \cap shown = {}
      BY <2>1 DEF Ended
    <3> HIDE DEF T
    <3>9. Under(v[1], fixed) \subseteq T
      BY <3>5, <3>6, <3>7, UnderWithin
    <3> QED BY <3>8, <3>9
  <2> QED BY <2>2, <2>3
<1> QED BY <1>1, BothInv, PTL DEF Spec
=============================================================================
