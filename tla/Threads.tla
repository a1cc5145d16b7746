------------------------------ MODULE Threads ------------------------------
(***************************************************************************)
(* A request for a whole discussion.  It reads the replies level by level, *)
(* then loads all posts it found and takes out what muted accounts wrote,  *)
(* with all that hangs under it.  Every read is a query of its own, and    *)
(* blocks, operators and reloads of the mute list come between.            *)
(***************************************************************************)
EXTENDS Tables

CONSTANTS
    Apis,          \* "bridge" (get_discussion), "condenser" (get_state)
    Roots,         \* the posts whose discussion is asked for
    MuteLists      \* the lists of muted accounts the endpoint may publish

ASSUME ThreadsAssumption ==
    /\ Apis \subseteq {"bridge", "condenser"}
    /\ MuteLists \subseteq SUBSET Accounts

VARIABLES
    muted,         \* the server's copy of the list of muted accounts
    phase,         \* what the request does next
    api, root,
    ids,           \* the posts found
    tree,          \* from some posts to their replies
    todo,          \* the level to read
    rows,          \* from parents to replies yet to be checked by hide_pids_by_ids
    shown,         \* the posts loaded and not taken out
    rem,           \* the posts to take out
    \* what the properties watch
    fixed,         \* posts live ever since the request began: their parents are the same
    clear,         \* posts in the cache, neither hidden nor muted, ever since
    veils,         \* <<m, why>>: m hidden or muted in one way ever since
    moved,         \* a post was made again since
    out            \* the posts taken out

request == <<phase, api, root, ids, tree, todo, rows, shown, rem>>
watch == <<fixed, clear, veils, moved, out>>
vars == <<tableVars, muted, request, watch>>

Init ==
    /\ TablesInit
    /\ muted \in MuteLists \cup {{}}
    /\ phase = "idle"
    /\ api \in Apis
    /\ root = NoPost
    /\ ids = {} /\ tree = <<>> /\ todo = {} /\ rows = <<>>
    /\ shown = {} /\ rem = {}
    /\ fixed = {} /\ clear = {} /\ veils = {} /\ moved = FALSE /\ out = {}

Hidden(p) == api = "bridge" /\ (Has(1, p) \/ posts[p].author \in HiddenAuthors)
Muted(p) == p \in DOMAIN cache /\ posts[p].author \in muted

Clear(p) == p \in DOMAIN cache /\ ~Hidden(p) /\ ~Muted(p)
Veils(p) ==
    {<<p, why>> : why \in {w \in {"post", "author", "muted"} :
        CASE w = "post" -> api = "bridge" /\ Has(1, p)
          [] w = "author" -> api = "bridge" /\ posts[p].author \in HiddenAuthors
          [] w = "muted" -> Muted(p)}}

Watch ==
    /\ fixed' = {p \in fixed : Live(p)'}
    /\ clear' = {p \in clear : Clear(p)'}
    /\ veils' = {v \in veils : v \in Veils(v[1])'}

-----------------------------------------------------------------------------
Find(r) ==
    /\ phase = "idle" /\ r \in Roots /\ Live(r)
    /\ root' = r
    /\ todo' = {r}
    /\ phase' = IF api = "bridge" THEN "author" ELSE "level"
    /\ fixed' = {p \in Ids : Live(p)}
    /\ clear' = {p \in Ids : Clear(p)}
    /\ veils' = UNION {Veils(p) : p \in Ids}
    /\ UNCHANGED <<tableVars, muted, api, ids, tree, rows, shown, rem, moved, out>>

CheckAuthor ==
    /\ phase = "author"
    /\ phase' = IF posts[root].author \in HiddenAuthors THEN "done" ELSE "post"
    /\ UNCHANGED <<tableVars, muted, api, root, ids, tree, todo, rows, shown, rem, watch>>

CheckPost ==
    /\ phase = "post"
    /\ phase' = IF Has(1, root) THEN "done" ELSE "level"
    /\ UNCHANGED <<tableVars, muted, api, root, ids, tree, todo, rows, shown, rem, watch>>

(* Mutant: replies are read whoever wrote them. *)
RepliesByAll(q) == {p \in Ids : Live(p) /\ posts[p].parent = q}

Replies(q) ==
    {p \in Ids : /\ Live(p) /\ posts[p].parent = q
                 /\ api = "bridge" => posts[p].author \notin HiddenAuthors}

TreeWith(found) ==
    [q \in DOMAIN found \cup DOMAIN tree |->
        IF q \in DOMAIN found THEN found[q] ELSE tree[q]]

AfterLevel(next) == IF next = {} THEN "load" ELSE "level"

(* Mutant: the level read is read again. *)
LevelAgain ==
    /\ phase = "level"
    /\ ids' = ids \cup todo
    /\ LET found == [q \in {x \in todo : Replies(x) # {}} |-> Replies(q)]
           next == UNION {found[q] : q \in DOMAIN found}
       IN  IF api = "bridge" /\ next # {}
           THEN /\ rows' = found /\ todo' = {} /\ phase' = "hide"
                /\ tree' = tree
           ELSE /\ tree' = TreeWith(found) /\ todo' = todo \cup next
                /\ phase' = AfterLevel(todo')
                /\ rows' = rows
    /\ UNCHANGED <<tableVars, muted, api, root, shown, rem, watch>>

\* The replies to a level; bridge_api checks those of each parent by a query.
Level ==
    /\ phase = "level"
    /\ ids' = ids \cup todo
    /\ LET found == [q \in {x \in todo : Replies(x) # {}} |-> Replies(q)]
           next == UNION {found[q] : q \in DOMAIN found}
       IN  IF api = "bridge" /\ next # {}
           THEN /\ rows' = found /\ todo' = {} /\ phase' = "hide"
                /\ tree' = tree
           ELSE /\ tree' = TreeWith(found) /\ todo' = next
                /\ phase' = AfterLevel(next)
                /\ rows' = rows
    /\ UNCHANGED <<tableVars, muted, api, root, shown, rem, watch>>

(* Mutant: the next level is that of the last parent checked. *)
HideResets(q) ==
    /\ phase = "hide" /\ q \in DOMAIN rows
    /\ LET cids == {p \in rows[q] : ~Has(1, p)}
       IN  /\ tree' = TreeWith([x \in {q} |-> cids])
           /\ todo' = cids
    /\ rows' = [x \in DOMAIN rows \ {q} |-> rows[x]]
    /\ phase' = IF rows' = <<>> THEN AfterLevel(todo') ELSE "hide"
    /\ UNCHANGED <<tableVars, muted, api, root, ids, shown, rem, watch>>

Hide(q) ==
    /\ phase = "hide" /\ q \in DOMAIN rows
    /\ LET cids == {p \in rows[q] : ~Has(1, p)}
       IN  /\ tree' = TreeWith([x \in {q} |-> cids])
           /\ todo' = todo \cup cids
    /\ rows' = [x \in DOMAIN rows \ {q} |-> rows[x]]
    /\ phase' = IF rows' = <<>> THEN AfterLevel(todo') ELSE "hide"
    /\ UNCHANGED <<tableVars, muted, api, root, ids, shown, rem, watch>>

Load ==
    /\ phase = "load" /\ phase' = "judge"
    /\ shown' = ids \cap DOMAIN cache
    /\ UNCHANGED <<tableVars, muted, api, root, ids, tree, todo, rows, rem, watch>>

\* bridge_api asks Mutes.lists of one post after the other, and an hour may
\* be over at any of them: a fetch that fails leaves an empty list.
Judge ==
    /\ phase = "judge" /\ phase' = "prune"
    /\ \/ rem' = {p \in shown : posts[p].author \in muted} /\ muted' = muted
       \/ /\ api = "bridge"
          /\ \E list \in MuteLists \cup {{}}, before \in SUBSET shown :
                /\ muted' = list
                /\ rem' = {p \in shown :
                             posts[p].author \in IF p \in before THEN muted ELSE list}
    /\ UNCHANGED <<tableVars, api, root, ids, tree, todo, rows, shown, moved, out>>
    /\ Watch

(* Mutant: what hangs under a post is left. *)
PruneAlone(p) ==
    /\ phase = "prune" /\ p \in rem
    /\ shown' = shown \ {p}
    /\ rem' = rem \ {p}
    /\ out' = out \cup {p}
    /\ UNCHANGED <<tableVars, muted, phase, api, root, ids, tree, todo, rows,
                    fixed, clear, veils, moved>>

\* The list of posts to take out grows by the replies to each.
Prune(p) ==
    /\ phase = "prune" /\ p \in rem
    /\ shown' = shown \ {p}
    /\ rem' = (rem \ {p}) \cup IF p \in DOMAIN tree THEN tree[p] ELSE {}
    /\ out' = out \cup {p}
    /\ UNCHANGED <<tableVars, muted, phase, api, root, ids, tree, todo, rows,
                    fixed, clear, veils, moved>>

Answer ==
    /\ phase = "prune" /\ rem = {}
    /\ phase' = "done"
    /\ UNCHANGED <<tableVars, muted, api, root, ids, tree, todo, rows, shown, rem, watch>>

-----------------------------------------------------------------------------
\* Other requests reload the list too.
Reload ==
    /\ phase \notin {"idle", "prune", "done"}
    /\ muted' \in MuteLists \cup {{}}
    /\ UNCHANGED <<tableVars, request, moved, out>>
    /\ Watch

TablesStep ==
    /\ phase # "done"
    /\ TablesNext
    /\ UNCHANGED <<muted, request, out>>
    /\ IF phase = "idle" THEN UNCHANGED <<fixed, clear, veils, moved>>
       ELSE /\ Watch
            /\ moved' = (moved \/ \E p \in Ids : ~Live(p) /\ Live(p)')

Rest == phase \in {"idle", "done"} /\ UNCHANGED vars

Request ==
    \/ CheckAuthor \/ CheckPost \/ Level \/ Load \/ Judge \/ Answer
    \/ \E p \in Ids : Hide(p) \/ Prune(p)

Next == Request \/ (\E r \in Ids : Find(r)) \/ Reload \/ TablesStep \/ Rest

Spec == Init /\ [][Next]_vars
FairSpec == Spec /\ WF_vars(Request)

-----------------------------------------------------------------------------
\* The posts under m on paths through S: the least set that holds m and the
\* posts of S under its members.
Under(m, S) ==
    {p \in S : \A T \in SUBSET S :
        /\ m \in S => m \in T
        /\ \A q \in S : posts[q].parent \in T => q \in T
        => p \in T}

\* The replies a post of the answer is given.
RepliesTo(p) == (IF p \in DOMAIN tree THEN tree[p] ELSE {}) \cap shown

TypeOK ==
    /\ TablesTypeOK
    /\ muted \in MuteLists \cup {{}}
    /\ phase \in {"idle", "author", "post", "level", "hide", "load", "judge", "prune", "done"}
    /\ api \in Apis
    /\ root \in Ids \cup {NoPost}
    /\ ids \cup todo \cup shown \cup rem \subseteq Ids
    /\ shown \subseteq ids
    /\ DOMAIN tree \subseteq ids /\ DOMAIN rows \subseteq ids
    /\ \A q \in DOMAIN tree : tree[q] \subseteq Ids
    /\ \A q \in DOMAIN rows : rows[q] \subseteq Ids
    /\ moved \in BOOLEAN

\* A discussion shows every post that hung on an open path from the root all
\* through the request, under its parent, whatever came, went or moved beside
\* it between the queries.
ThreadComplete ==
    phase = "done" => \A p \in Under(root, fixed \cap clear) :
        /\ p \in shown
        /\ p # root => p \in RepliesTo(posts[p].parent)

\* Nothing is shown of what hung, all through the request, under a post that
\* was hidden in one way, or was by a muted account, all the while.
NothingVeiled ==
    phase = "done" => \A v \in veils :
        v[1] \in Under(root, fixed) => Under(v[1], fixed) \cap shown = {}

\* As long as no post is made again under another, what is shown is one tree,
\* apart from posts under a parent that the cache did not have: what hangs
\* under a post that was taken out is taken out too.
Connected ==
    phase = "done" /\ ~moved => \A p \in shown \ {root} :
        \E q \in DOMAIN tree : /\ p \in tree[q]
                               /\ p \notin UNION {tree[x] : x \in DOMAIN tree \ {q}}
                               /\ q \notin out

\* A request is answered, unless posts are made again under others while it
\* reads: the tree it builds then need not be one, and taking out what hangs
\* under a muted post need not end.
Answered == (phase = "level") ~> (phase = "done" \/ moved)
=============================================================================
