------------------------------- MODULE Purge -------------------------------
(***************************************************************************)
(* The command "baldsky purge": for each pipeline it goes through the rows *)
(* of the feed page by page, fetches the posts behind them from the        *)
(* AppView batch by batch, and asks the server to delete those that the    *)
(* pipeline would not select any more.  Ingestion and the network go on    *)
(* meanwhile.                                                              *)
(*                                                                         *)
(* Its loop is translated from the command; what the statement of a page   *)
(* selects is FeedPage's, and so is what a reader of a feed is owed: each  *)
(* traversal of the command is shown to be that of a client there.         *)
(***************************************************************************)
EXTENDS Pipeline, FeedStore, Integers

CONSTANTS
    Configs,        \* the enabled pipelines of the configuration, in order
    Feed,           \* their feeds, and others the table has rows of
    Contents,       \* what the posts may say
    Gone,           \* a post the AppView does not return
    PageLimit,      \* 100
    BatchSize,      \* 25
    MaxCid,         \* BOUND on the CIDs
    MaxClock,       \* BOUND on the seconds that pass
    MaxTrouble,     \* BOUND on what goes on while the command runs
    Unread, First, Over     \* as in FeedPage

VARIABLES
    dryRun,     \* the flag
    pipeline,   \* the pipeline it is at, 0 before the command runs
    outcome,    \* running, ended or failed
    \* findStalePosts.
    step,       \* querying, checking, or deleting once it has returned
    params,     \* the key in the parameters of the query, or First
    rows,       \* per pipeline, what the last query returned, in its order
    checked,    \* how many of these rows the loop over the batches has left
    stale,      \* the posts it found stale, of this pipeline
    \* The rest.
    asked,      \* those it has asked the server to delete
    view,       \* the AppView: URI -> what it returns
    posts, clock,   \* as in FeedPage
    \* What nobody keeps.
    earlier,    \* per pipeline, the rows of the queries before the last
    steady,     \* per pipeline, the posts there since its first query
    sawStale,   \* posts that were stale at some time since then
    sawFresh,   \* posts that were not
    trouble     \* changes by others and lost requests since it runs

command == <<dryRun, pipeline, outcome>>
search == <<step, params, rows, checked, stale>>
table == <<posts, clock>>
history == <<earlier, steady, sawStale, sawFresh>>
vars == <<command, search, asked, view, table, history, trouble>>

(***************************************************************************)
(* The command as a client of FeedPage: a traversal has begun with its     *)
(* first query.  The cursor that the server would have sent with the rows  *)
(* is the place of the last one, or none if they do not fill a page.       *)
(***************************************************************************)
RowsOf(r) == {r[j] : j \in DOMAIN r}

Begun(p) == \/ p < pipeline
            \/ p = pipeline /\ (step # "querying" \/ params # First)

Cursor(p) == IF ~Begun(p) THEN First
             ELSE IF Len(rows[p]) < PageLimit THEN Over
             ELSE rows[p][Len(rows[p])].key

Reader ==
    INSTANCE FeedPage WITH
        Client <- DOMAIN Configs, DefaultLimit <- PageLimit, LimitCap <- PageLimit,
        cursor <- [p \in DOMAIN Configs |-> Cursor(p)],
        reading <- [p \in DOMAIN Configs |->
                       IF Begun(p) THEN Configs[p].name ELSE Unread],
        page <- [p \in DOMAIN Configs |-> RowsOf(rows[p])],
        before <- earlier

ASSUME PurgeAssumption ==
    /\ Configs \in Seq(Config)
    /\ \A p \in DOMAIN Configs : Configs[p].name \in Feed
    /\ Contents \subseteq Post \cup {NoPost} /\ Gone \notin Contents
    /\ BatchSize \in Nat \ {0} /\ PageLimit \in Nat \ {0}
    /\ MaxCid \in Nat /\ MaxClock \in Nat /\ MaxTrouble \in Nat
    /\ IsFiniteSet(Uri)
    /\ NoRow \notin Reader!Row /\ Unread \notin Feed
    /\ First \notin Reader!Key /\ Over \notin Reader!Key /\ First # Over

TypeOK ==
    /\ dryRun \in BOOLEAN
    /\ pipeline \in 0..Len(Configs)
    /\ outcome \in {"running", "ended", "failed"}
    /\ step \in {"querying", "checking", "deleting"}
    /\ params \in Reader!Key \cup {First}
    /\ rows \in [DOMAIN Configs -> Seq(Reader!Item)]
    /\ checked \in Nat
    /\ pipeline > 0 => checked <= Len(rows[pipeline])
    /\ stale \subseteq Uri /\ asked \subseteq stale
    /\ view \in [Uri -> Contents \cup {Gone}]
    /\ posts \in [Uri -> Reader!Row \cup {NoRow}]
    /\ clock \in 0..MaxClock
    /\ earlier \in [DOMAIN Configs -> SUBSET Reader!Item]
    /\ steady \in [DOMAIN Configs -> SUBSET Uri]
    /\ sawStale \subseteq Uri /\ sawFresh \subseteq Uri
    /\ trouble \in 0..MaxTrouble

Init ==
    /\ dryRun \in BOOLEAN
    /\ pipeline = 0 /\ outcome = "running"
    /\ step = "querying" /\ params = First
    /\ rows = [p \in DOMAIN Configs |-> <<>>]
    /\ checked = 0 /\ stale = {} /\ asked = {}
    /\ view \in [Uri -> Contents \cup {Gone}]
    /\ posts = [u \in Uri |-> NoRow] /\ clock = 0
    /\ earlier = [p \in DOMAIN Configs |-> {}]
    /\ steady = [p \in DOMAIN Configs |-> {}]
    /\ sawStale = {} /\ sawFresh = {} /\ trouble = 0

-----------------------------------------------------------------------------
(* findStalePosts. *)

(* Not returned, not a post, or not selected any more. *)
IsStale(p, content) ==
    \/ content \in {Gone, NoPost}
    \/ ~MatchesPost(NewPipeline(Configs[p]), content)

StaleNow(p, v) == {u \in Uri : IsStale(p, v[u])}

Uris(items) == {x.uri : x \in items}

Running == outcome = "running" /\ pipeline > 0

(* Rows in the order of the query, which leaves ties open. *)
Ordered(S) ==
    {r \in [1..Cardinality(S) -> S] :
        /\ RowsOf(r) = S
        /\ \A j, k \in DOMAIN r : j < k => ~Reader!Less(r[j].key, r[k].key)}

FeedRows == Reader!Rows(Configs[pipeline].name)

GetFeedPage ==
    /\ Running /\ step = "querying"
    /\ LET items == Reader!Selected(Configs[pipeline].name, params)
       IN  \E S \in SUBSET items :
               /\ Reader!IsPage(S, items, PageLimit)
               /\ \E r \in Ordered(S) : rows' = [rows EXCEPT ![pipeline] = r]
    /\ step' = "checking" /\ checked' = 0
    /\ earlier' = [earlier EXCEPT ![pipeline] = @ \cup RowsOf(rows[pipeline])]
    /\ IF params = First
       THEN /\ steady' = [steady EXCEPT ![pipeline] = FeedRows]
            /\ sawStale' = StaleNow(pipeline, view)
            /\ sawFresh' = Uri \ StaleNow(pipeline, view)
       ELSE UNCHANGED <<steady, sawStale, sawFresh>>
    /\ UNCHANGED <<command, params, stale, asked, view, table, trouble>>

(* The next rows of the page. *)
BatchEnd == IF checked + BatchSize <= Len(rows[pipeline])
            THEN checked + BatchSize ELSE Len(rows[pipeline])
Batch == {rows[pipeline][j] : j \in checked + 1..BatchEnd}

HasBatch == Running /\ step = "checking" /\ checked < Len(rows[pipeline])

Marks(S) ==
    /\ stale' = stale \cup S
    /\ checked' = BatchEnd
    /\ UNCHANGED <<command, step, params, rows, asked, view, table, history, trouble>>

(* Mutant: the loop over the batches ends one too early. *)
CheckBatchButLast ==
    /\ HasBatch
    /\ Marks(IF BatchEnd = Len(rows[pipeline]) THEN {}
             ELSE Uris(Batch) \cap StaleNow(pipeline, view))

CheckBatch ==
    /\ HasBatch
    /\ Marks(Uris(Batch) \cap StaleNow(pipeline, view))

(* Mutant: without an answer the posts are taken for deleted. *)
FailsAsGone == HasBatch /\ Marks(Uris(Batch))

(* GetFeedPage or FeedGetPosts returns an error: the command ends. *)
Fails ==
    /\ HasBatch \/ (Running /\ step = "querying")
    /\ outcome' = "failed"
    /\ UNCHANGED <<dryRun, pipeline, search, asked, view, table, history, trouble>>

(* Mutant: the key is that of the first row. *)
PageEndsOnFirst ==
    /\ Running /\ step = "checking" /\ checked = Len(rows[pipeline])
    /\ IF Len(rows[pipeline]) < PageLimit
       THEN step' = "deleting" /\ UNCHANGED params
       ELSE step' = "querying" /\ params' = rows[pipeline][1].key
    /\ UNCHANGED <<command, rows, checked, stale, asked, view, table, history, trouble>>

(* A page that is not full is the last one; else the key of its last row   *)
(* goes into the parameters.                                               *)
PageEnds ==
    /\ Running /\ step = "checking" /\ checked = Len(rows[pipeline])
    /\ IF Len(rows[pipeline]) < PageLimit
       THEN step' = "deleting" /\ UNCHANGED params
       ELSE /\ step' = "querying"
            /\ params' = rows[pipeline][Len(rows[pipeline])].key
    /\ UNCHANGED <<command, rows, checked, stale, asked, view, table, history, trouble>>

(* The loop over the pages of the pipeline is over. *)
Traversed == Running /\ step = "deleting"

-----------------------------------------------------------------------------
(* deletePost. *)

(***************************************************************************)
(* The path of the request, by its segments.  PathEscape makes one segment *)
(* of the URI at://repo/app.bsky.feed.post/rkey, but the server's router   *)
(* looks at the path decoded again.                                        *)
(***************************************************************************)
DeletePath(u) ==
    <<"admin", "posts", "at:", "", u[1], "app.bsky.feed.post", u[2]>>

(* The router redirects what is not clean to what is, as a GET, and        *)
(* /admin/posts/{uri} matches one segment in the place of {uri}.           *)
Routed(path) == path = SelectSeq(path, LAMBDA s : s # "") /\ Len(path) = 3

Reached(u) == Routed(DeletePath(u))

(* What the server does then. *)
HandleDeletePost(u) == DeletePosts(posts, {u})

Troubled ==
    /\ outcome = "running" /\ trouble < MaxTrouble
    /\ trouble' = trouble + 1

StillThere == [p \in DOMAIN Configs |-> {u \in steady[p] : posts'[u] # NoRow}]

(* An error is printed and the loop goes on. *)
AskToDelete(u) ==
    /\ Traversed /\ ~dryRun
    /\ u \in stale \ asked
    /\ asked' = asked \cup {u}
    /\ \/ /\ posts' = IF Reached(u) THEN HandleDeletePost(u) ELSE posts
          /\ UNCHANGED trouble
       \/ Troubled /\ UNCHANGED posts
    /\ steady' = StillThere
    /\ UNCHANGED <<command, search, view, clock, earlier, sawStale, sawFresh>>

FindStalePosts ==
    /\ step' = "querying" /\ params' = First /\ checked' = 0
    /\ stale' = {} /\ asked' = {}
    /\ sawStale' = {} /\ sawFresh' = {}
    /\ UNCHANGED <<outcome, rows>>

(* The deletions of this pipeline were asked for, or printed. *)
PipelineOver == pipeline > 0 => Traversed /\ (dryRun \/ asked = stale)

(* Mutant: the last pipeline is not known to be the last. *)
NextPipelineBeyond ==
    /\ outcome = "running" /\ PipelineOver
    /\ pipeline' = pipeline + 1
    /\ FindStalePosts
    /\ UNCHANGED <<dryRun, view, table, earlier, steady, trouble>>

(* runPurge goes on with the next pipeline, or ends. *)
NextPipeline ==
    /\ outcome = "running" /\ PipelineOver
    /\ \/ /\ pipeline < Len(Configs)
          /\ pipeline' = pipeline + 1
          /\ FindStalePosts
       \/ /\ pipeline = Len(Configs)
          /\ outcome' = "ended"
          /\ UNCHANGED <<pipeline, search, asked, sawStale, sawFresh>>
    /\ UNCHANGED <<dryRun, view, table, earlier, steady, trouble>>

Purge ==
    \/ GetFeedPage \/ CheckBatch \/ PageEnds \/ Fails
    \/ (\E u \in Uri : AskToDelete(u)) \/ NextPipeline

-----------------------------------------------------------------------------
(* The others: ingestion, the clock, and the network. *)

Tick == clock < MaxClock /\ clock' = clock + 1 /\ UNCHANGED posts

(* As in FeedPage, with a time stamp from before the statement was sent. *)
Insert(u, row) ==
    /\ row.indexed_at <= clock
    /\ posts' = InsertPost(posts, u, row)
    /\ UNCHANGED clock

Delete(u) ==
    /\ posts[u] # NoRow
    /\ posts' = DeletePosts(posts, {u})
    /\ UNCHANGED clock

Ingestion ==
    /\ \/ Tick
       \/ \E u \in Uri, row \in Reader!Row : Insert(u, row)
       \/ \E u \in Uri : Delete(u)
    /\ steady' = StillThere
    /\ IF pipeline = 0 THEN UNCHANGED trouble ELSE Troubled
    /\ UNCHANGED <<command, search, asked, view, earlier, sawStale, sawFresh>>

(* A post is deleted, created again or edited, or the AppView lags behind. *)
PostChanges(u) ==
    /\ \E content \in Contents \cup {Gone} : view' = [view EXCEPT ![u] = content]
    /\ IF pipeline = 0 THEN UNCHANGED <<sawStale, sawFresh>>
       ELSE /\ sawStale' = sawStale \cup StaleNow(pipeline, view')
            /\ sawFresh' = sawFresh \cup (Uri \ StaleNow(pipeline, view'))
    /\ IF pipeline = 0 THEN UNCHANGED trouble ELSE Troubled
    /\ UNCHANGED <<command, search, asked, table, earlier, steady>>

Next == Purge \/ Ingestion \/ \E u \in Uri : PostChanges(u)

Spec == Init /\ [][Next]_vars
-----------------------------------------------------------------------------
(* Safety. *)

(***************************************************************************)
(* The command traverses a feed as FeedPage's clients do, although it has  *)
(* a loop and cursors of its own, judges posts between two pages and does  *)
(* so once per pipeline: what a client is owed, it gets.                   *)
(***************************************************************************)
ReadsFeed == Reader!Spec

(***************************************************************************)
(* No post is marked for deletion for a page that moved, an answer that    *)
(* did not come or another pipeline's filter: only one that was stale for  *)
(* this pipeline at some time since the traversal began.                   *)
(***************************************************************************)
OnlyStaleJudged == stale \subseteq sawStale

(***************************************************************************)
(* And none is overlooked: a row that was there all the time, of a post    *)
(* that was stale all the time, is marked when the traversal is over, but  *)
(* for the ties of FeedPage.                                               *)
(***************************************************************************)
StaleComplete ==
    Traversed =>
        \A u \in steady[pipeline] :
            u \in stale \cup sawFresh \/
                \E x \in Reader!Shown(pipeline) :
                    x.uri # u /\ x.key = Reader!KeyOf(posts[u])

(***************************************************************************)
(* Why they hold: between two pages the parameters are where the server's  *)
(* cursor would be; since a traversal began, what is stale now has been    *)
(* seen stale and what is not has been seen fresh, and all rows it was     *)
(* shown but those it has not come to were found to be one or the other.   *)
(***************************************************************************)
Unchecked ==
    IF step = "checking"
    THEN {rows[pipeline][j] : j \in checked + 1..Len(rows[pipeline])} ELSE {}

InStep ==
    /\ \A p \in DOMAIN Configs :
           /\ Len(rows[p]) <= PageLimit
           /\ ~Begun(p) => rows[p] = <<>> /\ earlier[p] = {} /\ steady[p] = {}
           /\ p < pipeline => Len(rows[p]) < PageLimit
    /\ pipeline = 0 => step = "querying" /\ params = First
    /\ pipeline > 0 /\ step = "querying" => params = Cursor(pipeline)
    /\ pipeline > 0 /\ step = "deleting" => Len(rows[pipeline]) < PageLimit

JudgedSoFar ==
    /\ stale \subseteq sawStale
    /\ Running /\ ~Begun(pipeline) => stale = {}
    /\ Running /\ Begun(pipeline) =>
           /\ StaleNow(pipeline, view) \subseteq sawStale
           /\ Uri \ StaleNow(pipeline, view) \subseteq sawFresh
           /\ \A x \in Reader!Shown(pipeline) \ Unchecked :
                  x.uri \in stale \cup sawFresh

(***************************************************************************)
(* "Purge posts from the database that no longer match the current         *)
(* config": when nothing else has changed anything and every request was   *)
(* answered, the rows that are left match.                                 *)
(***************************************************************************)
PurgedMatch ==
    outcome = "ended" /\ trouble = 0 /\ ~dryRun =>
        \A p \in DOMAIN Configs : \A u \in Reader!Rows(Configs[p].name) :
            ~IsStale(p, view[u])
=============================================================================
