----------------------------- MODULE PurgeProofs -----------------------------
(***************************************************************************)
(* That the purge command reads the table as a client of the feed does,    *)
(* marks nothing but what was stale, and overlooks nothing that was stale  *)
(* all the time, for any configuration, pages, batches and posts.  What it *)
(* takes from FeedPage is proved in FeedPageProofs, of which Feeds is the  *)
(* instance for the command's traversals.                                  *)
(***************************************************************************)
EXTENDS Purge, FiniteSetTheorems, TLAPS

Feeds ==
    INSTANCE FeedPageProofs WITH
        Client <- DOMAIN Configs, DefaultLimit <- PageLimit, LimitCap <- PageLimit,
        cursor <- [p \in DOMAIN Configs |-> Cursor(p)],
        reading <- [p \in DOMAIN Configs |->
                       IF Begun(p) THEN Configs[p].name ELSE Unread],
        page <- [p \in DOMAIN Configs |-> RowsOf(rows[p])],
        before <- earlier

-----------------------------------------------------------------------------
(* The two instances of FeedPage say the same. *)

(* Rows, keys and items. *)
LEMMA SameData ==
    Reader!Row = Feeds!Row /\ Reader!Key = Feeds!Key /\ Reader!Item = Feeds!Item
<1>1. Reader!Key = Feeds!Key
  BY DEF Reader!Key, Feeds!Key
<1>2. Reader!Row = Feeds!Row
  BY DEF Reader!Row, Feeds!Row
<1>3. Reader!Item = Feeds!Item
  BY <1>1 DEF Reader!Item, Feeds!Item
<1> QED BY <1>1, <1>2, <1>3

(* What FeedPage assumes holds of the command. *)
LEMMA FeedsAssumption == Feeds!FeedPageAssumption
<1>1. Feeds!IsFiniteSet(Uri)
  BY PurgeAssumption DEF IsFiniteSet, Feeds!IsFiniteSet
<1> QED BY <1>1, PurgeAssumption, SameData DEF Feeds!FeedPageAssumption

(* The order of the keys and the rows of a feed. *)
LEMMA SameOrder ==
    /\ \A k, l : Reader!Less(k, l) <=> Feeds!Less(k, l)
    /\ \A k, c : Reader!Below(k, c) <=> Feeds!Below(k, c)
    /\ \A row : Reader!KeyOf(row) = Feeds!KeyOf(row)
<1>1. \A k, l : Reader!Less(k, l) <=> Feeds!Less(k, l)
  BY DEF Reader!Less, Feeds!Less
<1>2. \A row : Reader!KeyOf(row) = Feeds!KeyOf(row)
  BY DEF Reader!KeyOf, Feeds!KeyOf
<1> QED BY <1>1, <1>2 DEF Reader!Below, Feeds!Below

(* What a query returns. *)
LEMMA SameQuery ==
    /\ \A feed : Reader!Rows(feed) = Feeds!Rows(feed)
    /\ \A feed, c : Reader!Selected(feed, c) = Feeds!Selected(feed, c)
    /\ \A limit : Reader!PageSize(limit) = Feeds!PageSize(limit)
    /\ \A S, items, n : Reader!IsPage(S, items, n) <=> Feeds!IsPage(S, items, n)
    /\ \A S, n, c : Reader!NextCursor(S, n, c) = Feeds!NextCursor(S, n, c)
<1>1. \A S : Reader!Cardinality(S) = Feeds!Cardinality(S)
  BY DEF Reader!Cardinality, Feeds!Cardinality
<1>2. \A feed : Reader!Rows(feed) = Feeds!Rows(feed)
  BY DEF Reader!Rows, Feeds!Rows
<1>3. \A feed, c : Reader!Selected(feed, c) = Feeds!Selected(feed, c)
  BY <1>2, SameOrder DEF Reader!Selected, Feeds!Selected
<1>4. \A limit : Reader!PageSize(limit) = Feeds!PageSize(limit)
  BY DEF Reader!PageSize, Feeds!PageSize, Reader!Min2, Feeds!Min2
<1>5. \A S, items, n : Reader!IsPage(S, items, n) <=> Feeds!IsPage(S, items, n)
  BY <1>1, SameOrder DEF Reader!IsPage, Feeds!IsPage
<1>6. \A S, n, c : Reader!NextCursor(S, n, c) = Feeds!NextCursor(S, n, c)
  BY <1>1, SameOrder DEF Reader!NextCursor, Feeds!NextCursor
<1> QED BY <1>2, <1>3, <1>4, <1>5, <1>6

(* The requests. *)
LEMMA SameRequest ==
    ASSUME NEW c, NEW feed, NEW limit
    PROVE  /\ Reader!Begin(c, feed, limit) <=> Feeds!Begin(c, feed, limit)
           /\ Reader!Continue(c, limit) <=> Feeds!Continue(c, limit)
<1>1. ASSUME NEW f
      PROVE  Reader!GetFeedPage(c, f, limit) <=> Feeds!GetFeedPage(c, f, limit)
  <2> DEFINE Answer(S, next) ==
                 /\ [p \in DOMAIN Configs |-> RowsOf(rows[p])]' =
                        [[p \in DOMAIN Configs |-> RowsOf(rows[p])] EXCEPT ![c] = S]
                 /\ earlier' = [earlier EXCEPT ![c] =
                        @ \cup [p \in DOMAIN Configs |-> RowsOf(rows[p])][c]]
                 /\ [p \in DOMAIN Configs |-> Cursor(p)]' =
                        [[p \in DOMAIN Configs |-> Cursor(p)] EXCEPT ![c] = next]
             cur == [p \in DOMAIN Configs |-> Cursor(p)][c]
  <2>1. Reader!GetFeedPage(c, f, limit) <=>
            \E S \in SUBSET Reader!Selected(f, cur) :
                /\ Reader!IsPage(S, Reader!Selected(f, cur), Reader!PageSize(limit))
                /\ \E next \in Reader!NextCursor(S, Reader!PageSize(limit), cur) :
                       Answer(S, next)
    BY DEF Reader!GetFeedPage
  <2>2. Feeds!GetFeedPage(c, f, limit) <=>
            \E S \in SUBSET Feeds!Selected(f, cur) :
                /\ Feeds!IsPage(S, Feeds!Selected(f, cur), Feeds!PageSize(limit))
                /\ \E next \in Feeds!NextCursor(S, Feeds!PageSize(limit), cur) :
                       Answer(S, next)
    BY DEF Feeds!GetFeedPage
  <2> HIDE DEF Answer, cur
  <2>3. Reader!Selected(f, cur) = Feeds!Selected(f, cur)
        /\ Reader!PageSize(limit) = Feeds!PageSize(limit)
    BY SameQuery
  <2> QED BY <2>1, <2>2, <2>3, SameQuery
<1> QED BY <1>1, SameQuery
        DEF Reader!Begin, Feeds!Begin, Reader!Continue, Feeds!Continue,
            Reader!table, Feeds!table

(* The steps, the initial states and the types. *)
LEMMA SameSpec ==
    /\ Reader!Next <=> Feeds!Next
    /\ Reader!Init <=> Feeds!Init
    /\ Reader!vars = Feeds!vars
    /\ Reader!TypeOK <=> Feeds!TypeOK
<1>1. Reader!Next <=> Feeds!Next
  <2>1. Reader!Tick <=> Feeds!Tick
    BY DEF Reader!Tick, Feeds!Tick, Reader!client, Feeds!client
  <2>2. ASSUME NEW u, NEW row
        PROVE  Reader!Insert(u, row) <=> Feeds!Insert(u, row)
    BY DEF Reader!Insert, Feeds!Insert, Reader!InsertPost, Feeds!InsertPost,
           Reader!client, Feeds!client
  <2>3. ASSUME NEW u
        PROVE  Reader!DeletePost(u) <=> Feeds!DeletePost(u)
    BY DEF Reader!DeletePost, Feeds!DeletePost, Reader!DeletePosts, Feeds!DeletePosts
  <2>4. Reader!Row = Feeds!Row
    BY SameData
  <2> QED BY <2>1, <2>2, <2>3, <2>4, SameRequest DEF Reader!Next, Feeds!Next
<1>2. Reader!Init <=> Feeds!Init
  BY DEF Reader!Init, Feeds!Init
<1>3. Reader!vars = Feeds!vars
  BY DEF Reader!vars, Feeds!vars, Reader!table, Feeds!table, Reader!client, Feeds!client
<1>4. Reader!TypeOK <=> Feeds!TypeOK
  BY SameData DEF Reader!TypeOK, Feeds!TypeOK
<1> QED BY <1>1, <1>2, <1>3, <1>4

-----------------------------------------------------------------------------
(* The loop over the pages. *)

(* A query selects items, and no more than there are posts. *)
LEMMA SelectedFinite ==
    ASSUME TypeOK, NEW feed, NEW cur
    PROVE  /\ Reader!Selected(feed, cur) \subseteq Reader!Item
           /\ IsFiniteSet(Reader!Selected(feed, cur))
<1> DEFINE Items == Reader!Selected(feed, cur)
           Under == {v \in Reader!Rows(feed) : Reader!Below(Reader!KeyOf(posts[v]), cur)}
           item  == [u \in Under |-> [uri |-> u, key |-> Reader!KeyOf(posts[u])]]
<1>1. Under \subseteq Uri /\ IsFiniteSet(Under)
  <2>1. Under \subseteq Uri
    BY DEF Reader!Rows
  <2> QED BY <2>1, PurgeAssumption, FS_Subset
<1>2. item \in Surjection(Under, Items)
  BY DEF Surjection, Reader!Selected
<1>3. IsFiniteSet(Items)
  BY <1>1, <1>2, FS_Surjection
<1>4. ASSUME NEW u \in Under
      PROVE  [uri |-> u, key |-> Reader!KeyOf(posts[u])] \in Reader!Item
  <2>1. u \in Uri /\ posts[u] \in Reader!Row
    BY DEF Reader!Rows, TypeOK
  <2>2. Reader!KeyOf(posts[u]) \in Reader!Key
    BY <2>1 DEF Reader!KeyOf, Reader!Row, Reader!Key
  <2> QED BY <2>1, <2>2 DEF Reader!Item
<1> QED BY <1>3, <1>4 DEF Reader!Selected

(* The rows of a page, and the last one where it is full. *)
LEMMA PageOfRows ==
    ASSUME TypeOK, NEW feed, NEW cur, NEW S \in SUBSET Reader!Selected(feed, cur),
           Reader!IsPage(S, Reader!Selected(feed, cur), PageLimit),
           NEW r \in Ordered(S)
    PROVE  /\ r \in Seq(Reader!Item) /\ RowsOf(r) = S
           /\ Len(r) = Reader!Cardinality(S) /\ Len(r) \in Nat /\ Len(r) <= PageLimit
           /\ Len(r) = PageLimit =>
                  r[Len(r)].key \in {x.key : x \in {y \in S :
                      \A z \in S : ~Reader!Less(z.key, y.key)}}
<1>1. Cardinality(S) \in Nat /\ Cardinality(S) = Reader!Cardinality(S)
  <2>1. IsFiniteSet(S)
    BY SelectedFinite, FS_Subset
  <2>2. Cardinality(S) = Reader!Cardinality(S)
    BY DEF Cardinality, Reader!Cardinality
  <2> QED BY <2>1, <2>2, FS_CardinalityType
<1>2. /\ r \in [1..Cardinality(S) -> S] /\ RowsOf(r) = S
      /\ \A j, k \in 1..Cardinality(S) : j < k => ~Reader!Less(r[j].key, r[k].key)
  BY DEF Ordered
<1>3. S \subseteq Reader!Item
  BY SelectedFinite
<1>4. r \in Seq(Reader!Item) /\ Len(r) = Cardinality(S)
  BY <1>1, <1>2, <1>3
<1>5. Len(r) <= PageLimit
  BY <1>1, <1>4 DEF Reader!IsPage
<1>6. ASSUME Len(r) = PageLimit
      PROVE  r[Len(r)].key \in {x.key : x \in {y \in S :
                 \A z \in S : ~Reader!Less(z.key, y.key)}}
  <2>1. Len(r) \in 1..Cardinality(S) /\ r[Len(r)] \in S
    BY <1>2, <1>4, <1>6, PurgeAssumption
  <2>2. ASSUME NEW z \in S
        PROVE  ~Reader!Less(z.key, r[Len(r)].key)
    <3>1. PICK j \in 1..Cardinality(S) : z = r[j]
      BY <1>2 DEF RowsOf
    <3>2. CASE j < Len(r)
      BY <1>2, <2>1, <3>1, <3>2
    <3>3. CASE j = Len(r)
      <4>1. z.key[1] \in Int /\ z.key[2] \in Int
        BY <1>3, PurgeAssumption DEF Reader!Item, Reader!Key
      <4> QED BY <3>1, <3>3, <4>1 DEF Reader!Less
    <3> QED BY <1>1, <1>4, <3>2, <3>3
  <2> QED BY <2>1, <2>2
<1> QED BY <1>1, <1>2, <1>4, <1>5, <1>6

(* The key of a row is a key of the query. *)
LEMMA LastKeyType ==
    ASSUME TypeOK, NEW p \in DOMAIN Configs, rows[p] # <<>>
    PROVE  /\ rows[p][Len(rows[p])].key \in Reader!Key
           /\ rows[p][Len(rows[p])].key \notin {First, Over}
<1>1. rows[p] \in Seq(Reader!Item)
  BY DEF TypeOK
<1>2. rows[p][Len(rows[p])] \in Reader!Item
  BY <1>1
<1>3. rows[p][Len(rows[p])].key \in Reader!Key
  BY <1>2 DEF Reader!Item
<1> QED BY <1>3, PurgeAssumption

(* Nothing that a query does not do changes what FeedPage sees of the      *)
(* command's loop. *)
LEMMA LoopIsIdle ==
    ASSUME TypeOK, InStep,
           \/ CheckBatch \/ PageEnds \/ Fails \/ NextPipeline
           \/ UNCHANGED <<command, search>>
           \/ UNCHANGED <<command, step, params, rows>>
    PROVE  /\ rows' = rows
           /\ \A p \in DOMAIN Configs : Begun(p)' = Begun(p) /\ Cursor(p)' = Cursor(p)
<1>1. rows' = rows
  BY DEF CheckBatch, Marks, PageEnds, Fails, NextPipeline, FindStalePosts, search
<1>2. /\ Len(Configs) \in Nat /\ DOMAIN Configs = 1..Len(Configs)
      /\ pipeline \in 0..Len(Configs)
  BY PurgeAssumption DEF TypeOK
<1>3. ASSUME NEW p \in DOMAIN Configs
      PROVE  Begun(p)' = Begun(p)
  <2>1. CASE UNCHANGED <<pipeline, step, params>>
    BY <2>1 DEF Begun
  <2>2. CASE PageEnds
    <3>1. /\ pipeline' = pipeline /\ pipeline \in DOMAIN Configs /\ step = "checking"
          /\ \/ step' = "deleting"
             \/ /\ ~(Len(rows[pipeline]) < PageLimit)
                /\ params' = rows[pipeline][Len(rows[pipeline])].key
      BY <1>2, <2>2 DEF PageEnds, Running, command
    <3>2. step' = "deleting" \/ params' # First
      <4>1. CASE ~(Len(rows[pipeline]) < PageLimit)
        <5>1. rows[pipeline] # <<>>
          BY <4>1, PurgeAssumption
        <5> QED BY <3>1, <5>1, LastKeyType
      <4> QED BY <3>1, <4>1
    <3> QED BY <3>1, <3>2 DEF Begun
  <2>3. CASE NextPipeline
    <3>1. CASE pipeline' = pipeline + 1 /\ step' = "querying" /\ params' = First
      <4>1. pipeline > 0 => step = "deleting"
        BY <2>3 DEF NextPipeline, PipelineOver, Traversed
      <4> QED BY <1>2, <3>1, <4>1 DEF Begun
    <3>2. CASE UNCHANGED <<pipeline, step, params>>
      BY <2>1, <3>2
    <3> QED BY <2>3, <3>1, <3>2 DEF NextPipeline, FindStalePosts, search
  <2> QED BY <2>1, <2>2, <2>3 DEF CheckBatch, Marks, Fails, command, search
<1> QED BY <1>1, <1>3 DEF Cursor

(***************************************************************************)
(* A query of the command: it begins a traversal that has not begun, or    *)
(* goes on with one where it was, with a page in order.                    *)
(***************************************************************************)
LEMMA QueryFacts ==
    ASSUME TypeOK, InStep, GetFeedPage
    PROVE  /\ pipeline \in DOMAIN Configs /\ UNCHANGED <<pipeline, params, posts, clock>>
           /\ params = Cursor(pipeline) /\ params # Over
           /\ Begun(pipeline) <=> params # First
           /\ Begun(pipeline)'
           /\ \A p \in DOMAIN Configs \ {pipeline} :
                  Begun(p)' = Begun(p) /\ rows'[p] = rows[p] /\ Cursor(p)' = Cursor(p)
           /\ rows'[pipeline] \in Seq(Reader!Item) /\ Len(rows'[pipeline]) <= PageLimit
           /\ rows' = [rows EXCEPT ![pipeline] = rows'[pipeline]]
           /\ LET items == Reader!Selected(Configs[pipeline].name, params)
                  S == RowsOf(rows'[pipeline])
              IN  /\ S \in SUBSET items /\ Reader!IsPage(S, items, PageLimit)
                  /\ Cursor(pipeline)' \in Reader!NextCursor(S, PageLimit, params)
<1>1. /\ pipeline \in DOMAIN Configs /\ UNCHANGED <<pipeline, params, posts, clock>>
      /\ pipeline > 0 /\ step = "querying" /\ step' = "checking"
  <2>1. Len(Configs) \in Nat /\ DOMAIN Configs = 1..Len(Configs)
        /\ pipeline \in 0..Len(Configs)
    BY PurgeAssumption DEF TypeOK
  <2>2. /\ UNCHANGED <<pipeline, params, posts, clock>>
        /\ pipeline > 0 /\ step = "querying" /\ step' = "checking"
    BY DEF GetFeedPage, Running, command, table
  <2> QED BY <2>1, <2>2
<1>2. params = Cursor(pipeline) /\ params \in Reader!Key \cup {First} /\ params # Over
  BY <1>1, PurgeAssumption DEF InStep, TypeOK
<1>3. /\ Begun(pipeline) <=> params # First
      /\ Begun(pipeline)'
      /\ \A p \in DOMAIN Configs \ {pipeline} : Begun(p)' = Begun(p)
  <2>1. ~(pipeline < pipeline)
    BY <1>1, PurgeAssumption
  <2> QED BY <1>1, <2>1 DEF Begun
<1> DEFINE items == Reader!Selected(Configs[pipeline].name, params)
<1>4. PICK S \in SUBSET items :
          /\ Reader!IsPage(S, items, PageLimit)
          /\ \E r \in Ordered(S) : rows' = [rows EXCEPT ![pipeline] = r]
  BY DEF GetFeedPage
<1>5. PICK r \in Ordered(S) : rows' = [rows EXCEPT ![pipeline] = r]
  BY <1>4
<1>6. /\ r \in Seq(Reader!Item) /\ RowsOf(r) = S
      /\ Len(r) = Reader!Cardinality(S) /\ Len(r) \in Nat /\ Len(r) <= PageLimit
      /\ Len(r) = PageLimit =>
             r[Len(r)].key \in {x.key : x \in {y \in S :
                 \A z \in S : ~Reader!Less(z.key, y.key)}}
  BY <1>4, PageOfRows
<1>7. rows \in [DOMAIN Configs -> Seq(Reader!Item)]
  BY DEF TypeOK
<1>8. rows'[pipeline] = r /\ \A p \in DOMAIN Configs \ {pipeline} : rows'[p] = rows[p]
  BY <1>1, <1>5, <1>7
<1>9. \A p \in DOMAIN Configs \ {pipeline} : Cursor(p)' = Cursor(p)
  BY <1>3, <1>8 DEF Cursor
<1>10. Cursor(pipeline)' \in Reader!NextCursor(S, PageLimit, params)
  <2>1. Cursor(pipeline)' = IF Len(r) < PageLimit THEN Over ELSE r[Len(r)].key
    BY <1>1, <1>3, <1>8 DEF Cursor
  <2>2. CASE Len(r) < PageLimit
    BY <1>6, <2>1, <2>2 DEF Reader!NextCursor
  <2>3. CASE ~(Len(r) < PageLimit)
    <3>1. Len(r) = PageLimit
      BY <1>6, <2>3, PurgeAssumption
    <3> QED BY <1>6, <2>1, <2>3, <3>1 DEF Reader!NextCursor
  <2> QED BY <2>2, <2>3
<1> QED BY <1>1, <1>2, <1>3, <1>4, <1>5, <1>6, <1>8, <1>9, <1>10

(* The parameters stay where the cursor would be. *)
LEMMA InStepKept ==
    ASSUME TypeOK, InStep, [Next]_vars
    PROVE  InStep'
<1>1. /\ Len(Configs) \in Nat /\ DOMAIN Configs = 1..Len(Configs)
      /\ pipeline \in 0..Len(Configs)
  BY PurgeAssumption DEF TypeOK
<1>2. CASE GetFeedPage
  <2>1. pipeline' = pipeline /\ step' = "checking" /\ pipeline > 0
    BY <1>2 DEF GetFeedPage, Running, command
  <2>2. \A p \in DOMAIN Configs \ {pipeline} :
            /\ Begun(p)' = Begun(p) /\ rows'[p] = rows[p]
            /\ earlier'[p] = earlier[p] /\ steady'[p] = steady[p]
    BY <1>2, QueryFacts DEF GetFeedPage, TypeOK
  <2>3. Len(rows'[pipeline]) <= PageLimit /\ Begun(pipeline)'
    BY <1>2, QueryFacts
  <2> QED BY <1>1, <2>1, <2>2, <2>3 DEF InStep
<1>3. CASE \/ CheckBatch \/ PageEnds \/ Fails \/ NextPipeline
           \/ UNCHANGED <<command, search, earlier>> /\ steady' = StillThere
           \/ UNCHANGED <<command, search, earlier, steady>>
  <2>1. /\ rows' = rows
        /\ \A p \in DOMAIN Configs : Begun(p)' = Begun(p) /\ Cursor(p)' = Cursor(p)
    BY <1>3, LoopIsIdle
  <2>2. earlier' = earlier
    BY <1>3 DEF CheckBatch, Marks, PageEnds, Fails, NextPipeline, history
  <2>3. \A p \in DOMAIN Configs : steady[p] = {} => steady'[p] = {}
    <3>1. CASE steady' = StillThere
      BY <3>1 DEF StillThere
    <3>2. CASE steady' = steady
      BY <3>2
    <3> QED BY <1>3, <3>1, <3>2
            DEF CheckBatch, Marks, PageEnds, Fails, NextPipeline, history
  <2>4. \A p \in DOMAIN Configs :
            /\ Len(rows'[p]) <= PageLimit
            /\ ~Begun(p)' => rows'[p] = <<>> /\ earlier'[p] = {} /\ steady'[p] = {}
    BY <2>1, <2>2, <2>3 DEF InStep
  <2>5. CASE UNCHANGED <<pipeline, step, params>>
    BY <1>1, <2>1, <2>4, <2>5 DEF InStep
  <2>6. CASE PageEnds
    <3>1. /\ pipeline' = pipeline /\ pipeline > 0 /\ step = "checking"
          /\ IF Len(rows[pipeline]) < PageLimit
             THEN step' = "deleting" /\ params' = params
             ELSE step' = "querying" /\ params' = rows[pipeline][Len(rows[pipeline])].key
      BY <2>6 DEF PageEnds, Running, command
    <3>2. pipeline \in DOMAIN Configs /\ Begun(pipeline)
      BY <1>1, <3>1 DEF Begun
    <3>3. Cursor(pipeline)' = IF Len(rows[pipeline]) < PageLimit THEN Over
                              ELSE rows[pipeline][Len(rows[pipeline])].key
      <4>1. step' = "deleting" \/ params' # First
        <5>1. ~(Len(rows[pipeline]) < PageLimit) => rows[pipeline] # <<>>
          BY PurgeAssumption
        <5> QED BY <3>1, <3>2, <5>1, LastKeyType
      <4>2. Begun(pipeline)'
        BY <3>1, <4>1 DEF Begun
      <4> QED BY <2>1, <3>1, <4>2 DEF Cursor
    <3>4. step' = "querying" => params' = Cursor(pipeline)'
      BY <3>1, <3>3
    <3>5. step' = "deleting" => Len(rows'[pipeline']) < PageLimit
      BY <2>1, <3>1
    <3> QED BY <2>1, <2>4, <3>1, <3>4, <3>5 DEF InStep
  <2>7. CASE NextPipeline /\ pipeline' = pipeline + 1
    <3>1. pipeline < Len(Configs) /\ step' = "querying" /\ params' = First
      <4>1. pipeline' # pipeline
        BY <1>1, <2>7
      <4> QED BY <2>7, <4>1 DEF NextPipeline, FindStalePosts
    <3>2. pipeline > 0 => Len(rows[pipeline]) < PageLimit
      BY <2>7 DEF NextPipeline, PipelineOver, Traversed, InStep
    <3>3. \A p \in DOMAIN Configs : p < pipeline' => Len(rows'[p]) < PageLimit
      BY <1>1, <2>1, <2>7, <3>2 DEF InStep
    <3>4. pipeline' \in DOMAIN Configs /\ ~(pipeline' < pipeline')
      BY <1>1, <2>7, <3>1
    <3>5. params' = Cursor(pipeline)'
      BY <3>1, <3>4 DEF Cursor, Begun
    <3> QED BY <1>1, <2>4, <2>7, <3>1, <3>3, <3>5 DEF InStep
  <2> QED BY <1>3, <2>5, <2>6, <2>7
          DEF CheckBatch, Marks, Fails, NextPipeline, command, search
<1>4. ASSUME \/ Ingestion \/ (\E u \in Uri : AskToDelete(u) \/ PostChanges(u))
             \/ UNCHANGED vars
      PROVE  \/ UNCHANGED <<command, search, earlier>> /\ steady' = StillThere
             \/ UNCHANGED <<command, search, earlier, steady>>
  BY <1>4 DEF Ingestion, AskToDelete, PostChanges, vars, history
<1> QED BY <1>2, <1>3, <1>4 DEF Next, Purge

-----------------------------------------------------------------------------
(* The command is a client of the feed. *)

(* A traversal begins with its first query and goes on with the others. *)
LEMMA QueryIsRequest ==
    ASSUME TypeOK, InStep, GetFeedPage
    PROVE  Reader!Next
<1> DEFINE p == pipeline
           feed == Configs[p].name
           S == RowsOf(rows'[p])
           Cursors == [q \in DOMAIN Configs |-> Cursor(q)]
           Reading == [q \in DOMAIN Configs |->
                          IF Begun(q) THEN Configs[q].name ELSE Unread]
           Page == [q \in DOMAIN Configs |-> RowsOf(rows[q])]
<1>1. /\ p \in DOMAIN Configs /\ UNCHANGED <<pipeline, params, posts, clock>>
      /\ params = Cursor(p) /\ params # Over
      /\ Begun(p) <=> params # First
      /\ Begun(p)'
      /\ \A q \in DOMAIN Configs \ {p} :
             Begun(q)' = Begun(q) /\ rows'[q] = rows[q] /\ Cursor(q)' = Cursor(q)
  BY QueryFacts
<1>2. LET items == Reader!Selected(feed, params)
      IN  /\ S \in SUBSET items /\ Reader!IsPage(S, items, PageLimit)
          /\ Cursor(p)' \in Reader!NextCursor(S, PageLimit, params)
  BY QueryFacts
<1>3. /\ feed \in Feed /\ PageLimit \in 0..PageLimit + 1
      /\ Reader!PageSize(PageLimit) = PageLimit
  BY <1>1, PurgeAssumption DEF Reader!PageSize, Reader!Min2
<1>4. Page' = [Page EXCEPT ![p] = S]
  <2>1. \A q \in DOMAIN Configs : RowsOf(rows'[q]) = IF q = p THEN S ELSE RowsOf(rows[q])
    BY <1>1
  <2>2. \A q \in DOMAIN Configs : RowsOf(rows[q])' = RowsOf(rows'[q])
    BY DEF RowsOf
  <2> QED BY <2>1, <2>2
<1>5. Cursors' = [Cursors EXCEPT ![p] = Cursor(p)']
  <2>1. p' = p
    BY <1>1
  <2>2. \A q \in DOMAIN Configs : Cursor(q)' = IF q = p THEN Cursor(p)' ELSE Cursor(q)
    BY <1>1, <2>1
  <2> QED BY <1>1, <2>2
<1>6. earlier' = [earlier EXCEPT ![p] = @ \cup Page[p]]
  BY <1>1 DEF GetFeedPage
<1>7. Cursors[p] = params /\ Reading[p] = IF Begun(p) THEN feed ELSE Unread
  BY <1>1
<1>8. Reader!GetFeedPage(p, feed, PageLimit)
  BY <1>2, <1>3, <1>4, <1>5, <1>6, <1>7 DEF Reader!GetFeedPage
<1>9. Reading' = [Reading EXCEPT ![p] = feed]
  <2>1. \A q \in DOMAIN Configs \ {p} : Begun(q)' = Begun(q)
    BY <1>1
  <2> QED BY <1>1, <2>1
<1>10. CASE params = First
  <2>1. steady' = [steady EXCEPT ![p] = Reader!Rows(feed)]
    BY <1>10 DEF GetFeedPage, FeedRows
  <2>2. Reader!Begin(p, feed, PageLimit)
    BY <1>1, <1>7, <1>8, <1>9, <1>10, <2>1 DEF Reader!Begin, Reader!table
  <2> QED BY <1>1, <1>3, <2>2 DEF Reader!Next
<1>11. CASE params # First
  <2>1. steady' = steady
    BY <1>11 DEF GetFeedPage
  <2>2. Reading[p] = feed /\ Reading' = Reading /\ feed # Unread
    <3>1. \A q \in DOMAIN Configs : Begun(q)' <=> Begun(q)
      BY <1>1, <1>11
    <3> QED BY <1>1, <1>3, <1>7, <1>11, <3>1, PurgeAssumption
  <2>3. Reader!Continue(p, PageLimit)
    BY <1>1, <1>7, <1>8, <2>1, <2>2 DEF Reader!Continue, Reader!table
  <2> QED BY <1>1, <1>3, <2>3 DEF Reader!Next
<1> QED BY <1>10, <1>11

(* What others do to the table, and the deletions asked for, are steps of  *)
(* FeedPage or change nothing: what a traversal is owed has rows. *)
LEMMA TableIsReaders ==
    ASSUME TypeOK, Feeds!Inv, UNCHANGED <<command, search, earlier>>,
           steady' = StillThere,
           \/ Tick \/ UNCHANGED <<posts, clock>>
           \/ \E u \in Uri, row \in Reader!Row : Insert(u, row)
           \/ \E u \in Uri : posts' = DeletePosts(posts, {u}) /\ UNCHANGED clock
    PROVE  Reader!Next \/ UNCHANGED Reader!vars
<1> DEFINE Cursors == [q \in DOMAIN Configs |-> Cursor(q)]
           Reading == [q \in DOMAIN Configs |->
                          IF Begun(q) THEN Configs[q].name ELSE Unread]
           Page == [q \in DOMAIN Configs |-> RowsOf(rows[q])]
<1>1. UNCHANGED <<pipeline, step, params, rows, earlier>>
  BY DEF command, search
<1>2. Cursors' = Cursors /\ Reading' = Reading /\ Page' = Page
  BY <1>1 DEF Cursor, Begun, RowsOf
<1>3. /\ posts \in [Uri -> Reader!Row \cup {NoRow}]
      /\ steady \in [DOMAIN Configs -> SUBSET Uri]
  BY DEF TypeOK
<1>4. \A p \in DOMAIN Configs : \A v \in steady[p] : posts[v] # NoRow
  BY DEF Feeds!Inv, Feeds!PageInv, Feeds!SteadyRows
<1>5. ASSUME \A v \in Uri : posts[v] # NoRow => posts'[v] # NoRow
      PROVE  steady' = steady
  <2>1. \A p \in DOMAIN Configs : StillThere[p] = steady[p]
    BY <1>3, <1>4, <1>5 DEF StillThere
  <2>2. StillThere \in [DOMAIN Configs -> SUBSET Uri]
    BY <1>3 DEF StillThere
  <2>3. StillThere = steady
    BY <1>3, <2>1, <2>2
  <2> QED BY <2>3
<1>6. CASE Tick
  <2>1. steady' = steady /\ UNCHANGED posts
    BY <1>5, <1>6 DEF Tick
  <2>2. Reader!Tick
    BY <1>1, <1>2, <1>6, <2>1 DEF Tick, Reader!Tick, Reader!client
  <2> QED BY <2>2 DEF Reader!Next
<1>7. CASE UNCHANGED <<posts, clock>>
  <2>1. steady' = steady
    BY <1>5, <1>7
  <2> QED BY <1>1, <1>2, <1>7, <2>1 DEF Reader!vars, Reader!table, Reader!client
<1>8. ASSUME NEW u \in Uri, NEW row \in Reader!Row, Insert(u, row)
      PROVE  Reader!Next
  <2>1. posts' = InsertPost(posts, u, row) /\ UNCHANGED clock /\ row.indexed_at <= clock
    BY <1>8 DEF Insert
  <2>2. \A v \in Uri : posts[v] # NoRow => posts'[v] # NoRow
    BY <1>3, <2>1, PurgeAssumption DEF InsertPost
  <2>3. steady' = steady
    BY <1>5, <2>2
  <2>4. Reader!Insert(u, row)
    BY <1>1, <1>2, <2>1, <2>3
       DEF Reader!Insert, InsertPost, Reader!InsertPost, Reader!client
  <2> QED BY <2>4 DEF Reader!Next
<1>9. ASSUME NEW u \in Uri, posts' = DeletePosts(posts, {u}), UNCHANGED clock
      PROVE  Reader!Next \/ UNCHANGED Reader!vars
  <2>1. posts' = [v \in Uri |-> IF v \in {u} THEN NoRow ELSE posts[v]]
    BY <1>3, <1>9 DEF DeletePosts
  <2>2. CASE posts[u] = NoRow
    <3>1. \A v \in Uri : posts'[v] = posts[v]
      BY <2>1, <2>2
    <3>2. posts' = posts
      BY <1>3, <2>1, <3>1
    <3> QED BY <1>7, <1>9, <3>2
  <2>3. CASE posts[u] # NoRow
    <3>1. \A p \in DOMAIN Configs : StillThere[p] = steady[p] \ {u}
      BY <1>3, <1>4, <2>1 DEF StillThere
    <3>2. StillThere = [p \in DOMAIN Configs |-> steady[p] \ {u}]
      BY <3>1 DEF StillThere
    <3>3. posts' = Reader!DeletePosts(posts, {u})
      BY <1>9 DEF DeletePosts, Reader!DeletePosts
    <3>4. Reader!DeletePost(u)
      BY <1>1, <1>2, <1>9, <2>3, <3>2, <3>3 DEF Reader!DeletePost
    <3> QED BY <3>4 DEF Reader!Next
  <2> QED BY <2>2, <2>3
<1> QED BY <1>6, <1>7, <1>8, <1>9

(* Each step of the program is a step of FeedPage, or none. *)
LEMMA StepIsReaders ==
    ASSUME TypeOK, InStep, Feeds!Inv, [Next]_vars
    PROVE  Reader!Next \/ UNCHANGED Reader!vars
<1>1. CASE GetFeedPage
  BY <1>1, QueryIsRequest
<1>2. CASE Ingestion
  <2>1. /\ UNCHANGED <<command, search, earlier>> /\ steady' = StillThere
        /\ \/ Tick
           \/ \E u \in Uri, row \in Reader!Row : Insert(u, row)
           \/ \E u \in Uri : posts' = DeletePosts(posts, {u}) /\ UNCHANGED clock
    BY <1>2 DEF Ingestion, Delete
  <2> QED BY <2>1, TableIsReaders
<1>3. CASE \E u \in Uri : AskToDelete(u)
  <2>1. PICK u \in Uri : AskToDelete(u)
    BY <1>3
  <2>2. /\ UNCHANGED <<command, search, earlier, clock>> /\ steady' = StillThere
        /\ posts' = posts \/ posts' = DeletePosts(posts, {u})
    BY <2>1 DEF AskToDelete, HandleDeletePost
  <2> QED BY <2>2, TableIsReaders
<1>4. CASE \/ CheckBatch \/ PageEnds \/ Fails \/ NextPipeline
           \/ (\E u \in Uri : PostChanges(u)) \/ UNCHANGED vars
  <2>1. /\ rows' = rows
        /\ \A p \in DOMAIN Configs : Begun(p)' = Begun(p) /\ Cursor(p)' = Cursor(p)
    <3>1. CASE UNCHANGED <<command, search>>
      BY <3>1, LoopIsIdle
    <3> QED BY <1>4, <3>1, LoopIsIdle DEF PostChanges, vars
  <2>2. UNCHANGED <<table, earlier, steady>>
    BY <1>4 DEF CheckBatch, Marks, PageEnds, Fails, NextPipeline, PostChanges, vars,
                history
  <2>3. [q \in DOMAIN Configs |-> RowsOf(rows[q])]' = [q \in DOMAIN Configs |-> RowsOf(rows[q])]
    BY <2>1 DEF RowsOf
  <2> QED BY <2>1, <2>2, <2>3 DEF table, Reader!vars, Reader!table, Reader!client
<1> QED BY <1>1, <1>2, <1>3, <1>4 DEF Next, Purge

-----------------------------------------------------------------------------
(* Types. *)

(* The page of a query is of rows, and what it replaces was shown. *)
LEMMA QueryTypes ==
    ASSUME TypeOK, InStep, GetFeedPage
    PROVE  TypeOK'
<1>1. pipeline \in DOMAIN Configs /\ UNCHANGED <<pipeline, params, posts, clock>>
  BY QueryFacts
<1>2. rows' \in [DOMAIN Configs -> Seq(Reader!Item)]
  <2>1. rows'[pipeline] \in Seq(Reader!Item)
        /\ rows' = [rows EXCEPT ![pipeline] = rows'[pipeline]]
    BY QueryFacts
  <2> QED BY <1>1, <2>1 DEF TypeOK
<1>3. /\ UNCHANGED <<dryRun, outcome, stale, asked, view, trouble>>
      /\ step' = "checking" /\ checked' = 0
      /\ earlier' = [earlier EXCEPT ![pipeline] = @ \cup RowsOf(rows[pipeline])]
  BY DEF GetFeedPage, command, table
<1>4. earlier' \in [DOMAIN Configs -> SUBSET Reader!Item]
  <2>1. rows[pipeline] \in Seq(Reader!Item)
    BY <1>1 DEF TypeOK
  <2>2. RowsOf(rows[pipeline]) \subseteq Reader!Item
    BY <2>1 DEF RowsOf
  <2> QED BY <1>1, <1>3, <2>2 DEF TypeOK
<1>5. /\ steady' \in [DOMAIN Configs -> SUBSET Uri]
      /\ sawStale' \subseteq Uri /\ sawFresh' \subseteq Uri
  <2>1. FeedRows \subseteq Uri /\ StaleNow(pipeline, view) \subseteq Uri
    BY DEF FeedRows, Reader!Rows, StaleNow
  <2>2. CASE params = First
    BY <1>1, <2>1, <2>2 DEF GetFeedPage, TypeOK
  <2>3. CASE params # First
    BY <2>3 DEF GetFeedPage, TypeOK
  <2> QED BY <2>2, <2>3
<1>6. checked' \in Nat /\ checked' <= Len(rows'[pipeline'])
  BY <1>1, <1>2, <1>3
<1> QED BY <1>1, <1>2, <1>3, <1>4, <1>5, <1>6 DEF TypeOK

(* A batch ends within the page. *)
LEMMA BatchFacts ==
    ASSUME TypeOK, HasBatch
    PROVE  /\ pipeline \in DOMAIN Configs
           /\ Len(rows[pipeline]) \in Nat /\ checked \in Nat
           /\ BatchEnd \in Nat /\ checked < BatchEnd /\ BatchEnd <= Len(rows[pipeline])
<1>1. pipeline \in DOMAIN Configs
  BY PurgeAssumption DEF HasBatch, Running, TypeOK
<1>2. checked \in Nat /\ BatchSize \in Nat /\ BatchSize > 0
  BY PurgeAssumption DEF TypeOK
<1>3. rows[pipeline] \in Seq(Reader!Item)
  BY <1>1 DEF TypeOK
<1>4. Len(rows[pipeline]) \in Nat /\ checked < Len(rows[pipeline])
  BY <1>3 DEF HasBatch
<1> QED BY <1>1, <1>2, <1>4 DEF BatchEnd

(* The loop keeps to the rows of the page, and marks posts. *)
LEMMA TypeKept ==
    ASSUME TypeOK, InStep, [Next]_vars
    PROVE  TypeOK'
<1>1. Len(Configs) \in Nat /\ DOMAIN Configs = 1..Len(Configs)
  BY PurgeAssumption
<1>2. \A p, v : StaleNow(p, v) \subseteq Uri
  BY DEF StaleNow
<1>3. StillThere \in [DOMAIN Configs -> SUBSET Uri]
  BY DEF StillThere, TypeOK
<1>4. Troubled => trouble' \in 0..MaxTrouble
  BY PurgeAssumption DEF Troubled, TypeOK
<1>5. CASE GetFeedPage
  BY <1>5, QueryTypes
<1>6. CASE CheckBatch
  <2>1. /\ stale' = stale \cup (Uris(Batch) \cap StaleNow(pipeline, view))
        /\ checked' = BatchEnd /\ HasBatch
        /\ UNCHANGED <<command, step, params, rows, asked, view, table, history, trouble>>
    BY <1>6 DEF CheckBatch, Marks
  <2>2. checked' \in Nat /\ checked' <= Len(rows[pipeline])
    BY <2>1, BatchFacts
  <2>3. stale' \subseteq Uri /\ asked' \subseteq stale'
    BY <1>2, <2>1 DEF TypeOK
  <2> QED BY <2>1, <2>2, <2>3 DEF TypeOK, command, table, history
<1>7. CASE PageEnds
  <2>1. /\ step' \in {"querying", "deleting"} /\ Running
        /\ \/ params' = params
           \/ /\ ~(Len(rows[pipeline]) < PageLimit)
              /\ params' = rows[pipeline][Len(rows[pipeline])].key
        /\ UNCHANGED <<command, rows, checked, stale, asked, view, table, history, trouble>>
    BY <1>7 DEF PageEnds
  <2>2. params' \in Reader!Key \cup {First}
    <3>1. CASE params' = params
      BY <3>1 DEF TypeOK
    <3>2. CASE ~(Len(rows[pipeline]) < PageLimit)
               /\ params' = rows[pipeline][Len(rows[pipeline])].key
      <4>1. pipeline \in DOMAIN Configs
        BY <1>1, <2>1 DEF Running, TypeOK
      <4>2. rows[pipeline] # <<>>
        BY <3>2, PurgeAssumption
      <4> QED BY <3>2, <4>1, <4>2, LastKeyType
    <3> QED BY <2>1, <3>1, <3>2
  <2> QED BY <2>1, <2>2 DEF TypeOK, command, table, history
<1>8. CASE Fails
  BY <1>8 DEF Fails, TypeOK, search, table, history
<1>9. ASSUME NEW u \in Uri, AskToDelete(u)
      PROVE  TypeOK'
  <2>1. trouble' \in 0..MaxTrouble
    BY <1>4, <1>9 DEF AskToDelete, TypeOK
  <2>2. posts' \in [Uri -> Reader!Row \cup {NoRow}]
    BY <1>9 DEF AskToDelete, HandleDeletePost, DeletePosts, TypeOK
  <2>3. steady' \in [DOMAIN Configs -> SUBSET Uri]
    BY <1>3, <1>9 DEF AskToDelete
  <2>4. asked' \subseteq stale'
    BY <1>9 DEF AskToDelete, TypeOK, search
  <2> QED BY <1>9, <2>1, <2>2, <2>3, <2>4 DEF AskToDelete, TypeOK, command, search
<1>10. CASE NextPipeline
  <2>1. CASE pipeline < Len(Configs) /\ pipeline' = pipeline + 1 /\ FindStalePosts
    <3>1. pipeline' \in 0..Len(Configs) /\ pipeline' \in DOMAIN Configs
      BY <1>1, <2>1 DEF TypeOK
    <3>2. rows' = rows /\ checked' = 0
      BY <2>1 DEF FindStalePosts
    <3>3. checked' \in Nat /\ checked' <= Len(rows'[pipeline'])
      BY <3>1, <3>2 DEF TypeOK
    <3> QED BY <1>10, <2>1, <3>1, <3>2, <3>3
            DEF NextPipeline, FindStalePosts, TypeOK, table
  <2>2. CASE UNCHANGED <<pipeline, search, asked, sawStale, sawFresh>> /\ outcome' = "ended"
    BY <1>10, <2>2 DEF NextPipeline, TypeOK, table, search
  <2> QED BY <1>10, <2>1, <2>2 DEF NextPipeline
<1>11. CASE Ingestion
  <2>1. trouble' \in 0..MaxTrouble
    BY <1>4, <1>11 DEF Ingestion, TypeOK
  <2>2. posts' \in [Uri -> Reader!Row \cup {NoRow}] /\ clock' \in 0..MaxClock
    <3>1. CASE Tick
      BY <3>1, PurgeAssumption DEF Tick, TypeOK
    <3>2. CASE \E u \in Uri, row \in Reader!Row : Insert(u, row)
      BY <3>2 DEF Insert, InsertPost, TypeOK
    <3>3. CASE \E u \in Uri : Delete(u)
      BY <3>3 DEF Delete, DeletePosts, TypeOK
    <3> QED BY <1>11, <3>1, <3>2, <3>3 DEF Ingestion
  <2>3. steady' \in [DOMAIN Configs -> SUBSET Uri]
    BY <1>3, <1>11 DEF Ingestion
  <2> QED BY <1>11, <2>1, <2>2, <2>3 DEF Ingestion, TypeOK, command, search
<1>12. ASSUME NEW u \in Uri, PostChanges(u)
       PROVE  TypeOK'
  <2>1. trouble' \in 0..MaxTrouble
    BY <1>4, <1>12 DEF PostChanges, TypeOK
  <2>2. view' \in [Uri -> Contents \cup {Gone}]
    BY <1>12 DEF PostChanges, TypeOK
  <2>3. sawStale' \subseteq Uri /\ sawFresh' \subseteq Uri
    BY <1>2, <1>12 DEF PostChanges, TypeOK
  <2> QED BY <1>12, <2>1, <2>2, <2>3 DEF PostChanges, TypeOK, command, search, table
<1>13. CASE UNCHANGED vars
  BY <1>13 DEF vars, TypeOK, command, search, table, history
<1> QED BY <1>5, <1>6, <1>7, <1>8, <1>9, <1>10, <1>11, <1>12, <1>13 DEF Next, Purge

-----------------------------------------------------------------------------
(* What is judged. *)

(* A query brings rows to look at, and the first one a new start. *)
LEMMA QueryJudged ==
    ASSUME TypeOK, InStep, JudgedSoFar, GetFeedPage
    PROVE  JudgedSoFar'
<1>1. /\ pipeline \in DOMAIN Configs /\ pipeline' = pipeline
      /\ Begun(pipeline) <=> params # First
      /\ Begun(pipeline)'
      /\ rows'[pipeline] \in Seq(Reader!Item)
  BY QueryFacts
<1>2. /\ Running /\ Running' /\ step = "querying"
      /\ step' = "checking" /\ checked' = 0 /\ stale' = stale /\ view' = view
      /\ earlier' = [earlier EXCEPT ![pipeline] = @ \cup RowsOf(rows[pipeline])]
  BY DEF GetFeedPage, Running, command
<1>3. earlier'[pipeline] = Reader!Shown(pipeline)
  BY <1>1, <1>2 DEF Reader!Shown, TypeOK
<1>4. Unchecked' = RowsOf(rows'[pipeline])
  BY <1>1, <1>2 DEF Unchecked, RowsOf
<1>5. Reader!Shown(pipeline)' \ Unchecked' \subseteq Reader!Shown(pipeline)
  <2>1. Reader!Shown(pipeline)' = earlier'[pipeline] \cup RowsOf(rows'[pipeline])
    BY <1>1 DEF Reader!Shown, RowsOf
  <2> QED BY <1>3, <1>4, <2>1
<1>6. Begun(pipeline') <=> Begun(pipeline)
  BY <1>1
<1>7. StaleNow(pipeline, view)' = StaleNow(pipeline, view)
  BY <1>1, <1>2 DEF StaleNow
<1>8. Begun(pipeline)' /\ Reader!Shown(pipeline') = Reader!Shown(pipeline)
  BY <1>1
<1>9. CASE params = First
  <2>1. /\ sawStale' = StaleNow(pipeline, view)
        /\ sawFresh' = Uri \ StaleNow(pipeline, view)
    BY <1>9 DEF GetFeedPage
  <2>2. stale = {}
    BY <1>1, <1>2, <1>9 DEF JudgedSoFar
  <2>3. Reader!Shown(pipeline) = {}
    BY <1>1, <1>9 DEF InStep, Reader!Shown, RowsOf
  <2>4. \A x \in Reader!Shown(pipeline)' \ Unchecked' : x.uri \in stale' \cup sawFresh'
    BY <1>5, <2>3
  <2> QED BY <1>1, <1>2, <1>7, <2>1, <2>2, <2>4 DEF JudgedSoFar
<1>10. CASE params # First
  <2>1. sawStale' = sawStale /\ sawFresh' = sawFresh
    BY <1>10 DEF GetFeedPage
  <2>2. Unchecked = {}
    BY <1>2 DEF Unchecked
  <2>3. \A x \in Reader!Shown(pipeline)' \ Unchecked' : x.uri \in stale \cup sawFresh
    BY <1>1, <1>2, <1>5, <1>10, <2>2 DEF JudgedSoFar
  <2>4. /\ StaleNow(pipeline, view) \subseteq sawStale
        /\ Uri \ StaleNow(pipeline, view) \subseteq sawFresh
        /\ stale \subseteq sawStale
    BY <1>1, <1>2, <1>10 DEF JudgedSoFar
  <2> QED BY <1>1, <1>2, <1>7, <2>1, <2>3, <2>4 DEF JudgedSoFar
<1> QED BY <1>9, <1>10

(* A batch is judged by what the posts say now. *)
LEMMA BatchJudged ==
    ASSUME TypeOK, InStep, JudgedSoFar, CheckBatch
    PROVE  JudgedSoFar'
<1>1. /\ HasBatch /\ stale' = stale \cup (Uris(Batch) \cap StaleNow(pipeline, view))
      /\ checked' = BatchEnd
      /\ UNCHANGED <<pipeline, outcome, step, rows, view, earlier, sawStale, sawFresh>>
  BY DEF CheckBatch, Marks, command, history
<1>2. Running /\ step = "checking" /\ pipeline \in DOMAIN Configs /\ Begun(pipeline)
  BY <1>1, BatchFacts DEF HasBatch, Begun
<1>3. /\ StaleNow(pipeline, view)' = StaleNow(pipeline, view)
      /\ Begun(pipeline)' /\ Running'
      /\ Reader!Shown(pipeline)' = Reader!Shown(pipeline)
  <2>1. Begun(pipeline)'
    BY <1>1, <1>2 DEF Begun
  <2>2. Reader!Shown(pipeline)' = Reader!Shown(pipeline)
    BY <1>1 DEF Reader!Shown, RowsOf
  <2> QED BY <1>1, <1>2, <2>1, <2>2 DEF StaleNow, Running
<1>4. Unchecked \subseteq Unchecked' \cup Batch
  <2> SUFFICES ASSUME NEW j \in checked + 1..Len(rows[pipeline])
               PROVE  rows[pipeline][j] \in Unchecked' \cup Batch
    BY <1>2 DEF Unchecked
  <2>1. CASE j <= BatchEnd
    <3>1. j \in checked + 1..BatchEnd
      BY <1>1, <2>1, BatchFacts
    <3> QED BY <3>1 DEF Batch
  <2>2. CASE ~(j <= BatchEnd)
    <3>1. j \in BatchEnd + 1..Len(rows[pipeline])
      BY <1>1, <2>2, BatchFacts
    <3>2. Unchecked' = {rows[pipeline][i] : i \in BatchEnd + 1..Len(rows[pipeline])}
      BY <1>1, <1>2 DEF Unchecked
    <3> QED BY <3>1, <3>2
  <2> QED BY <2>1, <2>2
<1>5. ASSUME NEW x \in Reader!Shown(pipeline) \ Unchecked'
      PROVE  x.uri \in stale' \cup sawFresh
  <2>1. CASE x \in Batch
    <3>1. x.uri \in Uri
      <4>1. x \in Reader!Item
        <5>1. PICK j \in checked + 1..BatchEnd : x = rows[pipeline][j]
          BY <2>1 DEF Batch
        <5>2. j \in 1..Len(rows[pipeline]) /\ rows[pipeline] \in Seq(Reader!Item)
          BY <1>1, <1>2, BatchFacts DEF TypeOK
        <5> QED BY <5>1, <5>2
      <4> QED BY <4>1 DEF Reader!Item
    <3>2. x.uri \in Uris(Batch)
      BY <2>1 DEF Uris
    <3>3. x.uri \in StaleNow(pipeline, view) \/ x.uri \in sawFresh
      BY <1>2, <3>1 DEF JudgedSoFar
    <3> QED BY <1>1, <3>2, <3>3
  <2>2. CASE x \notin Batch
    <3>1. x \notin Unchecked
      BY <1>4, <2>2
    <3> QED BY <1>1, <1>2, <3>1 DEF JudgedSoFar
  <2> QED BY <2>1, <2>2
<1>6. stale' \subseteq sawStale
  BY <1>1, <1>2 DEF JudgedSoFar
<1>7. /\ StaleNow(pipeline, view) \subseteq sawStale
      /\ Uri \ StaleNow(pipeline, view) \subseteq sawFresh
  BY <1>2 DEF JudgedSoFar
<1> QED BY <1>1, <1>3, <1>5, <1>6, <1>7 DEF JudgedSoFar

(* A page ends when all of it was judged. *)
LEMMA EndJudged ==
    ASSUME TypeOK, InStep, JudgedSoFar, PageEnds
    PROVE  JudgedSoFar'
<1>1. /\ Running /\ step = "checking" /\ checked = Len(rows[pipeline])
      /\ step' # "checking"
      /\ UNCHANGED <<pipeline, outcome, rows, stale, view, earlier, sawStale, sawFresh>>
  BY DEF PageEnds, command, history
<1>2. pipeline \in DOMAIN Configs /\ Begun(pipeline)
  BY <1>1, PurgeAssumption DEF Running, TypeOK, Begun
<1>3. Unchecked = {} /\ Unchecked' = {}
  <2>1. checked \in Nat
    BY DEF TypeOK
  <2>2. checked + 1..Len(rows[pipeline]) = {}
    BY <1>1, <2>1
  <2> QED BY <1>1, <2>2 DEF Unchecked
<1>4. \A p \in DOMAIN Configs : Begun(p)' = Begun(p)
  BY LoopIsIdle
<1>5. Begun(pipeline)'
  <2>1. PICK p \in DOMAIN Configs : p = pipeline
    BY <1>2
  <2>2. Begun(p)' /\ ~(p < p)
    BY <1>2, <1>4, <2>1, PurgeAssumption
  <2>3. step' # "querying" \/ params' # First
    BY <1>1, <2>1, <2>2 DEF Begun
  <2> QED BY <2>3 DEF Begun
<1>6. /\ StaleNow(pipeline, view)' = StaleNow(pipeline, view) /\ Running'
      /\ Reader!Shown(pipeline)' = Reader!Shown(pipeline)
  BY <1>1 DEF StaleNow, Running, Reader!Shown, RowsOf
<1> QED BY <1>1, <1>2, <1>3, <1>5, <1>6 DEF JudgedSoFar

(* The next pipeline starts with nothing judged. *)
LEMMA PipelineJudged ==
    ASSUME TypeOK, InStep, JudgedSoFar, NextPipeline
    PROVE  JudgedSoFar'
<1>1. CASE pipeline' = pipeline + 1 /\ FindStalePosts
  <2>1. stale' = {} /\ step' = "querying" /\ params' = First
    BY <1>1 DEF FindStalePosts
  <2>2. ~(pipeline' < pipeline')
    BY <1>1, PurgeAssumption DEF TypeOK
  <2>3. ~Begun(pipeline)'
    BY <2>1, <2>2 DEF Begun
  <2> QED BY <2>1, <2>3 DEF JudgedSoFar
<1>2. CASE outcome' = "ended" /\ UNCHANGED <<pipeline, search, asked, sawStale, sawFresh>>
  <2>1. ~Running' /\ stale' \subseteq sawStale'
    BY <1>2 DEF Running, JudgedSoFar, search
  <2> QED BY <2>1 DEF JudgedSoFar
<1> QED BY <1>1, <1>2 DEF NextPipeline

(* What the others do changes what there is to see, not what was seen. *)
LEMMA OthersJudged ==
    ASSUME TypeOK, JudgedSoFar, UNCHANGED <<command, search, earlier>>,
           \/ UNCHANGED <<view, sawStale, sawFresh>>
           \/ pipeline = 0 /\ UNCHANGED <<sawStale, sawFresh>>
           \/ /\ sawStale' = sawStale \cup StaleNow(pipeline, view')
              /\ sawFresh' = sawFresh \cup (Uri \ StaleNow(pipeline, view'))
    PROVE  JudgedSoFar'
<1>1. UNCHANGED <<pipeline, outcome, step, params, rows, checked, stale, earlier>>
  BY DEF command, search
<1>2. /\ Running' = Running /\ Begun(pipeline)' = Begun(pipeline)
      /\ Unchecked' = Unchecked /\ Reader!Shown(pipeline)' = Reader!Shown(pipeline)
  BY <1>1 DEF Running, Begun, Unchecked, Reader!Shown, RowsOf
<1>3. StaleNow(pipeline, view)' = StaleNow(pipeline, view')
  BY <1>1 DEF StaleNow
<1>4. CASE UNCHANGED <<view, sawStale, sawFresh>>
  BY <1>1, <1>2, <1>3, <1>4 DEF JudgedSoFar
<1>5. CASE pipeline = 0 /\ UNCHANGED <<sawStale, sawFresh>>
  BY <1>1, <1>2, <1>5 DEF JudgedSoFar, Running
<1>6. CASE /\ sawStale' = sawStale \cup StaleNow(pipeline, view')
           /\ sawFresh' = sawFresh \cup (Uri \ StaleNow(pipeline, view'))
  <2>1. stale' \subseteq sawStale'
    BY <1>1, <1>6 DEF JudgedSoFar
  <2>2. Running /\ Begun(pipeline) =>
            \A x \in Reader!Shown(pipeline) \ Unchecked : x.uri \in stale \cup sawFresh'
    BY <1>6 DEF JudgedSoFar
  <2>3. Running /\ ~Begun(pipeline) => stale = {}
    BY DEF JudgedSoFar
  <2> QED BY <1>1, <1>2, <1>3, <1>6, <2>1, <2>2, <2>3 DEF JudgedSoFar
<1> QED BY <1>4, <1>5, <1>6

(* Every step keeps what was judged right. *)
LEMMA JudgedKept ==
    ASSUME TypeOK, InStep, JudgedSoFar, [Next]_vars
    PROVE  JudgedSoFar'
<1>1. CASE Fails
  <2>1. ~Running' /\ stale' \subseteq sawStale'
    BY <1>1 DEF Fails, Running, JudgedSoFar, search, history
  <2> QED BY <2>1 DEF JudgedSoFar
<1>2. CASE \/ Ingestion \/ (\E u \in Uri : AskToDelete(u) \/ PostChanges(u))
           \/ UNCHANGED vars
  BY <1>2, OthersJudged DEF Ingestion, AskToDelete, PostChanges, vars, history
<1> QED BY <1>1, <1>2, QueryJudged, BatchJudged, EndJudged, PipelineJudged
        DEF Next, Purge

-----------------------------------------------------------------------------
(* The theorems. *)

Inv == TypeOK /\ InStep /\ Feeds!Inv /\ JudgedSoFar

(* No traversal has begun at the start. *)
LEMMA InitReader == Init => Reader!Init
<1> SUFFICES ASSUME Init
             PROVE  Reader!Init
  OBVIOUS
<1>1. \A p \in DOMAIN Configs : ~Begun(p)
  BY PurgeAssumption DEF Init, Begun
<1>2. \A p \in DOMAIN Configs : Cursor(p) = First /\ RowsOf(rows[p]) = {}
  BY <1>1 DEF Cursor, Init, RowsOf
<1> QED BY <1>1, <1>2 DEF Init, Reader!Init

(* The invariant holds at the start. *)
LEMMA InitInv == Init => Inv
<1> SUFFICES ASSUME Init
             PROVE  Inv
  OBVIOUS
<1>1. Feeds!Inv
  BY InitReader, SameSpec, FeedsAssumption, Feeds!InitInv
<1>2. TypeOK
  BY PurgeAssumption DEF Init, TypeOK
<1>3. InStep
  BY PurgeAssumption DEF Init, InStep, Begun
<1>4. JudgedSoFar
  BY DEF Init, JudgedSoFar, Running
<1> QED BY <1>1, <1>2, <1>3, <1>4 DEF Inv

(* Every step keeps it, and is a step of a reader. *)
LEMMA NextInv == Inv /\ [Next]_vars => Inv' /\ [Reader!Next]_(Reader!vars)
<1> SUFFICES ASSUME Inv, [Next]_vars
             PROVE  Inv' /\ [Reader!Next]_(Reader!vars)
  OBVIOUS
<1>1. Reader!Next \/ UNCHANGED Reader!vars
  BY StepIsReaders DEF Inv
<1>2. Feeds!Inv'
  <2>1. CASE Reader!Next
    <3>1. Feeds!Next
      BY <2>1, SameSpec
    <3> QED BY <3>1, FeedsAssumption, Feeds!StepInv DEF Inv
  <2>2. CASE UNCHANGED Reader!vars
    <3>1. UNCHANGED Feeds!vars
      BY <2>2 DEF Reader!vars, Feeds!vars, Reader!table, Feeds!table,
                  Reader!client, Feeds!client
    <3> QED BY <3>1, FeedsAssumption, Feeds!StepInv DEF Inv
  <2> QED BY <1>1, <2>1, <2>2
<1>3. TypeOK' /\ InStep' /\ JudgedSoFar'
  BY TypeKept, InStepKept, JudgedKept DEF Inv
<1> QED BY <1>1, <1>2, <1>3 DEF Inv

(* So it holds in every state. *)
LEMMA InvHolds == Spec => []Inv
BY InitInv, NextInv, PTL DEF Spec

(* The command keeps its state in shape, whatever the configuration. *)
THEOREM TypeCorrect == Spec => []TypeOK
<1>1. Inv => TypeOK
  BY DEF Inv
<1> QED BY <1>1, InvHolds, PTL

(* Each traversal of the command's own loop is one of a client of the feed. *)
THEOREM ReadsFeedHolds == Spec => ReadsFeed
BY InitReader, NextInv, InvHolds, PTL DEF Spec, ReadsFeed, Reader!Spec

(* Only what was stale is marked. *)
THEOREM OnlyStaleJudgedHolds == Spec => []OnlyStaleJudged
<1>1. Inv => OnlyStaleJudged
  BY DEF Inv, JudgedSoFar, OnlyStaleJudged
<1> QED BY <1>1, InvHolds, PTL

(* All that was stale throughout is marked, but for ties. *)
THEOREM StaleCompleteHolds == Spec => []StaleComplete
<1>1. Inv => StaleComplete
  <2> SUFFICES ASSUME Inv, Traversed, NEW u \in steady[pipeline]
               PROVE  \/ u \in stale \cup sawFresh
                      \/ \E x \in Reader!Shown(pipeline) :
                             x.uri # u /\ x.key = Reader!KeyOf(posts[u])
    BY DEF StaleComplete
  <2>1. /\ Running /\ pipeline \in DOMAIN Configs /\ Begun(pipeline)
        /\ Cursor(pipeline) = Over /\ Unchecked = {}
    <3>1. Running /\ pipeline \in DOMAIN Configs /\ step = "deleting"
      BY PurgeAssumption DEF Traversed, Running, Inv, TypeOK
    <3>2. Len(rows[pipeline]) < PageLimit
      BY <3>1 DEF Inv, InStep, Running
    <3> QED BY <3>1, <3>2 DEF Begun, Cursor, Unchecked
  <2>2. \A x \in Reader!Shown(pipeline) : x.uri \in stale \cup sawFresh
    BY <2>1 DEF Inv, JudgedSoFar
  <2>3. \/ [uri |-> u, key |-> Feeds!KeyOf(posts[u])] \in Feeds!Shown(pipeline)
        \/ \E x \in Feeds!Shown(pipeline) : x.key = Feeds!KeyOf(posts[u])
    <3>1. Cursor(pipeline) \notin Feeds!Key
      BY <2>1, FeedsAssumption DEF Feeds!FeedPageAssumption
    <3> QED BY <2>1, <3>1 DEF Inv, Feeds!Inv, Feeds!PageInv, Feeds!ShownSoFar, Feeds!Tied
  <2>4. Feeds!Shown(pipeline) = Reader!Shown(pipeline)
        /\ Feeds!KeyOf(posts[u]) = Reader!KeyOf(posts[u])
    BY SameOrder DEF Feeds!Shown, Reader!Shown
  <2>5. CASE [uri |-> u, key |-> Feeds!KeyOf(posts[u])] \in Feeds!Shown(pipeline)
    BY <2>2, <2>4, <2>5
  <2>6. CASE \E x \in Feeds!Shown(pipeline) : x.key = Feeds!KeyOf(posts[u])
    BY <2>2, <2>4, <2>6
  <2> QED BY <2>3, <2>5, <2>6
<1> QED BY <1>1, InvHolds, PTL
=============================================================================
