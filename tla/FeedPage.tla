------------------------------ MODULE FeedPage ------------------------------
(***************************************************************************)
(* Reading a feed: a client asks getFeedSkeleton for page after page, each *)
(* time with the cursor of the page before, while ingestion and deletions  *)
(* go on changing the post table.  A page is one SELECT, hence one         *)
(* snapshot; a traversal of the feed is many.                              *)
(*                                                                         *)
(* CIDs stand for their place in the order of the database's text          *)
(* comparison.                                                             *)
(***************************************************************************)
EXTENDS Integers, Sequences, FiniteSets, FeedStore

CONSTANTS
    Uri, Feed,
    Client,         \* each reads one feed, once
    DefaultLimit,   \* 50
    LimitCap,       \* 100
    MaxCid,         \* BOUND on the CIDs
    MaxClock,       \* BOUND on the seconds that pass
    Unread,         \* a client that has not begun
    First,          \* no cursor in the request: the first page
    Over            \* no cursor in the response: the last page

Key == (0..MaxClock) \X (1..MaxCid)
Row == [feed : Feed, cid : 1..MaxCid, indexed_at : 0..MaxClock]
Item == [uri : Uri, key : Key]

ASSUME FeedPageAssumption ==
    /\ DefaultLimit \in Nat \ {0}
    /\ LimitCap \in Nat \ {0}
    /\ MaxCid \in Nat /\ MaxClock \in Nat
    /\ IsFiniteSet(Uri)
    /\ NoRow \notin Row /\ Unread \notin Feed
    /\ First \notin Key /\ Over \notin Key /\ First # Over

VARIABLES
    posts,      \* the post table: URI -> row or NoRow
    clock,      \* the current second
    cursor,     \* per client, the cursor it will send next
    \* What nobody keeps.
    reading,    \* per client, the feed it reads, once it has begun
    page,       \* per client, the items of the last response
    before,     \* per client, the items of those before
    steady      \* per client, the posts there since it began

table == <<posts, clock>>
client == <<cursor, reading, page, before, steady>>
vars == <<table, client>>

TypeOK ==
    /\ posts \in [Uri -> Row \cup {NoRow}]
    /\ clock \in 0..MaxClock
    /\ cursor \in [Client -> Key \cup {First, Over}]
    /\ reading \in [Client -> Feed \cup {Unread}]
    /\ page \in [Client -> SUBSET Item]
    /\ before \in [Client -> SUBSET Item]
    /\ steady \in [Client -> SUBSET Uri]

Init ==
    /\ posts = [u \in Uri |-> NoRow]
    /\ clock = 0
    /\ cursor = [c \in Client |-> First]
    /\ reading = [c \in Client |-> Unread]
    /\ page = [c \in Client |-> {}]
    /\ before = [c \in Client |-> {}]
    /\ steady = [c \in Client |-> {}]

-----------------------------------------------------------------------------
(* The query. *)

Min2(m, n) == IF m <= n THEN m ELSE n

(* 0 stands for a limit that is absent, not a number, or not positive. *)
PageSize(limit) == IF limit > 0 THEN Min2(limit, LimitCap) ELSE DefaultLimit

KeyOf(row) == <<row.indexed_at, row.cid>>

Less(k, l) == k[1] < l[1] \/ (k[1] = l[1] /\ k[2] < l[2])

(* Mutant: the query compares the seconds alone. *)
BelowCoarse(k, c) == c = First \/ k[1] < c[1]

(* Mutant: the query compares with <= . *)
BelowInclusive(k, c) == c = First \/ ~Less(c, k)

(* The WHERE clause; $2 IS NULL on the first page. *)
Below(k, c) == c = First \/ Less(k, c)

Rows(feed) == {u \in Uri : posts[u] # NoRow /\ posts[u].feed = feed}

Selected(feed, c) ==
    {[uri |-> u, key |-> KeyOf(posts[u])] :
        u \in {v \in Rows(feed) : Below(KeyOf(posts[v]), c)}}

(***************************************************************************)
(* ORDER BY indexed_at DESC, cid DESC LIMIT n.  The order says nothing of  *)
(* rows with equal keys, so several pages may be right.                    *)
(***************************************************************************)
IsPage(S, items, n) ==
    /\ S \subseteq items
    /\ Cardinality(S) <= n
    /\ S # items => Cardinality(S) = n
    /\ \A x \in S, y \in items \ S : ~Less(x.key, y.key)

(* Mutant: a response that is not full repeats the cursor of the request. *)
NextCursorEchoes(S, n, c) ==
    IF S = {} THEN {c} ELSE {x.key : x \in {y \in S : \A z \in S : ~Less(z.key, y.key)}}

(***************************************************************************)
(* A page that is not full is the last one; else buildCursor makes the     *)
(* cursor of its last row, and parseCursor will give its two parts back.   *)
(***************************************************************************)
NextCursor(S, n, c) ==
    IF Cardinality(S) < n
    THEN {Over}
    ELSE {x.key : x \in {y \in S : \A z \in S : ~Less(z.key, y.key)}}

GetFeedPage(c, feed, limit) ==
    \E S \in SUBSET Selected(feed, cursor[c]) :
        /\ IsPage(S, Selected(feed, cursor[c]), PageSize(limit))
        /\ page' = [page EXCEPT ![c] = S]
        /\ before' = [before EXCEPT ![c] = @ \cup page[c]]
        /\ \E next \in NextCursor(S, PageSize(limit), cursor[c]) :
               cursor' = [cursor EXCEPT ![c] = next]

(* The first request of a client, and the others. *)
Begin(c, feed, limit) ==
    /\ reading[c] = Unread
    /\ GetFeedPage(c, feed, limit)
    /\ reading' = [reading EXCEPT ![c] = feed]
    /\ steady' = [steady EXCEPT ![c] = Rows(feed)]
    /\ UNCHANGED table

Continue(c, limit) ==
    /\ reading[c] # Unread /\ cursor[c] # Over
    /\ GetFeedPage(c, reading[c], limit)
    /\ UNCHANGED <<table, reading, steady>>

-----------------------------------------------------------------------------
(* The others who use the table. *)

Tick ==
    /\ clock < MaxClock
    /\ clock' = clock + 1
    /\ UNCHANGED <<posts, client>>

(***************************************************************************)
(* InsertPost formats time.Now() before it sends the statement: when the   *)
(* row appears its indexed_at may be a second long past.                   *)
(***************************************************************************)
Insert(u, row) ==
    /\ row.indexed_at <= clock
    /\ posts' = InsertPost(posts, u, row)
    /\ UNCHANGED <<clock, client>>

(* handleDelete of ingestion.  (Purge says what becomes of a request.) *)
DeletePost(u) ==
    /\ posts[u] # NoRow
    /\ posts' = DeletePosts(posts, {u})
    /\ steady' = [c \in Client |-> steady[c] \ {u}]
    /\ UNCHANGED <<clock, cursor, reading, page, before>>

Next ==
    \/ \E c \in Client, limit \in 0..LimitCap + 1 :
           (\E feed \in Feed : Begin(c, feed, limit)) \/ Continue(c, limit)
    \/ Tick
    \/ \E u \in Uri, row \in Row : Insert(u, row)
    \/ \E u \in Uri : DeletePost(u)

Spec == Init /\ [][Next]_vars

-----------------------------------------------------------------------------
(* Safety. *)

Shown(c) == before[c] \cup page[c]

(***************************************************************************)
(* The pages continue one another: whatever was inserted in between, with  *)
(* whatever old time stamp, each is strictly older than those before.  No  *)
(* row is ever shown twice.                                                *)
(***************************************************************************)
Descending ==
    \A c \in Client : \A x \in before[c], y \in page[c] : Less(y.key, x.key)

(* Two rows of one second and one CID are one place in the order. *)
Tied(c, k) == \E x \in Shown(c) : x.key = k

(***************************************************************************)
(* A post that was there from the first page to the last is shown, however *)
(* many come and go around it.  The one exception is the query's: of rows  *)
(* with equal keys a page may end with one and the next one skips the      *)
(* others.                                                                 *)
(***************************************************************************)
Complete ==
    \A c \in Client : cursor[c] = Over =>
        \A u \in steady[c] :
            \/ [uri |-> u, key |-> KeyOf(posts[u])] \in Shown(c)
            \/ Tied(c, KeyOf(posts[u]))

(***************************************************************************)
(* Why they hold: no page has a row below the cursor, and every row that   *)
(* was there all the time and is not below the cursor was shown or tied.   *)
(***************************************************************************)
CursorIsLast ==
    \A c \in Client :
        /\ reading[c] = Unread => cursor[c] = First
        /\ cursor[c] = First => reading[c] = Unread /\ Shown(c) = {}
        /\ cursor[c] \in Key => \A x \in Shown(c) : ~Less(x.key, cursor[c])

SteadyRows ==
    \A c \in Client :
        /\ reading[c] = Unread => steady[c] = {}
        /\ \A u \in steady[c] : posts[u] # NoRow /\ posts[u].feed = reading[c]

ShownSoFar ==
    \A c \in Client : \A u \in steady[c] :
        LET k == KeyOf(posts[u])
        IN  \/ [uri |-> u, key |-> k] \in Shown(c)
            \/ Tied(c, k)
            \/ cursor[c] \in Key /\ Less(k, cursor[c])

PageInv == CursorIsLast /\ SteadyRows /\ ShownSoFar /\ Descending

-----------------------------------------------------------------------------
(* Liveness. *)

(* A client that has begun asks for the next page while there is one. *)
Fairness ==
    \A c \in Client : WF_vars(\E limit \in 0..LimitCap + 1 : Continue(c, limit))

FairSpec == Spec /\ Fairness

(***************************************************************************)
(* Such a client gets to the end, although posts are inserted all the      *)
(* while: the cursor it gets is always older than the one it sent.         *)
(***************************************************************************)
EveryTraversalEnds ==
    \A c \in Client : reading[c] # Unread ~> cursor[c] = Over
=============================================================================
