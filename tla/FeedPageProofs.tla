--------------------------- MODULE FeedPageProofs ---------------------------
(***************************************************************************)
(* That a traversal of a feed is in strict order and complete, for any     *)
(* number of posts, feeds and clients and any page size.                   *)
(***************************************************************************)
EXTENDS FeedPage, TLAPS

(* The order of the query is a strict total order. *)
LEMMA LessOrder ==
    /\ \A k, l \in Key : Less(k, l) => ~Less(l, k)
    /\ \A k, l \in Key : k = l \/ Less(k, l) \/ Less(l, k)
    /\ \A k, l, m \in Key : Less(k, l) /\ Less(l, m) => Less(k, m)
<1>1. \A k \in Key : /\ k = <<k[1], k[2]>>
                     /\ k[1] \in Int /\ k[2] \in Int
  BY FeedPageAssumption DEF Key
<1> QED BY <1>1 DEF Less

(* What is at or above the cursor is above all that is below it. *)
LEMMA AboveBelow ==
    ASSUME NEW k \in Key, NEW l \in Key, NEW c \in Key,
           ~Less(k, c), Less(l, c)
    PROVE  Less(l, k)
BY LessOrder

(* A page never has to hold a negative number of rows. *)
LEMMA PageSizeType == \A limit \in 0..LimitCap + 1 : PageSize(limit) \in Nat
BY FeedPageAssumption DEF PageSize, Min2

(* The rows a query selects are items. *)
LEMMA SelectedType ==
    ASSUME TypeOK, NEW feed, NEW cur
    PROVE  Selected(feed, cur) \subseteq Item
<1> SUFFICES ASSUME NEW u \in Rows(feed)
             PROVE  [uri |-> u, key |-> KeyOf(posts[u])] \in Item
  BY DEF Selected
<1>1. u \in Uri /\ posts[u] \in Row
  BY DEF Rows, TypeOK
<1>2. KeyOf(posts[u]) \in Key
  BY <1>1 DEF KeyOf, Row, Key
<1> QED BY <1>1, <1>2 DEF Item

(* What an item of a query has to do with its cursor. *)
LEMMA SelectedBelow ==
    ASSUME NEW feed, NEW cur, NEW x \in Selected(feed, cur)
    PROVE  Below(x.key, cur)
BY DEF Selected

(* The invariant: the parts of PageInv with the types they need. *)
Inv == TypeOK /\ PageInv

(***************************************************************************)
(* One request of client c, whose first row and cursor are as the query    *)
(* and NextCursor make them.  kept is the set of posts it is owed: they    *)
(* have rows in the feed, and each is accounted for or below the cursor.   *)
(***************************************************************************)
LEMMA Request ==
    ASSUME Inv, NEW c \in Client, NEW feed \in Feed,
           NEW limit \in 0..LimitCap + 1,
           cursor[c] # Over, GetFeedPage(c, feed, limit),
           NEW kept \in SUBSET Rows(feed),
           \A u \in kept : \/ [uri |-> u, key |-> KeyOf(posts[u])] \in Shown(c)
                           \/ Tied(c, KeyOf(posts[u]))
                           \/ Below(KeyOf(posts[u]), cursor[c])
    PROVE  /\ page' \in [Client -> SUBSET Item]
           /\ before' \in [Client -> SUBSET Item]
           /\ cursor' \in [Client -> Key \cup {Over, First}]
           /\ cursor'[c] # First
           /\ cursor'[c] \in Key => \A x \in Shown(c)' : ~Less(x.key, cursor'[c])
           /\ \A x \in before'[c], y \in page'[c] : Less(y.key, x.key)
           /\ \A u \in kept :
                  \/ [uri |-> u, key |-> KeyOf(posts[u])] \in Shown(c)'
                  \/ \E x \in Shown(c)' : x.key = KeyOf(posts[u])
                  \/ cursor'[c] \in Key /\ Less(KeyOf(posts[u]), cursor'[c])
           /\ \A d \in Client \ {c} : /\ cursor'[d] = cursor[d]
                                      /\ page'[d] = page[d]
                                      /\ before'[d] = before[d]
<1> DEFINE n == PageSize(limit)
           items == Selected(feed, cursor[c])
<1>1. PICK S \in SUBSET items :
          /\ IsPage(S, items, n)
          /\ page' = [page EXCEPT ![c] = S]
          /\ before' = [before EXCEPT ![c] = @ \cup page[c]]
          /\ \E next \in NextCursor(S, n, cursor[c]) :
                 cursor' = [cursor EXCEPT ![c] = next]
  BY DEF GetFeedPage
<1>2. PICK next \in NextCursor(S, n, cursor[c]) :
          cursor' = [cursor EXCEPT ![c] = next]
  BY <1>1
<1>3. S \subseteq Item /\ \A x \in S : x.key \in Key
  BY SelectedType DEF Inv, Item
<1>4. \A x \in Shown(c) : x \in Item /\ x.key \in Key
  BY DEF Inv, TypeOK, Shown, Item
<1>5. \/ next = Over /\ Cardinality(S) < n
      \/ /\ next \in Key
         /\ \E x \in S : x.key = next
         /\ \A z \in S : ~Less(z.key, next)
  BY <1>2, <1>3 DEF NextCursor
<1>6. /\ page' \in [Client -> SUBSET Item]
      /\ before' \in [Client -> SUBSET Item]
      /\ cursor' \in [Client -> Key \cup {Over, First}]
  BY <1>1, <1>2, <1>3, <1>5 DEF Inv, TypeOK
<1>7. /\ page'[c] = S
      /\ before'[c] = Shown(c)
      /\ cursor'[c] = next
      /\ Shown(c)' = Shown(c) \cup S
  BY <1>1, <1>2 DEF Inv, TypeOK, Shown
<1>8. next # First
  BY <1>5, FeedPageAssumption
<1>9. \A x \in Shown(c), y \in S : Less(y.key, x.key)
  <2> SUFFICES ASSUME NEW x \in Shown(c), NEW y \in S
               PROVE  Less(y.key, x.key)
    OBVIOUS
  <2>1. cursor[c] # First
    BY DEF Inv, PageInv, CursorIsLast
  <2>2. cursor[c] \in Key
    BY <2>1 DEF Inv, TypeOK
  <2>3. ~Less(x.key, cursor[c])
    BY <2>2 DEF Inv, PageInv, CursorIsLast
  <2>4. Less(y.key, cursor[c])
    BY <2>1, SelectedBelow DEF Below
  <2> QED BY <1>3, <1>4, <2>2, <2>3, <2>4, AboveBelow
<1>10. next \in Key => \A x \in Shown(c) \cup S : ~Less(x.key, next)
  <2> SUFFICES ASSUME next \in Key, NEW x \in Shown(c)
               PROVE  ~Less(x.key, next)
    BY <1>5, FeedPageAssumption
  <2>1. PICK y \in S : y.key = next
    BY <1>5, FeedPageAssumption
  <2>2. Less(next, x.key)
    BY <1>9, <2>1
  <2> QED BY <1>4, <2>2, LessOrder
<1>11. ASSUME NEW u \in kept
       PROVE  \/ [uri |-> u, key |-> KeyOf(posts[u])] \in Shown(c)'
              \/ \E x \in Shown(c)' : x.key = KeyOf(posts[u])
              \/ next \in Key /\ Less(KeyOf(posts[u]), next)
  <2> DEFINE k == KeyOf(posts[u])
             item == [uri |-> u, key |-> k]
  <2>1. CASE item \in Shown(c) \/ Tied(c, k)
    BY <1>7, <2>1 DEF Tied
  <2>2. CASE Below(k, cursor[c])
    <3>1. item \in items
      BY <2>2 DEF Selected
    <3>2. CASE item \in S
      BY <1>7, <3>2
    <3>3. CASE item \notin S
      <4>1. S # items /\ Cardinality(S) = n
        BY <1>1, <3>1, <3>3 DEF IsPage
      <4>2. n \in Nat
        BY PageSizeType
      <4>3. PICK x \in S : x.key = next /\ next \in Key
        BY <1>5, <4>1, <4>2
      <4>4. ~Less(next, k)
        BY <1>1, <3>1, <3>3, <4>3 DEF IsPage
      <4>5. k \in Key
        BY <3>1, SelectedType DEF Inv, Item
      <4>6. CASE k = next
        BY <1>7, <4>3, <4>6
      <4>7. CASE Less(k, next)
        BY <4>3, <4>7
      <4> QED BY <4>3, <4>4, <4>5, <4>6, <4>7, LessOrder
    <3> QED BY <3>2, <3>3
  <2> QED BY <2>1, <2>2
<1>12. \A d \in Client \ {c} : /\ cursor'[d] = cursor[d]
                               /\ page'[d] = page[d]
                               /\ before'[d] = before[d]
  BY <1>1, <1>2 DEF Inv, TypeOK
<1> QED BY <1>6, <1>7, <1>8, <1>9, <1>10, <1>11, <1>12

(* The invariant holds initially. *)
LEMMA InitInv == Init => Inv
BY FeedPageAssumption, SMT
   DEF Init, Inv, TypeOK, PageInv, CursorIsLast, SteadyRows, ShownSoFar,
       Descending, Shown, Key

(* A request keeps the invariant, whatever else begins with it. *)
LEMMA RequestInv ==
    ASSUME Inv, NEW c \in Client, NEW feed \in Feed,
           NEW limit \in 0..LimitCap + 1,
           cursor[c] # Over, GetFeedPage(c, feed, limit),
           NEW kept \in SUBSET Rows(feed),
           \A u \in kept : \/ [uri |-> u, key |-> KeyOf(posts[u])] \in Shown(c)
                           \/ Tied(c, KeyOf(posts[u]))
                           \/ Below(KeyOf(posts[u]), cursor[c]),
           reading' = [reading EXCEPT ![c] = feed],
           steady' = [steady EXCEPT ![c] = kept],
           UNCHANGED table
    PROVE  Inv'
<1>1. /\ page' \in [Client -> SUBSET Item]
      /\ before' \in [Client -> SUBSET Item]
      /\ cursor' \in [Client -> Key \cup {Over, First}]
      /\ cursor'[c] # First
      /\ cursor'[c] \in Key => \A x \in Shown(c)' : ~Less(x.key, cursor'[c])
      /\ \A x \in before'[c], y \in page'[c] : Less(y.key, x.key)
      /\ \A u \in kept :
             \/ [uri |-> u, key |-> KeyOf(posts[u])] \in Shown(c)'
             \/ \E x \in Shown(c)' : x.key = KeyOf(posts[u])
             \/ cursor'[c] \in Key /\ Less(KeyOf(posts[u]), cursor'[c])
      /\ \A d \in Client \ {c} : /\ cursor'[d] = cursor[d]
                                 /\ page'[d] = page[d]
                                 /\ before'[d] = before[d]
  BY Request
<1>2. posts' = posts /\ clock' = clock
  BY DEF table
<1>3. /\ reading' \in [Client -> Feed \cup {Unread}]
      /\ steady' \in [Client -> SUBSET Uri]
      /\ reading'[c] = feed /\ feed # Unread
      /\ steady'[c] = kept
      /\ \A d \in Client \ {c} : reading'[d] = reading[d] /\ steady'[d] = steady[d]
  BY FeedPageAssumption DEF Inv, TypeOK, Rows
<1>4. \A d \in Client \ {c} : Shown(d)' = Shown(d)
  BY <1>1 DEF Shown
<1>5. TypeOK'
  BY <1>1, <1>2, <1>3 DEF Inv, TypeOK
<1>6. CursorIsLast'
  <2> SUFFICES ASSUME NEW d \in Client
               PROVE  /\ reading'[d] = Unread => cursor'[d] = First
                      /\ cursor'[d] = First =>
                             reading'[d] = Unread /\ Shown(d)' = {}
                      /\ cursor'[d] \in Key =>
                             \A x \in Shown(d)' : ~Less(x.key, cursor'[d])
    BY DEF CursorIsLast
  <2>1. CASE d = c
    BY <1>1, <1>3, <2>1
  <2>2. CASE d # c
    BY <1>1, <1>3, <1>4, <2>2 DEF Inv, PageInv, CursorIsLast
  <2> QED BY <2>1, <2>2
<1>7. SteadyRows'
  BY <1>2, <1>3 DEF Inv, PageInv, SteadyRows, Rows
<1>8. ShownSoFar'
  <2> SUFFICES ASSUME NEW d \in Client, NEW u \in steady'[d]
               PROVE  \/ [uri |-> u, key |-> KeyOf(posts[u])] \in Shown(d)'
                      \/ \E x \in Shown(d)' : x.key = KeyOf(posts[u])
                      \/ cursor'[d] \in Key /\ Less(KeyOf(posts[u]), cursor'[d])
    BY <1>2 DEF ShownSoFar, Tied, KeyOf
  <2>1. CASE d = c
    BY <1>1, <1>3, <2>1
  <2>2. CASE d # c
    BY <1>1, <1>3, <1>4, <2>2 DEF Inv, PageInv, ShownSoFar, Tied
  <2> QED BY <2>1, <2>2
<1>9. Descending'
  BY <1>1 DEF Inv, PageInv, Descending
<1> QED BY <1>5, <1>6, <1>7, <1>8, <1>9 DEF Inv, PageInv

(* The first request of a client. *)
LEMMA BeginInv ==
    ASSUME Inv, NEW c \in Client, NEW feed \in Feed,
           NEW limit \in 0..LimitCap + 1, Begin(c, feed, limit)
    PROVE  Inv'
<1>1. cursor[c] = First /\ cursor[c] # Over
  BY FeedPageAssumption DEF Begin, Inv, PageInv, CursorIsLast
<1>2. \A u \in Rows(feed) : Below(KeyOf(posts[u]), cursor[c])
  BY <1>1 DEF Below
<1> QED BY <1>1, <1>2, RequestInv DEF Begin

(* The next request of a client. *)
LEMMA ContinueInv ==
    ASSUME Inv, NEW c \in Client, NEW limit \in 0..LimitCap + 1,
           Continue(c, limit)
    PROVE  Inv'
<1>1. /\ reading[c] \in Feed /\ cursor[c] # Over
      /\ GetFeedPage(c, reading[c], limit)
      /\ UNCHANGED table
  BY DEF Continue, Inv, TypeOK
<1>2. /\ reading' = [reading EXCEPT ![c] = reading[c]]
      /\ steady' = [steady EXCEPT ![c] = steady[c]]
  BY DEF Continue, Inv, TypeOK
<1>3. steady[c] \in SUBSET Rows(reading[c])
  BY DEF Inv, TypeOK, PageInv, SteadyRows, Rows
<1>4. \A u \in steady[c] :
          \/ [uri |-> u, key |-> KeyOf(posts[u])] \in Shown(c)
          \/ Tied(c, KeyOf(posts[u]))
          \/ Below(KeyOf(posts[u]), cursor[c])
  BY DEF Inv, PageInv, ShownSoFar, Below
<1> QED BY <1>1, <1>2, <1>3, <1>4, RequestInv

(***************************************************************************)
(* The writers keep it: none of them changes the row of a post that stays. *)
(***************************************************************************)
LEMMA TableInv ==
    ASSUME Inv,
           posts' \in [Uri -> Row \cup {NoRow}], clock' \in 0..MaxClock,
           UNCHANGED <<cursor, reading, page, before>>,
           steady' \in [Client -> SUBSET Uri],
           \A c \in Client : steady'[c] \subseteq steady[c],
           \A c \in Client : \A u \in steady'[c] : posts'[u] = posts[u]
    PROVE  Inv'
<1>1. TypeOK'
  BY DEF Inv, TypeOK
<1>2. CursorIsLast' /\ Descending'
  BY DEF Inv, PageInv, CursorIsLast, Descending, Shown
<1>3. SteadyRows'
  BY DEF Inv, PageInv, SteadyRows
<1>4. ShownSoFar'
  BY DEF Inv, PageInv, ShownSoFar, Shown, Tied, KeyOf
<1> QED BY <1>1, <1>2, <1>3, <1>4 DEF Inv, PageInv

(* A row is only written where there is none. *)
LEMMA InsertInv ==
    ASSUME Inv, NEW u \in Uri, NEW row \in Row, Insert(u, row)
    PROVE  Inv'
<1>1. posts' \in [Uri -> Row \cup {NoRow}]
  BY DEF Insert, InsertPost, Inv, TypeOK
<1>2. \A v \in Uri : posts[v] # NoRow => posts'[v] = posts[v]
  BY DEF Insert, InsertPost, Inv, TypeOK
<1>3. \A c \in Client : \A v \in steady[c] : v \in Uri /\ posts[v] # NoRow
  BY DEF Inv, TypeOK, PageInv, SteadyRows
<1>4. /\ UNCHANGED <<cursor, reading, page, before>>
      /\ steady' = steady /\ clock' = clock
  BY DEF Insert, client
<1>5. steady' \in [Client -> SUBSET Uri] /\ clock' \in 0..MaxClock
  BY <1>4 DEF Inv, TypeOK
<1> QED BY <1>1, <1>2, <1>3, <1>4, <1>5, TableInv

(* A post that is deleted was not there all the time. *)
LEMMA DeletePostInv ==
    ASSUME Inv, NEW u \in Uri, DeletePost(u)
    PROVE  Inv'
<1>1. /\ posts' = [v \in Uri |-> IF v \in {u} THEN NoRow ELSE posts[v]]
      /\ UNCHANGED <<cursor, reading, page, before>>
      /\ steady' = [c \in Client |-> steady[c] \ {u}]
      /\ clock' = clock
  BY DEF DeletePost, DeletePosts, Inv, TypeOK
<1>2. /\ posts' \in [Uri -> Row \cup {NoRow}]
      /\ steady' \in [Client -> SUBSET Uri]
      /\ clock' \in 0..MaxClock
      /\ \A c \in Client : steady'[c] \subseteq steady[c]
      /\ \A c \in Client : \A v \in steady'[c] : posts'[v] = posts[v]
  BY <1>1 DEF Inv, TypeOK
<1> QED BY <1>1, <1>2, TableInv

(* Time passes. *)
LEMMA TickInv == Inv /\ Tick => Inv'
<1> SUFFICES ASSUME Inv, Tick PROVE Inv'
  OBVIOUS
<1>1. /\ posts' = posts /\ clock' \in 0..MaxClock
      /\ UNCHANGED <<cursor, reading, page, before, steady>>
  BY FeedPageAssumption DEF Tick, client, Inv, TypeOK
<1> QED BY <1>1, TableInv DEF Inv, TypeOK

(* Every step keeps the invariant. *)
LEMMA StepInv == Inv /\ [Next]_vars => Inv'
<1> SUFFICES ASSUME Inv, [Next]_vars PROVE Inv'
  OBVIOUS
<1>1. CASE \E c \in Client, limit \in 0..LimitCap + 1, feed \in Feed :
               Begin(c, feed, limit)
  BY <1>1, BeginInv
<1>2. CASE \E c \in Client, limit \in 0..LimitCap + 1 : Continue(c, limit)
  BY <1>2, ContinueInv
<1>3. CASE Tick
  BY <1>3, TickInv
<1>4. CASE \E u \in Uri, row \in Row : Insert(u, row)
  BY <1>4, InsertInv
<1>5. CASE \E u \in Uri : DeletePost(u)
  BY <1>5, DeletePostInv
<1>6. CASE UNCHANGED vars
  BY <1>6, TableInv DEF vars, table, client, Inv, TypeOK
<1> QED BY <1>1, <1>2, <1>3, <1>4, <1>5, <1>6 DEF Next

(* Inv is an invariant of the specification. *)
THEOREM Invariance == Spec => []Inv
BY StepInv, InitInv, PTL DEF Spec

(***************************************************************************)
(* The pages a client gets are in strict order, whatever ingestion and     *)
(* deletions do in between: no row is shown twice.                         *)
(***************************************************************************)
THEOREM DescendingHolds == Spec => []Descending
<1>1. Inv => Descending
  BY DEF Inv, PageInv
<1> QED BY <1>1, Invariance, PTL

(***************************************************************************)
(* A traversal that has come to its end has shown every post that was      *)
(* there all the time, but for those that share their place in the order   *)
(* with one it has shown.                                                  *)
(***************************************************************************)
THEOREM CompleteHolds == Spec => []Complete
<1>1. Inv => Complete
  BY FeedPageAssumption DEF Inv, PageInv, ShownSoFar, Complete
<1> QED BY <1>1, Invariance, PTL
=============================================================================
