----------------------------- MODULE FeedStore -----------------------------
(***************************************************************************)
(* The two tables ingestion writes, as feed.Service and the SQL behind it  *)
(* change them.  The post table is a function from URIs to rows: the URI   *)
(* is its primary key, so there is one row per post and not one per post   *)
(* and feed.                                                               *)
(***************************************************************************)
CONSTANT NoRow      \* no row under this primary key

(* Mutant: ON CONFLICT DO UPDATE. *)
InsertOverwrites(posts, uri, row) == [posts EXCEPT ![uri] = row]

(* INSERT ... ON CONFLICT DO NOTHING: the first row of a URI stays. *)
InsertPost(posts, uri, row) ==
    IF posts[uri] = NoRow THEN [posts EXCEPT ![uri] = row] ELSE posts

(* DELETE FROM post WHERE uri = ANY(...), whatever the feed. *)
DeletePosts(posts, uris) ==
    [uri \in DOMAIN posts |-> IF uri \in uris THEN NoRow ELSE posts[uri]]

(* ON CONFLICT DO UPDATE SET cursor = excluded.cursor: no maximum taken. *)
UpsertCursor(cursor, seq) == seq

(* GetCursor reads 0 where the service has no row yet. *)
NoCursor == 0
=============================================================================
