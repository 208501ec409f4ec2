------------------------------ MODULE Network ------------------------------
(***************************************************************************)
(* What the relay carries: commits of repos, each a batch of operations on *)
(* records.  A text is the set of words the word-boundary regexps of the   *)
(* filters can find in it: a hyphenated compound is one word, different    *)
(* from its parts.  Lower is strings.ToLower on words and language tags.   *)
(***************************************************************************)
EXTENDS Naturals, Sequences, FiniteSets

CONSTANTS
    Repo,       \* the DIDs of the accounts
    Rkey,       \* record keys
    Cid,        \* content hashes of records
    Word,       \* words of texts and of configurations, in any letter case
    Lang,       \* language tags, in any letter case
    Lower,      \* strings.ToLower
    NoPost,     \* a record that cannot be read or is not a post
    Commit      \* the commits the relay may carry

(* The part of an app.bsky.feed.post record the filters look at. *)
Post == [words : SUBSET Word, langs : SUBSET Lang, embed : BOOLEAN]

(* isPost says whether the path begins with "app.bsky.feed.post/". *)
Op == [action : {"create", "update", "delete"}, isPost : BOOLEAN,
       rkey : Rkey, cid : Cid, post : Post \cup {NoPost}]

(* readable says whether the blocks of the commit parse as a CAR. *)
CommitRecord ==
    [repo : Repo, tooBig : BOOLEAN, readable : BOOLEAN, ops : Seq(Op)]

(***************************************************************************)
(* ToLower keeps words words and tags tags and is idempotent.  A commit is *)
(* the difference of two versions of a repo: it names a record once.       *)
(***************************************************************************)
ASSUME NetworkAssumption ==
    /\ Lower \in [Word \cup Lang -> Word \cup Lang]
    /\ \A w \in Word : Lower[w] \in Word
    /\ \A l \in Lang : Lower[l] \in Lang
    /\ \A x \in Word \cup Lang : Lower[Lower[x]] = Lower[x]
    /\ Commit \subseteq CommitRecord
    /\ \A c \in Commit : \A i, j \in 1..Len(c.ops) :
           c.ops[i].isPost = c.ops[j].isPost /\ c.ops[i].rkey = c.ops[j].rkey
               => i = j

(* at://repo/app.bsky.feed.post/rkey *)
Uri == Repo \X Rkey
BuildURI(repo, rkey) == <<repo, rkey>>

(* Commits ProcessEvent looks into. *)
Intact(c) == ~c.tooBig /\ c.readable

(* Operations of a log of commits, by place: <<commit, operation>>. *)
Places(log) ==
    UNION {{<<s, i>> : i \in 1..Len(log[s].ops)} : s \in 1..Len(log)}
OpAt(log, p) == log[p[1]].ops[p[2]]
Before(p, q) == p[1] < q[1] \/ (p[1] = q[1] /\ p[2] < q[2])

(* Those on one post. *)
PlacesOf(log, uri) ==
    {p \in Places(log) : /\ OpAt(log, p).isPost
                         /\ uri = BuildURI(log[p[1]].repo, OpAt(log, p).rkey)}

(* The post exists upstream: its last creation was not undone. *)
Exists(log, uri) ==
    \E p \in PlacesOf(log, uri) :
        /\ OpAt(log, p).action = "create"
        /\ \A q \in PlacesOf(log, uri) :
               OpAt(log, q).action = "delete" => Before(q, p)

(* A repo creates what it lacks, updates and deletes what it has. *)
Possible(log, c) ==
    \A i \in 1..Len(c.ops) : c.ops[i].isPost =>
        (c.ops[i].action = "create" <=>
            ~Exists(log, BuildURI(c.repo, c.ops[i].rkey)))
=============================================================================
