----------------------------- MODULE Processor -----------------------------
(***************************************************************************)
(* subscription.Processor: ProcessEvent walks the operations of a commit   *)
(* and, for each, the pipelines, with one database call per step.  Several *)
(* executors (goroutines) run it at once on the same post table.           *)
(***************************************************************************)
EXTENDS Pipeline, FeedStore

CONSTANT Configs    \* the enabled pipelines of the configuration, in order

ASSUME ProcessorAssumption ==
    /\ Configs \in Seq(Config)
    /\ Configs # <<>>

VARIABLES
    posts,      \* the post table: URI -> row or NoRow
    at,         \* per executor, the operation and the pipeline it is at
    failed      \* commits of which some database call ever failed

procVars == <<posts, at, failed>>

Row == [feed : {Configs[i].name : i \in DOMAIN Configs}, cid : Cid]
ASSUME RowAssumption == NoRow \notin Row

Pipelines == [i \in DOMAIN Configs |-> NewPipeline(Configs[i])]
Start == [op |-> 1, pipe |-> 1]

ProcessorTypeOK(Executor) ==
    /\ posts \in [Uri -> Row \cup {NoRow}]
    /\ at \in [Executor -> [op : Nat \ {0}, pipe : 1..Len(Configs)]]
    /\ failed \subseteq Nat

ProcessorInit(Executor) ==
    /\ posts = [uri \in Uri |-> NoRow]
    /\ at = [x \in Executor |-> Start]
    /\ failed = {}

(* ProcessEvent returns: a commit it cannot use, or no operation left. *)
Processed(x, c) == ~Intact(c) \/ at[x].op > Len(c.ops)

NextOp(x) == at' = [at EXCEPT ![x] = [op |-> @.op + 1, pipe |-> 1]]

(* Both loops over the pipelines go on after an error, which is logged. *)
NextPipeline(x) ==
    IF at[x].pipe < Len(Configs)
    THEN at' = [at EXCEPT ![x].pipe = @ + 1]
    ELSE NextOp(x)

(* Records of other types, updates, and posts that cannot be read. *)
Skipped(op) ==
    \/ ~op.isPost
    \/ op.action = "update"
    \/ op.action = "create" /\ op.post = NoPost

SkipOp(x, c) ==
    /\ ~Processed(x, c)
    /\ Skipped(c.ops[at[x].op])
    /\ NextOp(x)
    /\ UNCHANGED <<posts, failed>>

(* A deletion is carried out once per pipeline, whose stores are the same. *)
HandleDelete(x, s, c, ok) ==
    LET op == c.ops[at[x].op]
    IN  /\ ~Processed(x, c)
        /\ ~Skipped(op) /\ op.action = "delete"
        /\ posts' = IF ok THEN DeletePosts(posts, {BuildURI(c.repo, op.rkey)})
                          ELSE posts
        /\ failed' = IF ok THEN failed ELSE failed \cup {s}
        /\ NextPipeline(x)

(* A creation is offered to each pipeline, and inserted for those it meets. *)
HandleCreate(x, s, c, ok) ==
    LET op == c.ops[at[x].op]
        p  == Pipelines[at[x].pipe]
    IN  /\ ~Processed(x, c)
        /\ ~Skipped(op) /\ op.action = "create"
        /\ IF ShouldInsert(p, c.repo, op.post)
           THEN /\ posts' = IF ok THEN InsertPost(posts,
                                                  BuildURI(c.repo, op.rkey),
                                                  [feed |-> p.name, cid |-> op.cid])
                                  ELSE posts
                /\ failed' = IF ok THEN failed ELSE failed \cup {s}
           ELSE ok /\ UNCHANGED <<posts, failed>>
        /\ NextPipeline(x)

(* One step of ProcessEvent by executor x on the commit c numbered s. *)
ProcessStep(x, s, c, ok) ==
    \/ ok /\ SkipOp(x, c)
    \/ HandleDelete(x, s, c, ok)
    \/ HandleCreate(x, s, c, ok)

-----------------------------------------------------------------------------
(* What the post table should hold. *)

(* The feeds a post is selected for, as the places of their pipelines. *)
Selecting(actor, post) ==
    {i \in DOMAIN Configs : ShouldInsert(Pipelines[i], actor, post)}

(* Operations ProcessEvent acts on, of the commits past a place in the log. *)
Effective(log, uri, origin) ==
    {p \in PlacesOf(log, uri) :
        /\ p[1] > origin
        /\ Intact(log[p[1]])
        /\ ~Skipped(OpAt(log, p))
        /\ OpAt(log, p).action = "create" =>
               Selecting(log[p[1]].repo, OpAt(log, p).post) # {}}

Deletions(log, uri, origin) ==
    {p \in Effective(log, uri, origin) : OpAt(log, p).action = "delete"}

(* The creations no deletion undoes. *)
Kept(log, uri, origin) ==
    {p \in Effective(log, uri, origin) :
        /\ OpAt(log, p).action = "create"
        /\ \A d \in Deletions(log, uri, origin) : Before(d, p)}

IsFirst(p, S) == p \in S /\ \A q \in S : q = p \/ Before(p, q)

(* The row of a creation that the pipeline i selects. *)
RowOf(log, p, i) == [feed |-> Configs[i].name, cid |-> OpAt(log, p).cid]

SelectingAt(log, p) == Selecting(log[p[1]].repo, OpAt(log, p).post)

IsLeast(i, S) == i \in S /\ \A j \in S : i <= j

(***************************************************************************)
(* The row the log calls for: of the first selected creation after the     *)
(* last deletion, in the feed of the first pipeline that selects it.       *)
(***************************************************************************)
Expected(log, uri, origin) ==
    LET kept == Kept(log, uri, origin)
        p == CHOOSE q \in kept : IsFirst(q, kept)
        i == CHOOSE j \in SelectingAt(log, p) : IsLeast(j, SelectingAt(log, p))
    IN  IF kept = {} THEN NoRow ELSE RowOf(log, p, i)

(***************************************************************************)
(* A bad commit, one that was missed or of which a database call failed,   *)
(* names the post and no later deletion was carried out.  Delivering such  *)
(* a commit again need not repair it: if the insertion into the first feed *)
(* failed and that into the second did not, the row stays in the second.   *)
(***************************************************************************)
SpoiltBy(log, uri, origin, bad) ==
    \E p \in PlacesOf(log, uri) :
        /\ p[1] \in bad
        /\ \A d \in Deletions(log, uri, origin) : Before(p, d) => d[1] \in bad

(***************************************************************************)
(* What keeps a row on the way to what the log calls for, while the places *)
(* left are still to be carried out: it is spoilt, a deletion will clear   *)
(* it, it is the row called for, or all that could make one is left.       *)
(***************************************************************************)
OnTrack(row, log, uri, origin, left, bad) ==
    \/ SpoiltBy(log, uri, origin, bad)
    \/ Deletions(log, uri, origin) \cap left # {}
    \/ \E p \in Kept(log, uri, origin) : \E i \in SelectingAt(log, p) :
           /\ IsFirst(p, Kept(log, uri, origin))
           /\ IsLeast(i, SelectingAt(log, p))
           /\ row = RowOf(log, p, i)
    \/ row = NoRow /\ Kept(log, uri, origin) \subseteq left

(* The executor that is here in the commit of place p is done with p. *)
Passed(here, log, p) ==
    \/ p[2] < here.op
    \/ /\ p[2] = here.op
       /\ OpAt(log, p).action = "create" /\ ~Skipped(OpAt(log, p))
       /\ \E i \in SelectingAt(log, p) : i < here.pipe
=============================================================================
