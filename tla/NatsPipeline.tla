---------------------------- MODULE NatsPipeline ----------------------------
(***************************************************************************)
(* The distributed deployment: a publisher reads the firehose and puts     *)
(* each commit on a NATS subject; workers, members of one queue group,     *)
(* filter the commits and write the feeds' tables.  Publisher and workers  *)
(* move the same cursor.                                                   *)
(*                                                                         *)
(* The broker is core NATS: it keeps no message, and sends each to one     *)
(* member of the group that is subscribed at that moment.  Its confirming  *)
(* a message to the publisher says no more than that: the message may      *)
(* still be on its way to the worker, and go with its connection.          *)
(***************************************************************************)
EXTENDS Firehose, Processor

CONSTANTS
    Consumer,       \* the worker.Worker instances
    OutboxLimit,    \* BOUND on what the publisher's client buffers
    WireLimit,      \* BOUND on what is on its way from the broker to a worker
    InboxLimit,     \* messages a worker's client buffers
    MaxTrouble      \* BOUND on the failures of a behaviour, of any kind

ASSUME NatsAssumption ==
    /\ IsFiniteSet(Consumer)
    /\ OutboxLimit \in Nat \ {0}
    /\ WireLimit \in Nat \ {0}
    /\ InboxLimit \in Nat \ {0}
    /\ MaxTrouble \in Nat

VARIABLES
    cursor,         \* the service's row of sub_state
    stage,          \* per scheduler goroutine, how far handleCommit is
    outbox,         \* what the publisher's client has buffered, oldest first
    running,        \* workers whose Run is past QueueSubscribe
    interest,       \* workers the broker knows as members of the group
    wire,           \* per worker, what the broker sent or holds for its client
    inbox,          \* per worker, messages the client holds for the callback
    job,            \* per worker, the commit of the callback, or Nothing
    \* What no program keeps.
    consumed,       \* commits some callback handled to the end
    hit,            \* commits of which a mishap cost a copy
    reconnected,    \* whether the publisher connected again to the relay
    trouble         \* failures so far

publisher == <<fhVars, stage, outbox>>
tables == <<procVars, cursor>>
members == <<running, interest>>
workers == <<members, wire, inbox, job, consumed>>
mishaps == <<hit, reconnected>>
accidents == <<mishaps, trouble>>
vars == <<publisher, tables, workers, accidents>>

InOutbox == {outbox[i] : i \in 1..Len(outbox)}
InWire(c) == {wire[c][i] : i \in 1..Len(wire[c])}
InInbox(c) == {inbox[c][i] : i \in 1..Len(inbox[c])}

TypeOK ==
    /\ FirehoseTypeOK
    /\ ProcessorTypeOK(Consumer)
    /\ cursor \in 0..Len(log)
    /\ stage \in [Worker -> {"new", "published", "flushed"}]
    /\ outbox \in Seq(1..Len(log))
    /\ running \subseteq Consumer
    /\ interest \subseteq running
    /\ wire \in [Consumer -> Seq(1..Len(log))]
    /\ inbox \in [Consumer -> Seq(1..Len(log))]
    /\ job \in [Consumer -> 0..Len(log)]
    /\ consumed \subseteq 1..Len(log)
    /\ hit \subseteq 1..Len(log)
    /\ reconnected \in BOOLEAN
    /\ trouble \in 0..MaxTrouble

Init ==
    /\ FirehoseInit
    /\ ProcessorInit(Consumer)
    /\ cursor = NoCursor
    /\ stage = [w \in Worker |-> "new"]
    /\ outbox = <<>>
    /\ running = {} /\ interest = {}
    /\ wire = [c \in Consumer |-> <<>>]
    /\ inbox = [c \in Consumer |-> <<>>]
    /\ job = [c \in Consumer |-> Nothing]
    /\ consumed = {}
    /\ hit = {} /\ reconnected = FALSE
    /\ trouble = 0

(* One more failure, of those a behaviour may have. *)
Trouble == trouble < MaxTrouble /\ trouble' = trouble + 1

(* A call that may fail. *)
Call(ok) == IF ok THEN UNCHANGED trouble ELSE Trouble

(* A mishap costs a copy of each of these commits. *)
Hit(S) == hit' = hit \cup S /\ UNCHANGED reconnected

-----------------------------------------------------------------------------
(* The publisher's connection to the firehose. *)

others == <<stage, outbox, tables, workers>>

Relay == \E c \in Commit : Emit(c) /\ UNCHANGED <<others, accidents>>

(***************************************************************************)
(* subscribe: GetCursor, then Run.  A worker that moves the cursor between *)
(* the two might as well move it after: only the next subscribe reads it.  *)
(***************************************************************************)
Subscribe ==
    /\ Connect(cursor)
    /\ reconnected' = (origin # Never)
    /\ UNCHANGED <<others, hit, trouble>>

SubscribeFails == ConnectFails /\ Trouble /\ UNCHANGED <<others, mishaps>>
Reconnect == BackoffOver /\ UNCHANGED <<others, accidents>>
ReadCommit == Read /\ UNCHANGED <<others, accidents>>
Disconnect == Drop /\ Trouble /\ UNCHANGED <<others, mishaps>>
Shutdown == Drained /\ UNCHANGED <<others, accidents>>
StartCommit(w) == Dispatch(w) /\ UNCHANGED <<others, accidents>>

(* The publisher's process ends, with what its NATS client has buffered. *)
PublisherCrash ==
    /\ Restart
    /\ stage' = [w \in Worker |-> "new"]
    /\ outbox' = <<>>
    /\ Trouble
    /\ UNCHANGED <<tables, workers, mishaps>>

-----------------------------------------------------------------------------
(* handleCommit of the publisher. *)

(* It returns, with or without an error, and the goroutine is free. *)
Return(w) ==
    /\ Finish(w)
    /\ stage' = [stage EXCEPT ![w] = "new"]

SaveCursor(s, ok) ==
    /\ cursor' = IF ok THEN UpsertCursor(cursor, s) ELSE cursor
    /\ Call(ok)

(* A commit that is too big is not published, only counted. *)
SkipTooBig(w, ok) ==
    /\ task[w] # Nothing /\ log[task[w]].tooBig
    /\ SaveCursor(task[w], ok)
    /\ Return(w)
    /\ UNCHANGED <<outbox, procVars, workers, mishaps>>

Publish(w) ==
    /\ task[w] # Nothing /\ ~log[task[w]].tooBig
    /\ stage[w] = "new" /\ Len(outbox) < OutboxLimit
    /\ stage' = [stage EXCEPT ![w] = "published"]
    /\ outbox' = Append(outbox, task[w])
    /\ UNCHANGED <<fhVars, tables, workers, accidents>>

(***************************************************************************)
(* The publisher's client loses the broker and finds it again: what it had *)
(* sent and the broker not read is gone.  A handler between Publish and    *)
(* FlushTimeout does not notice.                                           *)
(***************************************************************************)
LoseOutbox ==
    /\ outbox # <<>>
    /\ outbox' = <<>>
    /\ Hit(InOutbox) /\ Trouble
    /\ UNCHANGED <<fhVars, stage, tables, workers>>

(* MarshalCBOR or Publish fails; nobody tries again. *)
PublishFails(w) ==
    /\ task[w] # Nothing /\ ~log[task[w]].tooBig
    /\ stage[w] = "new"
    /\ Return(w)
    /\ Hit({task[w]}) /\ Trouble
    /\ UNCHANGED <<outbox, tables, workers>>

(* Mutant: the publisher waits, without end, for a worker to answer. *)
FlushAwaitsWorker(w) ==
    /\ stage[w] = "published"
    /\ task[w] \in consumed
    /\ stage' = [stage EXCEPT ![w] = "flushed"]
    /\ UNCHANGED <<fhVars, outbox, tables, workers, accidents>>

(* The broker has read everything sent so far, this commit too, and says so. *)
Flush(w) ==
    /\ stage[w] = "published"
    /\ task[w] \notin InOutbox
    /\ stage' = [stage EXCEPT ![w] = "flushed"]
    /\ UNCHANGED <<fhVars, outbox, tables, workers, accidents>>

(* Mutant: the error of FlushTimeout is ignored. *)
FlushFailsUnnoticed(w) ==
    /\ stage[w] = "published"
    /\ stage' = [stage EXCEPT ![w] = "flushed"]
    /\ Trouble
    /\ UNCHANGED <<fhVars, outbox, tables, workers, mishaps>>

(* Mutant: the handler publishes the commit again. *)
FlushFailsRetries(w) ==
    /\ stage[w] = "published"
    /\ stage' = [stage EXCEPT ![w] = "new"]
    /\ Hit({task[w]} \cap InOutbox) /\ Trouble
    /\ UNCHANGED <<fhVars, outbox, tables, workers>>

(***************************************************************************)
(* FlushTimeout runs out; the commit may still reach the broker.  If it is *)
(* not there yet, nothing waits for it any more.                           *)
(***************************************************************************)
FlushFails(w) ==
    /\ stage[w] = "published"
    /\ Return(w)
    /\ Hit({task[w]} \cap InOutbox) /\ Trouble
    /\ UNCHANGED <<outbox, tables, workers>>

Confirm(w, ok) ==
    /\ stage[w] = "flushed"
    /\ SaveCursor(task[w], ok)
    /\ Return(w)
    /\ UNCHANGED <<outbox, procVars, workers, mishaps>>

HandleCommit(w) ==
    \/ \E ok \in BOOLEAN : SkipTooBig(w, ok) \/ Confirm(w, ok)
    \/ Publish(w) \/ PublishFails(w)
    \/ Flush(w) \/ FlushFails(w)

-----------------------------------------------------------------------------
(* The broker. *)

(* It reads the message, picks a member and sends. *)
Deliver(c) ==
    /\ outbox # <<>> /\ c \in interest /\ Len(wire[c]) < WireLimit
    /\ outbox' = Tail(outbox)
    /\ wire' = [wire EXCEPT ![c] = Append(@, Head(outbox))]
    /\ UNCHANGED <<fhVars, stage, tables, members, inbox, job, consumed, accidents>>

(* Without a member the broker forgets the message. *)
NobodyListens ==
    /\ outbox # <<>> /\ interest = {}
    /\ outbox' = Tail(outbox)
    /\ Hit({Head(outbox)})
    /\ UNCHANGED <<fhVars, stage, tables, workers, trouble>>

(***************************************************************************)
(* A worker's client loses the broker, and with the connection what it had *)
(* not read: what was on the way, what the broker held for it, and what    *)
(* the broker went on to send before it noticed.                           *)
(***************************************************************************)
Detach(c) ==
    /\ c \in interest
    /\ interest' = interest \ {c}
    /\ wire' = [wire EXCEPT ![c] = <<>>]
    /\ Hit(InWire(c)) /\ Trouble
    /\ UNCHANGED <<publisher, tables, running, inbox, job, consumed>>

(* The broker hears of a subscription, the first time or again. *)
Attach(c) ==
    /\ c \in running \ interest
    /\ interest' = interest \cup {c}
    /\ UNCHANGED <<publisher, tables, running, wire, inbox, job, consumed, accidents>>

-----------------------------------------------------------------------------
(* The workers. *)

(* Run, in a new process, subscribes, without waiting for the broker. *)
Join(c) ==
    /\ c \notin running /\ job[c] = Nothing
    /\ running' = running \cup {c}
    /\ UNCHANGED <<publisher, tables, interest, wire, inbox, job, consumed, accidents>>

(* Its client reads a message, and drops it if its buffer is full. *)
Arrive(c) ==
    /\ wire[c] # <<>>
    /\ wire' = [wire EXCEPT ![c] = Tail(@)]
    /\ IF Len(inbox[c]) < InboxLimit
       THEN /\ inbox' = [inbox EXCEPT ![c] = Append(@, Head(wire[c]))]
            /\ UNCHANGED mishaps
       ELSE Hit({Head(wire[c])}) /\ UNCHANGED inbox
    /\ UNCHANGED <<publisher, tables, members, job, consumed, trouble>>

(* Mutant: a goroutine per message; the last to start may run first. *)
TakeNewest(c) ==
    LET n == Len(inbox[c])
    IN  /\ job[c] = Nothing /\ n > 0
        /\ job' = [job EXCEPT ![c] = inbox[c][n]]
        /\ inbox' = [inbox EXCEPT ![c] = SubSeq(@, 1, n - 1)]
        /\ UNCHANGED <<publisher, tables, members, wire, consumed, accidents>>

(* The client calls the callback for one message after the other. *)
Take(c) ==
    /\ job[c] = Nothing /\ inbox[c] # <<>>
    /\ job' = [job EXCEPT ![c] = Head(inbox[c])]
    /\ inbox' = [inbox EXCEPT ![c] = Tail(@)]
    /\ UNCHANGED <<publisher, tables, members, wire, consumed, accidents>>

ProcessEvent(c, ok) ==
    /\ job[c] # Nothing
    /\ ProcessStep(c, job[c], log[job[c]], ok)
    /\ Call(ok)
    /\ UNCHANGED <<publisher, cursor, workers, mishaps>>

(* The end of the callback: the worker, too, moves the cursor to its commit. *)
Consume(c, ok) ==
    /\ job[c] # Nothing
    /\ Processed(c, log[job[c]])
    /\ SaveCursor(job[c], ok)
    /\ job' = [job EXCEPT ![c] = Nothing]
    /\ at' = [at EXCEPT ![c] = Start]
    /\ consumed' = consumed \cup {job[c]}
    /\ UNCHANGED <<publisher, posts, failed, members, wire, inbox, mishaps>>

(* Mutant: Run returns without closing the client or draining. *)
StopWorkerStaysMember(c) ==
    /\ c \in running
    /\ running' = running \ {c}
    /\ Trouble
    /\ UNCHANGED <<publisher, tables, interest, wire, inbox, job, consumed, mishaps>>

(***************************************************************************)
(* The context is cancelled.  Drain only starts to drain, and Run goes on  *)
(* to close the client, which drops the messages it holds and those sent   *)
(* to it.  The callback has a context of its own and goes on for as long   *)
(* as the process lives.                                                   *)
(***************************************************************************)
StopWorker(c) ==
    /\ c \in running
    /\ running' = running \ {c}
    /\ interest' = interest \ {c}
    /\ wire' = [wire EXCEPT ![c] = <<>>]
    /\ inbox' = [inbox EXCEPT ![c] = <<>>]
    /\ Hit(InWire(c) \cup InInbox(c)) /\ Trouble
    /\ UNCHANGED <<publisher, tables, job, consumed>>

(* Its process ends, told to or not, and with it the callback. *)
ExitWorker(c) ==
    /\ c \in running \/ job[c] # Nothing
    /\ running' = running \ {c}
    /\ interest' = interest \ {c}
    /\ wire' = [wire EXCEPT ![c] = <<>>]
    /\ inbox' = [inbox EXCEPT ![c] = <<>>]
    /\ job' = [job EXCEPT ![c] = Nothing]
    /\ at' = [at EXCEPT ![c] = Start]
    /\ Hit(InWire(c) \cup InInbox(c) \cup ({job[c]} \ {Nothing})) /\ Trouble
    /\ UNCHANGED <<publisher, posts, failed, cursor, consumed>>

WorkerStep(c) ==
    \/ Join(c) \/ Arrive(c) \/ Take(c)
    \/ \E ok \in BOOLEAN : ProcessEvent(c, ok) \/ Consume(c, ok)
    \/ StopWorker(c) \/ ExitWorker(c)

Next ==
    \/ Relay
    \/ Subscribe \/ SubscribeFails \/ Reconnect
    \/ ReadCommit \/ Disconnect \/ Shutdown
    \/ PublisherCrash \/ LoseOutbox
    \/ \E w \in Worker : StartCommit(w) \/ HandleCommit(w)
    \/ \E c \in Consumer : Deliver(c) \/ Detach(c) \/ Attach(c)
    \/ NobodyListens
    \/ \E c \in Consumer : WorkerStep(c)

Spec == Init /\ [][Next]_vars

-----------------------------------------------------------------------------
(* Ghost vocabulary. *)

Frontier == IF Connected THEN pos ELSE cursor

UnderWay ==
    InFlight \cup InOutbox \cup {job[c] : c \in Consumer}
        \cup UNION {InWire(c) \cup InInbox(c) : c \in Consumer}

Missed ==
    {s \in 1..Frontier :
        s > origin /\ ~log[s].tooBig /\ s \notin consumed \cup UnderWay}

Quiet ==
    /\ session = "streaming" /\ pos = Len(log) /\ Idle
    /\ outbox = <<>>
    /\ \A c \in Consumer :
           wire[c] = <<>> /\ inbox[c] = <<>> /\ job[c] = Nothing

-----------------------------------------------------------------------------
(* Safety. *)

(***************************************************************************)
(* Every commit the publisher has moved past was consumed, is on its way   *)
(* to a worker, or is one that a mishap hit: the handler could not publish *)
(* it or gave up before it left, nobody was there to send it to, it was in *)
(* a buffer that was full or went with its connection or process.  No      *)
(* mishap costs any other commit.  A crash of the publisher costs what its *)
(* handlers have in hand if they are several; a publisher with one handler *)
(* loses nothing by it, although the workers move its cursor too.          *)
(***************************************************************************)
Excused == hit \cup excused

NoSilentLoss == Missed \subseteq Excused

(***************************************************************************)
(* Why it holds: what a handler published is in its client's buffer until  *)
(* it is sent on or hit, and what the broker confirmed was.  Behind every  *)
(* commit that was read, published, sent on or saved as the cursor all     *)
(* others were sent on, are in flight or were hit; with one handler, those *)
(* behind one published are not in flight any more.                        *)
(***************************************************************************)
Delivered ==
    {s \in 1..Len(log) :
        \/ s \in consumed
        \/ \E c \in Consumer : s = job[c] \/ s \in InWire(c) \cup InInbox(c)}

Past == Delivered \cup Excused

Settled(S, x) == \A s \in 1..x : s > origin /\ ~log[s].tooBig => s \in S

Marks ==
    Delivered \cup InOutbox \cup {cursor} \cup (IF Connected THEN {pos} ELSE {})

Untouched ==
    origin = Never =>
        ~Connected /\ cursor = NoCursor /\ outbox = <<>> /\ Delivered = {}

Sending ==
    \A w \in Worker :
        stage[w] # "new" => task[w] # Nothing /\ ~log[task[w]].tooBig

StillSent ==
    \A w \in Worker :
        /\ stage[w] = "published" => task[w] \in Past \cup InOutbox
        /\ stage[w] = "flushed" => task[w] \in Past

Accounted ==
    /\ \A x \in Marks : Settled(Past \cup InFlight, x)
    /\ Cardinality(Worker) = 1 =>
           /\ \A x \in Delivered \cup InOutbox : Settled(Past \cup {x}, x)
           /\ Settled(Past, cursor)

LossInv ==
    /\ SchedulerInv
    /\ Untouched
    /\ Sending
    /\ StillSent
    /\ Accounted

(* As in Subscription: no later deletion made up for a lost or failed commit. *)
Spoilt(uri) == SpoiltBy(log, uri, origin, Missed \cup failed)

(***************************************************************************)
(* With a single worker, and until the publisher connects again, a repo of *)
(* which nothing is on its way has the rows its log calls for, whatever    *)
(* became of other messages: publisher, broker and client keep the order.  *)
(***************************************************************************)
ConvergedWithOneWorker ==
    /\ Cardinality(Consumer) = 1
    /\ ~reconnected
    /\ session = "streaming" /\ pos = Len(log)
    => \A uri \in Uri :
           \/ \E s \in UnderWay \ {Nothing} : RepoOf(s) = uri[1]
           \/ Spoilt(uri)
           \/ posts[uri] = Expected(log, uri, origin)

(***************************************************************************)
(* Why it holds: while the only connection there was lives, every commit   *)
(* read since the origin was consumed, is coming, or is given up, and of   *)
(* each repo those consumed come first, then the callback's, then those in *)
(* the worker's buffer, on their way to it, in the publisher's buffer, and *)
(* not yet published.                                                      *)
(***************************************************************************)
Sent == {task[w] : w \in {v \in Worker : stage[v] # "new"}}
Unsent == InFlight \ Sent
Jobs == {job[c] : c \in Consumer} \ {Nothing}
Inboxes == UNION {InInbox(c) : c \in Consumer}
Wires == UNION {InWire(c) : c \in Consumer}
Coming == Jobs \cup Inboxes \cup Wires \cup InOutbox \cup Unsent

Ahead(S, T) == \A x \in S : \A y \in T : RepoOf(x) = RepoOf(y) => x < y

Sorted(q) ==
    \A i, j \in 1..Len(q) : i < j /\ RepoOf(q[i]) = RepoOf(q[j]) => q[i] < q[j]

WayInOrder ==
    /\ Ahead(consumed, Coming)
    /\ Ahead(Jobs, Inboxes \cup Wires \cup InOutbox \cup Unsent)
    /\ Ahead(Inboxes, Wires \cup InOutbox \cup Unsent)
    /\ Ahead(Wires, InOutbox \cup Unsent)
    /\ Ahead(InOutbox, Unsent)
    /\ Sorted(outbox)
    /\ \A c \in Consumer : Sorted(wire[c]) /\ Sorted(inbox[c])

GivenUp ==
    {s \in 1..pos : s > origin /\ ~log[s].tooBig /\ s \notin consumed \cup Coming}

Left ==
    {p \in Places(log) :
        \/ p[1] > pos
        \/ /\ p[1] \in Coming
           /\ \A c \in Consumer : job[c] = p[1] => ~Passed(at[c], log, p)}

AllRead ==
    /\ origin \in 0..pos
    /\ \A s \in consumed \cup Coming : origin < s /\ s <= pos

RowsOnTrack ==
    \A uri \in Uri :
        OnTrack(posts[uri], log, uri, origin, Left, GivenUp \cup failed)

OneConnection ==
    Connected /\ ~reconnected /\ Cardinality(Consumer) = 1

ConvergenceInv ==
    /\ \A c \in Consumer : job[c] = Nothing => at[c] = Start
    /\ origin = Never => \A uri \in Uri : posts[uri] = NoRow
    /\ OneConnection => AllRead /\ WayInOrder /\ RowsOnTrack

(***************************************************************************)
(* "deleted post no longer appears": a post deleted upstream has no row    *)
(* once everything is handled and nothing has failed.                      *)
(***************************************************************************)
DeletedPostGone ==
    Quiet /\ trouble = 0 /\ hit = {} =>
        \A uri \in Uri : ~Exists(log, uri) => posts[uri] = NoRow

(***************************************************************************)
(* No commit is handled twice for one reading of it, through timeouts,     *)
(* reconnections and crashes of the publisher and workers that come and    *)
(* go: only the relay repeats commits.                                     *)
(***************************************************************************)
Held(box, limit, s) ==
    {x \in Consumer \X (1..limit) : x[2] <= Len(box[x[1]]) /\ box[x[1]][x[2]] = s}

Copies(s) ==
    Cardinality({i \in DOMAIN outbox : outbox[i] = s})
    + Cardinality(Held(wire, WireLimit, s))
    + Cardinality(Held(inbox, InboxLimit, s))
    + Cardinality({c \in Consumer : job[c] = s})

OneCopy ==
    INSTANCE AtMostOnce WITH
        Seqs    <- 1..MaxLog,
        owed    <- Unsent,
        transit <- [s \in 1..MaxLog |-> Copies(s)]

HandledAtMostOnce == OneCopy!Spec

-----------------------------------------------------------------------------
(* Liveness. *)

(***************************************************************************)
(* Reader, handlers, broker and callbacks keep going; workers that stopped *)
(* or lost the broker need not come back.                                  *)
(***************************************************************************)
Fairness ==
    /\ WF_vars(Subscribe)
    /\ WF_vars(Reconnect)
    /\ WF_vars(ReadCommit)
    /\ WF_vars(Shutdown)
    /\ WF_vars(\E w \in Worker : StartCommit(w))
    /\ \A w \in Worker : WF_vars(HandleCommit(w))
    /\ WF_vars((\E c \in Consumer : Deliver(c)) \/ NobodyListens)
    /\ \A c \in Consumer :
           /\ WF_vars(Arrive(c))
           /\ WF_vars(Take(c))
           /\ WF_vars(\E ok \in BOOLEAN : ProcessEvent(c, ok) \/ Consume(c, ok))

FairSpec == Spec /\ Fairness

(***************************************************************************)
(* With finitely many failures everything the relay carries is published   *)
(* and handled, or lost: no handler waits for ever for a confirmation and  *)
(* no message stays in a buffer.                                           *)
(***************************************************************************)
EventuallyQuiet == <>[]Quiet
=============================================================================
