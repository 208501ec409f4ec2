------------------------------ MODULE Firehose ------------------------------
(***************************************************************************)
(* firehose.FirehoseConn: one connection at a time to the relay, and the   *)
(* parallel scheduler it feeds.  The reader hands each commit to the       *)
(* scheduler, whose workers run the caller's handler; commits of one repo  *)
(* are handled one after the other, those of different repos side by side. *)
(*                                                                         *)
(* The modules that extend this one say what a handler does and when it is *)
(* done: their actions conjoin those below.  A sequence number is the      *)
(* place of a commit in the relay's log.                                   *)
(***************************************************************************)
EXTENDS Network, Integers

CONSTANTS
    Worker,     \* the goroutines of the parallel scheduler
    MaxLog      \* BOUND on the relay's log

ASSUME FirehoseAssumption ==
    /\ MaxLog \in Nat
    /\ IsFiniteSet(Worker) /\ Worker # {}

VARIABLES
    log,        \* the relay's log, oldest commit first
    session,    \* where Listen's loop is
    pos,        \* last sequence number read from the connection
    held,       \* commit the reader is blocked on handing over, or Nothing
    present,    \* repos that have an entry in the scheduler's active map
    waiting,    \* per repo, what was appended to its entry
    task,       \* per worker, the commit it handles, or Nothing
    \* What the program does not keep; the properties are about it.
    origin,     \* where the very first connection joined the log
    handled,    \* commits whose last delivery was handled to the end
    excused     \* commits a crash or a connection without a cursor put at risk

stream == <<session, pos>>
scheduler == <<held, present, waiting, task>>
ghosts == <<origin, handled, excused>>
fhVars == <<log, stream, scheduler, ghosts>>

Nothing == 0
Never == -1             \* no connection was ever made

RepoOf(s) == log[s].repo

(* Connected(), which the health check asks. *)
Connected == session \in {"streaming", "draining"}

(* What is in the scheduler. *)
InFlight ==
    {s \in 1..Len(log) :
        \/ s = held
        \/ \E w \in Worker : s = task[w]
        \/ \E r \in Repo : \E i \in 1..Len(waiting[r]) : s = waiting[r][i]}

SchedulerEmpty == held = Nothing /\ \A w \in Worker : task[w] = Nothing

FirehoseTypeOK ==
    /\ log \in Seq(Commit)
    /\ session \in {"idle", "streaming", "draining", "backoff"}
    /\ pos \in 0..Len(log)
    /\ held \in Nat
    /\ present \subseteq Repo
    /\ waiting \in [Repo -> Seq(Nat \ {0})]
    /\ task \in [Worker -> Nat]
    /\ origin \in {Never} \cup Nat
    /\ handled \subseteq Nat
    /\ excused \subseteq Nat

NewScheduler ==
    /\ held = Nothing
    /\ present = {}
    /\ waiting = [r \in Repo |-> <<>>]
    /\ task = [w \in Worker |-> Nothing]

FirehoseInit ==
    /\ log = <<>>
    /\ session = "idle"
    /\ pos = 0
    /\ NewScheduler
    /\ origin = Never
    /\ handled = {}
    /\ excused = {}

-----------------------------------------------------------------------------
(* The relay. *)

(* An account commits to its repo. *)
Emit(c) ==
    /\ Len(log) < MaxLog
    /\ Possible(log, c)
    /\ log' = Append(log, c)
    /\ UNCHANGED <<stream, scheduler, ghosts>>

-----------------------------------------------------------------------------
(* The connection. *)

(* Mutant: the relay is asked for what follows the commit after the cursor. *)
ConnectOneLate(cursor) ==
    /\ session = "idle"
    /\ session' = "streaming"
    /\ pos' = IF cursor > 0 THEN cursor + 1 ELSE Len(log)
    /\ origin' = IF origin = Never THEN pos' ELSE origin
    /\ UNCHANGED <<log, scheduler, handled, excused>>

(* Mutant: the relay is asked for its oldest commit, whatever the cursor. *)
ConnectFromOldest(cursor) ==
    /\ session = "idle"
    /\ session' = "streaming"
    /\ pos' = 0
    /\ origin' = IF origin = Never THEN pos' ELSE origin
    /\ UNCHANGED <<log, scheduler, handled, excused>>

(***************************************************************************)
(* Run dials with the stored cursor.  FirehoseURL leaves a cursor of 0 out *)
(* of the address, and the relay then starts at the live end of its log.   *)
(***************************************************************************)
Connect(cursor) ==
    /\ session = "idle"
    /\ session' = "streaming"
    /\ pos' = IF cursor > 0 THEN cursor ELSE Len(log)
    /\ origin' = IF origin = Never THEN pos' ELSE origin
    /\ excused' = IF cursor = 0 /\ origin # Never
                  THEN excused \cup 1..pos' ELSE excused
    /\ UNCHANGED <<log, scheduler, handled>>

(* GetCursor or the dial fails: Listen waits before the next attempt. *)
ConnectFails ==
    /\ session = "idle"
    /\ session' = "backoff"
    /\ UNCHANGED <<log, pos, scheduler, ghosts>>

BackoffOver ==
    /\ session = "backoff"
    /\ session' = "idle"
    /\ UNCHANGED <<log, pos, scheduler, ghosts>>

(***************************************************************************)
(* HandleRepoStream reads one commit and calls AddWork, which appends it   *)
(* to its repo's entry if there is one; otherwise it makes the entry and   *)
(* blocks until a worker takes the commit.                                 *)
(***************************************************************************)
Read ==
    /\ session = "streaming" /\ held = Nothing
    /\ pos < Len(log)
    /\ pos' = pos + 1
    /\ LET r == RepoOf(pos')
       IN  IF r \in present
           THEN /\ waiting' = [waiting EXCEPT ![r] = Append(@, pos')]
                /\ UNCHANGED <<held, present>>
           ELSE /\ present' = present \cup {r}
                /\ held' = pos'
                /\ UNCHANGED waiting
    /\ handled' = handled \ {pos'}
    /\ UNCHANGED <<log, session, task, origin, excused>>

(* The connection fails; HandleRepoStream shuts the scheduler down. *)
Drop ==
    /\ session = "streaming" /\ held = Nothing
    /\ session' = "draining"
    /\ UNCHANGED <<log, pos, scheduler, ghosts>>

(* Mutant: Run returns at once and drops what the workers were doing. *)
DrainedEarly ==
    /\ session = "draining"
    /\ session' = "backoff"
    /\ held' = Nothing
    /\ present' = {}
    /\ waiting' = [r \in Repo |-> <<>>]
    /\ task' = [w \in Worker |-> Nothing]
    /\ UNCHANGED <<log, pos, ghosts>>

(* Mutant: Run returns while workers are busy, who go on. *)
DrainedBusy ==
    /\ session = "draining"
    /\ session' = "backoff"
    /\ UNCHANGED <<log, pos, scheduler, ghosts>>

(* Mutant: all connections share a scheduler, whose workers stop at once. *)
DrainedKeepsEntries ==
    /\ session = "draining"
    /\ session' = "backoff"
    /\ held' = Nothing
    /\ task' = [w \in Worker |-> Nothing]
    /\ UNCHANGED <<log, pos, present, waiting, ghosts>>

(* Mutant: an error of Run ends Listen's loop. *)
DrainedForGood ==
    /\ session = "draining"
    /\ SchedulerEmpty
    /\ session' = "stopped"
    /\ UNCHANGED <<log, pos, scheduler, ghosts>>

(* Shutdown has seen every worker stop: Run returns the error. *)
Drained ==
    /\ session = "draining"
    /\ SchedulerEmpty
    /\ session' = "backoff"
    /\ UNCHANGED <<log, pos, scheduler, ghosts>>

(***************************************************************************)
(* The process dies, or is told to stop and exits, and a new one starts.   *)
(* After SIGTERM the context is cancelled, so what its workers still try   *)
(* on the database fails: nothing tells the two apart.                     *)
(***************************************************************************)
Restart ==
    /\ session' = "idle"
    /\ pos' = 0
    /\ held' = Nothing
    /\ present' = {}
    /\ waiting' = [r \in Repo |-> <<>>]
    /\ task' = [w \in Worker |-> Nothing]
    /\ excused' = IF Cardinality(Worker) = 1
                  THEN excused ELSE excused \cup InFlight
    /\ UNCHANGED <<log, origin, handled>>

-----------------------------------------------------------------------------
(* The scheduler. *)

(* A free worker takes the commit the reader is blocked on. *)
Dispatch(w) ==
    /\ held # Nothing
    /\ task[w] = Nothing
    /\ task' = [task EXCEPT ![w] = held]
    /\ held' = Nothing
    /\ UNCHANGED <<log, stream, present, waiting, ghosts>>

(***************************************************************************)
(* The handler has returned, with or without an error: the worker goes on  *)
(* with the next commit of the same repo, or removes the repo's entry.     *)
(***************************************************************************)
Finish(w) ==
    LET r == RepoOf(task[w])
    IN  /\ task[w] # Nothing
        /\ IF waiting[r] # <<>>
           THEN /\ task' = [task EXCEPT ![w] = Head(waiting[r])]
                /\ waiting' = [waiting EXCEPT ![r] = Tail(@)]
                /\ UNCHANGED present
           ELSE /\ task' = [task EXCEPT ![w] = Nothing]
                /\ present' = present \ {r}
                /\ UNCHANGED waiting
        /\ handled' = handled \cup {task[w]}
        /\ UNCHANGED <<log, stream, held, origin, excused>>

-----------------------------------------------------------------------------
(* What the scheduler promises. *)

Idle == SchedulerEmpty /\ \A r \in Repo : waiting[r] = <<>>

(***************************************************************************)
(* No repo is ever handled out of order: one worker at a time has a commit *)
(* of it, the commits waiting behind come later in the log, in order, and  *)
(* the one the reader holds belongs to a repo nobody handles.              *)
(***************************************************************************)
RepoOrder ==
    /\ \A v, w \in Worker :
           task[v] # Nothing /\ task[w] # Nothing
           /\ RepoOf(task[v]) = RepoOf(task[w]) => v = w
    /\ held # Nothing => \A w \in Worker :
           task[w] # Nothing => RepoOf(task[w]) # RepoOf(held)
    /\ \A r \in Repo : \A i, j \in 1..Len(waiting[r]) :
           /\ RepoOf(waiting[r][i]) = r
           /\ i < j => waiting[r][i] < waiting[r][j]
    /\ \A w \in Worker : task[w] # Nothing =>
           LET q == waiting[RepoOf(task[w])]
           IN  \A i \in 1..Len(q) : task[w] < q[i]

(* No commit waits for a repo that no worker would ever come back to. *)
NoOrphan ==
    \A r \in Repo : waiting[r] # <<>> =>
        \E w \in Worker : task[w] # Nothing /\ RepoOf(task[w]) = r

(***************************************************************************)
(* Why both hold: the active map has an entry for a repo exactly while a   *)
(* worker or the reader has a commit of it, nothing in the scheduler comes *)
(* later in the log than what was read, and a scheduler only outlives its  *)
(* connection for as long as it drains.                                    *)
(***************************************************************************)
InHand(r) ==
    \/ held # Nothing /\ RepoOf(held) = r
    \/ \E w \in Worker : task[w] # Nothing /\ RepoOf(task[w]) = r

EntriesInHand == \A r \in Repo : r \in present <=> InHand(r)

HeldIsNewest ==
    held # Nothing => held = pos /\ waiting[RepoOf(held)] = <<>>

AlreadyRead ==
    /\ \A w \in Worker : task[w] <= pos
    /\ \A r \in Repo : \A i \in 1..Len(waiting[r]) : waiting[r][i] <= pos

EmptyUnlessConnected ==
    ~Connected => SchedulerEmpty /\ \A r \in Repo : waiting[r] = <<>>

SchedulerInv ==
    /\ EntriesInHand
    /\ HeldIsNewest
    /\ AlreadyRead
    /\ EmptyUnlessConnected
    /\ RepoOrder
    /\ NoOrphan

-----------------------------------------------------------------------------
(***************************************************************************)
(* The scheduler keeps what Delivery promises: the entries of its active   *)
(* map, the commits appended to them, the one the reader is blocked on and *)
(* the workers make up a queue per repo that handles each commit once.     *)
(***************************************************************************)
Doing == {task[w] : w \in Worker} \ {Nothing}

Promise == INSTANCE Delivery WITH due <- InFlight \ Doing, doing <- Doing

DeliversInOrder == Promise!Spec
=============================================================================
