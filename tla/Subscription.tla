---------------------------- MODULE Subscription ----------------------------
(***************************************************************************)
(* subscription.Subscription, the standalone deployment: one process reads *)
(* the firehose, filters its commits and writes the feeds' tables.  The    *)
(* scheduler's workers run HandleCommit: ProcessEvent, then UpsertCursor.  *)
(***************************************************************************)
EXTENDS Firehose, Processor

VARIABLE cursor     \* the service's row of sub_state

vars == <<fhVars, procVars, cursor>>

TypeOK ==
    /\ FirehoseTypeOK
    /\ ProcessorTypeOK(Worker)
    /\ cursor \in 0..Len(log)

Init ==
    /\ FirehoseInit
    /\ ProcessorInit(Worker)
    /\ cursor = NoCursor

-----------------------------------------------------------------------------
Relay == \E c \in Commit : Emit(c) /\ UNCHANGED <<procVars, cursor>>

(* subscribe: GetCursor, then Run. *)
Subscribe == Connect(cursor) /\ UNCHANGED <<procVars, cursor>>
SubscribeFails == ConnectFails /\ UNCHANGED <<procVars, cursor>>
Reconnect == BackoffOver /\ UNCHANGED <<procVars, cursor>>

ReadCommit == Read /\ UNCHANGED <<procVars, cursor>>

Disconnect == Drop /\ UNCHANGED <<procVars, cursor>>
Shutdown == Drained /\ UNCHANGED <<procVars, cursor>>

(* The tables outlive the process. *)
Crash ==
    /\ Restart
    /\ at' = [w \in Worker |-> Start]
    /\ UNCHANGED <<posts, failed, cursor>>

(* Mutant: the cursor is saved before the commit is processed. *)
StartCommitSavesCursor(w) ==
    /\ Dispatch(w)
    /\ cursor' = UpsertCursor(cursor, held)
    /\ UNCHANGED procVars

StartCommit(w) == Dispatch(w) /\ UNCHANGED <<procVars, cursor>>

ProcessEvent(w, ok) ==
    /\ task[w] # Nothing
    /\ ProcessStep(w, task[w], log[task[w]], ok)
    /\ UNCHANGED <<fhVars, cursor>>

(***************************************************************************)
(* The end of HandleCommit.  The cursor moves to this commit whatever came *)
(* of it and whatever the cursor was; an error of the update is logged by  *)
(* the scheduler.                                                          *)
(***************************************************************************)
HandleCommit(w, ok) ==
    /\ task[w] # Nothing
    /\ Processed(w, log[task[w]])
    /\ cursor' = IF ok THEN UpsertCursor(cursor, task[w]) ELSE cursor
    /\ Finish(w)
    /\ at' = [at EXCEPT ![w] = Start]
    /\ UNCHANGED <<posts, failed>>

Next ==
    \/ Relay
    \/ Subscribe \/ SubscribeFails \/ Reconnect
    \/ ReadCommit \/ Disconnect \/ Shutdown
    \/ Crash
    \/ \E w \in Worker : StartCommit(w)
    \/ \E w \in Worker, ok \in BOOLEAN : ProcessEvent(w, ok)
    \/ \E w \in Worker, ok \in BOOLEAN : HandleCommit(w, ok)

Spec == Init /\ [][Next]_vars

-----------------------------------------------------------------------------
(* Ghost vocabulary. *)

(***************************************************************************)
(* How far the program claims to be: what the live connection has read, or *)
(* the cursor the next connection will start from.                         *)
(***************************************************************************)
Frontier == IF Connected THEN pos ELSE cursor

Missed == {s \in 1..Frontier : s > origin /\ s \notin handled \cup InFlight}

-----------------------------------------------------------------------------
(* Safety. *)

(***************************************************************************)
(* At-least-once: every commit since the first connection that the program *)
(* has moved past was handled to the end or still will be.  Connection     *)
(* failures, failed database calls and a cursor that went backwards never  *)
(* cost a commit.  Two things do, and only the commits they hit: connect-  *)
(* ing again without a cursor skips what the log holds by then; and a      *)
(* crash, with several workers, what they had in hand, because each moves  *)
(* the cursor past commits the others are still handling.                  *)
(***************************************************************************)
NoSilentLoss == Missed \subseteq excused

(* A commit was missed or failed, and no later deletion made up for it. *)
Spoilt(uri) == SpoiltBy(log, uri, origin, Missed \cup failed)

(***************************************************************************)
(* A repo of which everything was read and nothing is in flight has the    *)
(* rows its log calls for, but for spoilt posts: deliveries in any number, *)
(* in the middle of which connections failed or the process died, leave no *)
(* stray or stale row.                                                     *)
(***************************************************************************)
Converged ==
    Connected /\ pos = Len(log) =>
        \A uri \in Uri :
            \/ \E s \in InFlight : RepoOf(s) = uri[1]
            \/ Spoilt(uri)
            \/ posts[uri] = Expected(log, uri, origin)

(***************************************************************************)
(* With one worker the cursor never goes back, through restarts and failed *)
(* updates too: commits of all repos are handled in the order of the log.  *)
(***************************************************************************)
CursorMonotone == [][Cardinality(Worker) = 1 => cursor' >= cursor]_vars

(***************************************************************************)
(* "multiple pipelines are isolated": what one feed receives does not      *)
(* depend on the others.  Of a handled creation that was not undone, every *)
(* feed that selects the post shows it.                                    *)
(***************************************************************************)
PipelinesIsolated ==
    Missed = {} /\ failed = {} /\ InFlight = {} =>
        \A uri \in Uri : \A p \in Effective(log, uri, origin) :
            /\ OpAt(log, p).action = "create"
            /\ p[1] \in handled
            /\ \A q \in PlacesOf(log, uri) : q = p \/ Before(q, p)
            => \A i \in Selecting(uri[1], OpAt(log, p).post) :
                   posts[uri] # NoRow /\ posts[uri].feed = Configs[i].name

(***************************************************************************)
(* Why NoSilentLoss and CursorMonotone hold: the cursor never overtakes    *)
(* the connection, and a single worker has yet to reach it.                *)
(***************************************************************************)
CursorBehind == Connected => cursor <= pos

OneWorkerBehindNone ==
    Cardinality(Worker) = 1 => \A s \in InFlight : cursor < s

LossInv ==
    /\ SchedulerInv
    /\ CursorBehind
    /\ OneWorkerBehindNone
    /\ NoSilentLoss

(***************************************************************************)
(* Why Converged holds.  Reach is how far the next connection will take    *)
(* the program as given: to its cursor or, without one, to the live end.   *)
(* Commits given up are no longer counted on; the places left of the       *)
(* others are still to be read or carried out.                             *)
(***************************************************************************)
Reach ==
    IF Connected THEN pos ELSE IF cursor > 0 THEN cursor ELSE Len(log)

GivenUp == {s \in 1..Reach : s > origin /\ s \notin handled \cup InFlight}

Left ==
    {p \in Places(log) :
        \/ p[1] > Reach
        \/ /\ p[1] \in InFlight
           /\ \A w \in Worker : task[w] = p[1] => ~Passed(at[w], log, p)}

(* Whatever was read of a repo after a commit in flight is in flight. *)
NoGap ==
    \A s \in InFlight : \A t \in s..pos :
        RepoOf(t) = RepoOf(s) => t \in InFlight

(* A commit given up stays so: no connection will start before it. *)
GivenUpForGood ==
    \A s \in GivenUp :
        /\ cursor = NoCursor \/ s <= cursor
        /\ \A t \in InFlight : s < t

HandledRead ==
    /\ handled \subseteq 1..Len(log)
    /\ handled \cap InFlight = {}
    /\ Connected /\ cursor = NoCursor => handled \subseteq 1..pos

IdleAtStart == \A w \in Worker : task[w] = Nothing => at[w] = Start

AfterOrigin ==
    IF origin = Never
    THEN ~Connected /\ cursor = NoCursor /\ \A uri \in Uri : posts[uri] = NoRow
    ELSE /\ origin \in 0..Len(log)
         /\ Connected => origin <= pos
         /\ cursor = NoCursor \/ origin < cursor
         /\ \A s \in InFlight : origin < s

CommitsInv ==
    /\ SchedulerInv
    /\ CursorBehind
    /\ NoGap
    /\ GivenUpForGood
    /\ HandledRead
    /\ IdleAtStart
    /\ AfterOrigin

RowsOnTrack ==
    origin # Never => \A uri \in Uri :
        OnTrack(posts[uri], log, uri, origin, Left, GivenUp \cup failed)

ConvergenceInv == CommitsInv /\ RowsOnTrack

-----------------------------------------------------------------------------
(* Liveness. *)

(* The steps taken against the program. *)
Adverse == Crash \/ Disconnect \/ SubscribeFails

(***************************************************************************)
(* The reader, each worker and Listen's loop keep going; the relay owes    *)
(* nothing and database calls may fail for ever.                           *)
(***************************************************************************)
Fairness ==
    /\ WF_vars(Subscribe)
    /\ WF_vars(Reconnect)
    /\ WF_vars(ReadCommit)
    /\ WF_vars(Shutdown)
    /\ WF_vars(\E w \in Worker : StartCommit(w))
    /\ \A w \in Worker :
           /\ WF_vars(\E ok \in BOOLEAN : ProcessEvent(w, ok))
           /\ WF_vars(\E ok \in BOOLEAN : HandleCommit(w, ok))

FairSpec == Spec /\ Fairness

CaughtUp == session = "streaming" /\ pos = Len(log) /\ Idle

(***************************************************************************)
(* If the network and the process eventually leave it alone, Listen ends   *)
(* up connected with everything read and handled: no commit is stuck in    *)
(* the scheduler and no failed connection is the last.                     *)
(***************************************************************************)
EventuallyCaughtUp == (<>[][~Adverse]_vars) => <>[]CaughtUp
=============================================================================
