------------------------- MODULE SubscriptionProofs -------------------------
(***************************************************************************)
(* The standalone subscription keeps its types, keeps each repo in order   *)
(* and loses no commit silently, for every network, configuration and      *)
(* number of workers.                                                      *)
(***************************************************************************)
EXTENDS Subscription, IngestionProofs, FiniteSetTheorems

(* Every step of the subscription is one of the firehose or leaves it alone. *)
LEMMA NextIsFirehoseStep ==
    ASSUME TypeOK, Next
    PROVE  FirehoseStep \/ UNCHANGED fhVars
  BY DEF Next, FirehoseStep, TypeOK, Relay, Subscribe, SubscribeFails, Reconnect,
         ReadCommit, Disconnect, Shutdown, Crash, StartCommit, ProcessEvent,
         HandleCommit

IndInv == TypeOK /\ SchedulerInv

(* A new service with empty tables satisfies the invariant. *)
LEMMA InitIndInv == Init => IndInv
  <1> SUFFICES ASSUME Init PROVE IndInv
    OBVIOUS
  <1>1. FirehoseTypeOK
    BY FirehoseInitType DEF Init
  <1>2. SchedulerInv
    BY EmptyScheduler DEF Init, FirehoseInit
  <1>3. ProcessorTypeOK(Worker)
    BY ProcessorAssumption DEF Init, ProcessorInit, ProcessorTypeOK, Start
  <1>4. cursor \in 0..Len(log)
    BY DEF Init, FirehoseInit, NoCursor
  <1> QED
    BY <1>1, <1>2, <1>3, <1>4 DEF IndInv, TypeOK

(* Types and the scheduler's invariant survive every step of the program. *)
LEMMA NextIndInv == IndInv /\ [Next]_vars => IndInv'
  <1> SUFFICES ASSUME IndInv, [Next]_vars PROVE IndInv'
    OBVIOUS
  <1> USE DEF IndInv
  <1>1. CASE UNCHANGED vars
    BY <1>1, FirehoseStutter DEF vars, procVars, TypeOK, ProcessorTypeOK, fhVars
  <1>2. CASE Next
    <2>1. FirehoseTypeOK' /\ SchedulerInv'
      BY <1>2, NextIsFirehoseStep, FirehoseTypeStep, SchedulerInvStep,
         FirehoseStutter DEF TypeOK, SchedulerInv
    <2>2. Len(log') >= Len(log) /\ Len(log) \in Nat /\ Len(log') \in Nat
      <3>1. log' = log \/ \E c \in Commit : log' = Append(log, c)
        BY <1>2, NextIsFirehoseStep DEF FirehoseStep, fhVars, Emit, Connect,
           ConnectFails, BackoffOver, Read, Drop, Drained, Restart, Dispatch, Finish
      <3> QED
        BY <3>1 DEF TypeOK, FirehoseTypeOK
    <2>3. \A w \in Worker : task[w] # Nothing => log[task[w]] \in Commit
      BY InTheLog DEF TypeOK, FirehoseTypeOK
    <2>4. CASE \E w \in Worker, ok \in BOOLEAN : ProcessEvent(w, ok)
      <3>1. PICK w \in Worker, ok \in BOOLEAN : ProcessEvent(w, ok)
        BY <2>4
      <3>2. ProcessorTypeOK(Worker)'
        BY <2>3, <3>1, ProcessStepType DEF ProcessEvent, TypeOK, FirehoseTypeOK
      <3> QED
        BY <2>1, <2>2, <3>1, <3>2 DEF ProcessEvent, TypeOK, fhVars
    <2>5. CASE \E w \in Worker, ok \in BOOLEAN : HandleCommit(w, ok)
      <3>1. PICK w \in Worker, ok \in BOOLEAN : HandleCommit(w, ok)
        BY <2>5
      <3>2. task[w] \in 1..Len(log) /\ log' = log
        BY <3>1, InTheLog DEF HandleCommit, Finish, TypeOK
      <3>3. ProcessorTypeOK(Worker)'
        BY <3>1, ProcessorAssumption DEF HandleCommit, TypeOK, ProcessorTypeOK, Start
      <3>4. cursor' \in 0..Len(log)
        BY <3>1, <3>2 DEF HandleCommit, TypeOK, UpsertCursor
      <3> QED
        BY <2>1, <3>2, <3>3, <3>4 DEF TypeOK
    <2>6. CASE Crash
      <3>1. ProcessorTypeOK(Worker)'
        BY <2>6, ProcessorAssumption DEF Crash, TypeOK, ProcessorTypeOK, Start
      <3> QED
        BY <2>1, <2>2, <2>6, <3>1 DEF Crash, TypeOK
    <2>7. CASE UNCHANGED <<procVars, cursor>>
      BY <2>1, <2>2, <2>7 DEF TypeOK, ProcessorTypeOK, procVars
    <2> QED
      BY <1>2, <2>4, <2>5, <2>6, <2>7 DEF Next, Relay, Subscribe, SubscribeFails,
         Reconnect, ReadCommit, Disconnect, Shutdown, StartCommit
  <1> QED
    BY <1>1, <1>2

(* Hence they hold throughout. *)
LEMMA SpecIndInv == Spec => []IndInv
  BY InitIndInv, NextIndInv, PTL DEF Spec

(***************************************************************************)
(* The state is always well formed: in particular the cursor is a place of *)
(* the log and every row names a configured feed.                          *)
(***************************************************************************)
THEOREM TypeCorrect == Spec => []TypeOK
  <1>1. IndInv => TypeOK
    BY DEF IndInv
  <1> QED
    BY <1>1, SpecIndInv, PTL

(***************************************************************************)
(* Commits of one repo are never handled out of order or side by side, for *)
(* any number of repos and workers: the scheduler's half of convergence.   *)
(***************************************************************************)
THEOREM RepoOrderHolds == Spec => []RepoOrder
  <1>1. IndInv => RepoOrder
    BY DEF IndInv, SchedulerInv
  <1> QED
    BY <1>1, SpecIndInv, PTL

(***************************************************************************)
(* No commit is left behind in the scheduler: behind every queue of a repo *)
(* there is a worker that will come to it, or Shutdown would wait for ever *)
(* and the commit be lost.                                                 *)
(***************************************************************************)
THEOREM NoOrphanHolds == Spec => []NoOrphan
  <1>1. IndInv => NoOrphan
    BY DEF IndInv, SchedulerInv
  <1> QED
    BY <1>1, SpecIndInv, PTL

(***************************************************************************)
(* HandleCommit is called for each commit read, once per reading, those of *)
(* one repo one at a time and in the order of the log, and no connection   *)
(* begins before the last one's calls have ended: what Delivery says.      *)
(***************************************************************************)
THEOREM DeliversInOrderHolds == Spec => DeliversInOrder
  <1>1. Init => Promise!Init
    BY InitDelivers DEF Init
  <1>2. IndInv /\ [Next]_vars => [Promise!Next]_(Promise!vars)
    <2> SUFFICES ASSUME IndInv, [Next]_vars
                 PROVE  [Promise!Next]_(Promise!vars)
      OBVIOUS
    <2>1. FirehoseStep \/ UNCHANGED fhVars
      BY NextIsFirehoseStep DEF IndInv, vars
    <2> QED
      BY <2>1, StepDelivers DEF IndInv, TypeOK
  <1> QED
    BY <1>1, <1>2, SpecIndInv, PTL DEF Spec, DeliversInOrder, Promise!Spec
-----------------------------------------------------------------------------
(* Nothing is missed that was not missed before, or the step excused it. *)
LEMMA MissedMonotone ==
    ASSUME NoSilentLoss, excused \subseteq excused', Missed' \subseteq Missed \cup excused'
    PROVE  NoSilentLoss'
  BY DEF NoSilentLoss

(***************************************************************************)
(* One step of each kind keeps LossInv.  The cases that matter: leaving    *)
(* the connection, when the claim shrinks from what was read to the        *)
(* cursor; connecting without a cursor; a crash; and finishing a commit,   *)
(* which moves the cursor.                                                 *)
(***************************************************************************)
LEMMA RelayLossInv ==
    ASSUME IndInv, LossInv, Relay
    PROVE  CursorBehind' /\ OneWorkerBehindNone' /\ NoSilentLoss'
  <1> USE DEF IndInv, TypeOK, stream, scheduler, ghosts, procVars
  <1>1. PICK c \in Commit : Emit(c) /\ UNCHANGED <<procVars, cursor>>
    BY DEF Relay
  <1>2. InFlight' = InFlight
    BY <1>1, EmitInFlight
  <1>3. UNCHANGED <<session, pos, cursor, origin, handled, excused>>
    BY <1>1 DEF Emit
  <1> QED
    BY <1>2, <1>3 DEF LossInv, CursorBehind, OneWorkerBehindNone, NoSilentLoss,
       Missed, Frontier, Connected

(* Connecting: at the cursor nothing is skipped, without one it is excused. *)
LEMMA SubscribeLossInv ==
    ASSUME IndInv, LossInv, Subscribe
    PROVE  CursorBehind' /\ OneWorkerBehindNone' /\ NoSilentLoss'
  <1> USE DEF IndInv, TypeOK, stream, scheduler, ghosts, procVars
  <1>1. /\ session = "idle" /\ session' = "streaming"
        /\ UNCHANGED <<log, held, present, waiting, task, handled, cursor>>
        /\ ~Connected /\ Connected'
    BY DEF Subscribe, Connect, Connected
  <1>2. InFlight = {} /\ InFlight' = {}
    BY <1>1, NothingInFlight, InFlightUnchanged
  <1>3. cursor \in Nat /\ pos' \in Nat /\ cursor <= pos'
    BY DEF Subscribe, Connect, FirehoseTypeOK
  <1>4. NoSilentLoss'
    <2>1. CASE origin = Never
      <3>1. origin' = pos' /\ Frontier' = pos'
        BY <1>1, <2>1 DEF Subscribe, Connect, Frontier
      <3>2. Missed' = {}
        BY <1>3, <3>1 DEF Missed
      <3> QED
        BY <3>2 DEF NoSilentLoss
    <2>2. CASE origin # Never /\ cursor = 0
      <3>1. Missed' \subseteq 1..pos' /\ 1..pos' \subseteq excused'
        BY <1>1, <2>2 DEF Subscribe, Connect, Missed, Frontier
      <3> QED
        BY <3>1 DEF NoSilentLoss
    <2>3. CASE origin # Never /\ cursor # 0
      <3>1. Frontier' = Frontier /\ origin' = origin /\ excused' = excused
        BY <1>1, <1>3, <2>3 DEF Subscribe, Connect, Frontier
      <3>2. Missed' \subseteq Missed
        BY <1>1, <1>2, <3>1 DEF Missed
      <3> QED
        BY <3>1, <3>2, MissedMonotone DEF LossInv
    <2> QED
      BY <2>1, <2>2, <2>3
  <1> QED
    BY <1>1, <1>2, <1>3, <1>4 DEF CursorBehind, OneWorkerBehindNone

(* The scheduler and the cursor stay; the claim stays or shrinks. *)
LEMMA ConnectionLossInv ==
    ASSUME IndInv, LossInv,
           SubscribeFails \/ Reconnect \/ Disconnect \/ Shutdown
    PROVE  CursorBehind' /\ OneWorkerBehindNone' /\ NoSilentLoss'
  <1> USE DEF IndInv, TypeOK, stream, scheduler, ghosts, procVars
  <1>1. /\ UNCHANGED <<log, pos, held, present, waiting, task, origin, handled,
                       excused, cursor>>
        /\ Connected' => Connected
    BY DEF SubscribeFails, Reconnect, Disconnect, Shutdown, ConnectFails,
           BackoffOver, Drop, Drained, Connected
  <1>2. InFlight' = InFlight
    BY <1>1, InFlightUnchanged
  <1>3. pos \in Nat /\ cursor \in Nat /\ Frontier' <= Frontier
    BY <1>1 DEF LossInv, CursorBehind, Frontier, FirehoseTypeOK
  <1>4. Frontier \in Nat /\ Frontier' \in Nat
    BY <1>1, <1>3 DEF Frontier
  <1>5. Missed' \subseteq Missed
    BY <1>1, <1>2, <1>3, <1>4 DEF Missed
  <1>6. NoSilentLoss'
    BY <1>1, <1>5, MissedMonotone DEF LossInv
  <1> QED
    BY <1>1, <1>2, <1>6 DEF LossInv, CursorBehind, OneWorkerBehindNone

(* Reading: the commit the frontier passes is in flight. *)
LEMMA ReadLossInv ==
    ASSUME IndInv, LossInv, ReadCommit
    PROVE  CursorBehind' /\ OneWorkerBehindNone' /\ NoSilentLoss'
  <1> USE DEF IndInv, TypeOK, procVars
  <1>1. /\ session = "streaming" /\ session' = session /\ pos' = pos + 1
        /\ handled' = handled \ {pos'}
        /\ UNCHANGED <<log, origin, excused, cursor>>
        /\ Connected /\ Connected'
    BY DEF ReadCommit, Read, Connected
  <1>2. InFlight' = InFlight \cup {pos'}
    BY ReadInFlight DEF ReadCommit
  <1>3. cursor \in Nat /\ pos \in Nat /\ cursor <= pos
    BY <1>1 DEF LossInv, CursorBehind, FirehoseTypeOK
  <1>4. Missed' \subseteq Missed
    BY <1>1, <1>2, <1>3 DEF Missed, Frontier
  <1>5. NoSilentLoss'
    BY <1>1, <1>4, MissedMonotone DEF LossInv
  <1>6. cursor' < pos' /\ cursor' <= pos'
    BY <1>1, <1>3
  <1> QED
    BY <1>1, <1>2, <1>5, <1>6 DEF LossInv, CursorBehind, OneWorkerBehindNone

(* A crash costs what was in flight, unless the cursor is still behind it. *)
LEMMA CrashLossInv ==
    ASSUME IndInv, LossInv, Crash
    PROVE  CursorBehind' /\ OneWorkerBehindNone' /\ NoSilentLoss'
  <1> USE DEF IndInv, TypeOK, procVars
  <1>1. /\ ~Connected' /\ excused \subseteq excused'
        /\ Cardinality(Worker) = 1 \/ excused' = excused \cup InFlight
        /\ UNCHANGED <<log, origin, handled, cursor>>
    BY DEF Crash, Restart, Connected
  <1>2. InFlight' = {}
    BY DEF Crash, Restart, InFlight, Nothing
  <1>3. /\ cursor \in Nat /\ Frontier \in Nat /\ cursor <= Frontier
        /\ Frontier' = cursor
    BY <1>1 DEF LossInv, CursorBehind, Frontier, FirehoseTypeOK
  <1>4. Missed' \subseteq Missed \cup excused'
    <2>1. Missed' \subseteq Missed \cup {s \in InFlight : s <= cursor}
      BY <1>1, <1>2, <1>3 DEF Missed
    <2>2. CASE Cardinality(Worker) = 1
      <3>1. \A s \in InFlight : cursor < s
        BY <2>2 DEF LossInv, OneWorkerBehindNone
      <3>2. \A s \in InFlight : s \in Nat
        BY DEF InFlight, FirehoseTypeOK
      <3>3. {s \in InFlight : s <= cursor} = {}
        BY <1>3, <3>1, <3>2
      <3> QED
        BY <2>1, <3>3
    <2>3. CASE Cardinality(Worker) # 1
      BY <1>1, <2>1, <2>3
    <2> QED
      BY <2>2, <2>3
  <1>5. NoSilentLoss'
    BY <1>1, <1>4, MissedMonotone DEF LossInv
  <1> QED
    BY <1>1, <1>2, <1>5 DEF CursorBehind, OneWorkerBehindNone

(* A worker takes the held commit: it stays in flight. *)
LEMMA StartLossInv ==
    ASSUME IndInv, LossInv, NEW w \in Worker, StartCommit(w)
    PROVE  CursorBehind' /\ OneWorkerBehindNone' /\ NoSilentLoss'
  <1> USE DEF IndInv, TypeOK, stream, ghosts, procVars
  <1>1. UNCHANGED <<session, pos, origin, handled, excused, cursor>>
    BY DEF StartCommit, Dispatch
  <1>2. InFlight' = InFlight
    BY DispatchInFlight DEF StartCommit
  <1> QED
    BY <1>1, <1>2 DEF LossInv, CursorBehind, OneWorkerBehindNone, NoSilentLoss,
       Missed, Frontier, Connected

(* With one worker there is one name for it. *)
LEMMA SingleWorker ==
    ASSUME Cardinality(Worker) = 1, NEW w \in Worker
    PROVE  Worker = {w}
  BY FirehoseAssumption, FS_Singleton

(* A single worker finishes a commit that comes after the cursor. *)
LEMMA TaskAfterCursor ==
    ASSUME IndInv, LossInv, NEW w \in Worker, task[w] # Nothing,
           Cardinality(Worker) = 1
    PROVE  cursor < task[w]
  BY InTheLog DEF IndInv, TypeOK, LossInv, OneWorkerBehindNone, InFlight

(* Finishing: the commit leaves the scheduler handled, the cursor on it. *)
LEMMA HandleLossInv ==
    ASSUME IndInv, LossInv, NEW w \in Worker, NEW ok \in BOOLEAN,
           HandleCommit(w, ok)
    PROVE  CursorBehind' /\ OneWorkerBehindNone' /\ NoSilentLoss'
  <1> USE DEF IndInv, TypeOK, stream
  <1>1. /\ task[w] # Nothing /\ handled' = handled \cup {task[w]}
        /\ cursor' \in {cursor, task[w]}
        /\ UNCHANGED <<log, session, pos, origin, excused>>
    BY DEF HandleCommit, Finish, UpsertCursor
  <1>2. /\ InFlight \ {task[w]} \subseteq InFlight'
        /\ InFlight' \subseteq InFlight
        /\ task[w] \notin InFlight'
    BY FinishInFlight DEF HandleCommit
  <1>3. Connected /\ Connected'
    BY <1>1 DEF LossInv, SchedulerInv, EmptyUnlessConnected, SchedulerEmpty, Connected
  <1>4. task[w] <= pos
    BY DEF LossInv, SchedulerInv, AlreadyRead
  <1>5. CursorBehind'
    BY <1>1, <1>3, <1>4 DEF LossInv, CursorBehind
  <1>6. OneWorkerBehindNone'
    <2>1. SUFFICES ASSUME Cardinality(Worker) = 1, NEW s \in InFlight'
                   PROVE  cursor' < s
      BY DEF OneWorkerBehindNone
    <2>2. s \in InFlight /\ s # task[w]
      BY <1>2
    <2>3. task[w] < s
      BY <1>1, <2>1, <2>2, SingleWorker, SingleWorkerOldest
    <2>4. cursor < s
      BY <2>1, <2>2 DEF LossInv, OneWorkerBehindNone
    <2> QED
      BY <1>1, <2>3, <2>4
  <1>7. Missed' \subseteq Missed
    BY <1>1, <1>2, <1>3 DEF Missed, Frontier
  <1>8. NoSilentLoss'
    BY <1>1, <1>7, MissedMonotone DEF LossInv
  <1> QED
    BY <1>5, <1>6, <1>8

(* Every step of the program keeps LossInv. *)
LEMMA NextLossInv == IndInv /\ LossInv /\ [Next]_vars => LossInv'
  <1> SUFFICES ASSUME IndInv, LossInv, [Next]_vars PROVE LossInv'
    OBVIOUS
  <1>1. SchedulerInv'
    BY NextIndInv DEF IndInv
  <1>2. ASSUME UNCHANGED <<fhVars, cursor>>
        PROVE  CursorBehind' /\ OneWorkerBehindNone' /\ NoSilentLoss'
    <2>1. InFlight' = InFlight
      BY <1>2, InFlightUnchanged DEF fhVars, scheduler
    <2> QED
      BY <1>2, <2>1 DEF LossInv, CursorBehind, OneWorkerBehindNone, NoSilentLoss,
         Missed, Frontier, Connected, fhVars, stream, ghosts
  <1>3. CursorBehind' /\ OneWorkerBehindNone' /\ NoSilentLoss'
    <2>1. CASE UNCHANGED vars
      BY <1>2, <2>1 DEF vars
    <2>2. CASE \E w \in Worker, ok \in BOOLEAN : ProcessEvent(w, ok)
      BY <1>2, <2>2 DEF ProcessEvent
    <2>3. CASE \E w \in Worker, ok \in BOOLEAN : HandleCommit(w, ok)
      BY <2>3, HandleLossInv
    <2>4. CASE \E w \in Worker : StartCommit(w)
      BY <2>4, StartLossInv
    <2> QED
      BY <2>1, <2>2, <2>3, <2>4, RelayLossInv, SubscribeLossInv,
         ConnectionLossInv, ReadLossInv, CrashLossInv DEF Next
  <1> QED
    BY <1>1, <1>3 DEF LossInv

(* Nothing is missed before the first connection. *)
LEMMA InitLossInv == Init => LossInv
  <1> SUFFICES ASSUME Init PROVE LossInv
    OBVIOUS
  <1>1. SchedulerInv
    BY InitIndInv DEF IndInv
  <1>2. ~Connected /\ cursor = 0
    BY DEF Init, FirehoseInit, Connected, NoCursor
  <1>3. InFlight = {}
    BY <1>1, <1>2, NothingInFlight
  <1>4. Missed = {}
    BY <1>2 DEF Missed, Frontier
  <1> QED
    BY <1>1, <1>2, <1>3, <1>4 DEF LossInv, CursorBehind, OneWorkerBehindNone,
       NoSilentLoss

(* Hence it holds throughout. *)
LEMMA SpecLossInv == Spec => []LossInv
  BY InitLossInv, NextLossInv, SpecIndInv, PTL DEF Spec

(***************************************************************************)
(* The program moves past no commit that it has not handled or is not      *)
(* handling, but for a reconnection without a cursor and for a crash with  *)
(* several workers.                                                        *)
(***************************************************************************)
THEOREM NoSilentLossHolds == Spec => []NoSilentLoss
  <1>1. LossInv => NoSilentLoss
    BY DEF LossInv
  <1> QED
    BY <1>1, SpecLossInv, PTL

(* A single worker never moves the cursor back. *)
THEOREM CursorMonotoneHolds == Spec => CursorMonotone
  <1>1. ASSUME IndInv, LossInv, [Next]_vars
        PROVE  [Cardinality(Worker) = 1 => cursor' >= cursor]_vars
    <2>1. cursor \in Nat
      BY <1>1 DEF IndInv, TypeOK, FirehoseTypeOK
    <2>2. CASE cursor' = cursor
      BY <2>1, <2>2
    <2>3. CASE cursor' # cursor
      <3>1. PICK w \in Worker, ok \in BOOLEAN : HandleCommit(w, ok)
        BY <1>1, <2>3 DEF Next, vars, procVars, Relay, Subscribe, SubscribeFails,
           Reconnect, ReadCommit, Disconnect, Shutdown, Crash, StartCommit,
           ProcessEvent
      <3>2. task[w] # Nothing /\ cursor' = task[w] /\ task[w] \in Nat
        BY <1>1, <2>3, <3>1 DEF HandleCommit, UpsertCursor, IndInv, TypeOK,
           FirehoseTypeOK
      <3>3. Cardinality(Worker) = 1 => cursor < task[w]
        BY <1>1, <3>2, TaskAfterCursor
      <3> QED
        BY <2>1, <3>2, <3>3
    <2> QED
      BY <2>2, <2>3
  <1> QED
    BY <1>1, SpecIndInv, SpecLossInv, PTL DEF Spec, CursorMonotone

-----------------------------------------------------------------------------
(* What is in flight was read, by a connection that is still there. *)
LEMMA InFlightRead ==
    ASSUME IndInv
    PROVE  /\ Reach \in 0..Len(log) /\ Len(log) \in Nat
           /\ pos \in 0..Len(log) /\ cursor \in 0..Len(log)
           /\ InFlight \subseteq 1..pos
           /\ InFlight # {} => Connected /\ Reach = pos
           /\ \A w \in Worker : task[w] # Nothing => task[w] \in InFlight
  BY FlightRead DEF IndInv, TypeOK, FirehoseTypeOK, Reach

(* Of the commit a worker has, what is left is what it did not pass. *)
LEMMA LeftOfTask ==
    ASSUME IndInv, NEW w \in Worker, task[w] # Nothing,
           NEW p \in Places(log), p[1] = task[w]
    PROVE  p \in Left <=> ~Passed(at[w], log, p)
  <1>1. task[w] \in InFlight /\ task[w] <= Reach /\ task[w] \in Nat /\ Reach \in Nat
    BY InFlightRead
  <1>2. \A v \in Worker : task[v] = p[1] => v = w
    BY OnePlace DEF IndInv, TypeOK
  <1> QED
    BY <1>1, <1>2 DEF Left

(***************************************************************************)
(* Once a place of a post is left, so are those after it: their commits    *)
(* were not read, or are in flight behind that one.                        *)
(***************************************************************************)
LEMMA LeftClosed ==
    ASSUME IndInv, CommitsInv, NEW uri \in Uri,
           NEW p \in Effective(log, uri, origin),
           p \in Left \/ \E w \in Worker : task[w] = p[1], NEW bad
    PROVE  Followed(log, uri, origin, p, Left, bad)
  <1> SUFFICES ASSUME NEW q \in Effective(log, uri, origin), p[1] < q[1]
               PROVE  q \in Left
    BY DEF Followed
  <1>1. /\ p[1] \in 1..Len(log) /\ q[1] \in 1..Len(log) /\ q \in Places(log)
        /\ RepoOf(p[1]) = RepoOf(q[1])
    BY EffectivePlace DEF IndInv, TypeOK
  <1>2. Reach \in Nat /\ pos \in Nat
    BY InFlightRead
  <1>3. CASE q[1] > Reach
    BY <1>1, <1>3 DEF Left
  <1>4. CASE ~(q[1] > Reach)
    <2>1. p[1] \in InFlight
      <3>1. CASE p \in Left
        BY <1>1, <1>2, <1>4, <3>1 DEF Left
      <3>2. CASE \E w \in Worker : task[w] = p[1]
        BY <1>1, <3>2, InFlightRead DEF Nothing
      <3> QED
        BY <3>1, <3>2
    <2>2. Connected /\ Reach = pos
      BY <2>1, InFlightRead
    <2>3. q[1] \in InFlight
      BY <1>1, <1>2, <1>4, <2>1, <2>2 DEF CommitsInv, NoGap
    <2>4. ASSUME NEW w \in Worker, task[w] = q[1] PROVE FALSE
      <3>1. task[w] <= p[1]
        BY <1>1, <2>1, <2>4, TaskOldest DEF Nothing, IndInv, TypeOK
      <3> QED
        BY <1>1, <2>4, <3>1
    <2> QED
      BY <1>1, <2>3, <2>4 DEF Left
  <1> QED
    BY <1>3, <1>4

(* The origin is there before anything is in flight. *)
LEMMA OriginOfFlight ==
    ASSUME IndInv, CommitsInv, NEW s \in InFlight
    PROVE  /\ Connected /\ origin # Never /\ origin \in 0..Len(log)
           /\ origin < s /\ s \in 1..Len(log) /\ s <= pos
  BY InFlightRead DEF CommitsInv, AfterOrigin

(* With the same scheduler and connection, all is as it was. *)
LEMMA SameCommits ==
    ASSUME ConvergenceInv,
           UNCHANGED <<log, pos, held, present, waiting, task, origin, handled,
                       cursor, posts, at, failed>>,
           Connected' <=> Connected, SchedulerInv'
    PROVE  ConvergenceInv'
  <1>1. InFlight' = InFlight
    BY InFlightUnchanged
  <1>2. Reach' = Reach
    BY DEF Reach
  <1>3. GivenUp' = GivenUp /\ Left' = Left
    BY <1>1, <1>2 DEF GivenUp, Left
  <1>4. RowsOnTrack'
    BY <1>3 DEF ConvergenceInv, RowsOnTrack
  <1>5. CursorBehind' /\ NoGap' /\ GivenUpForGood' /\ HandledRead' /\ IdleAtStart'
    BY <1>1, <1>3 DEF ConvergenceInv, CommitsInv, CursorBehind, NoGap, GivenUpForGood,
       HandledRead, IdleAtStart, RepoOf
  <1>6. AfterOrigin'
    BY <1>1 DEF ConvergenceInv, CommitsInv, AfterOrigin
  <1> QED
    BY <1>4, <1>5, <1>6 DEF ConvergenceInv, CommitsInv

(* Rows stay on track while nothing is done to them or no longer left. *)
LEMMA SameRows ==
    ASSUME IndInv, ConvergenceInv,
           UNCHANGED <<log, origin, posts, failed>>,
           GivenUp \subseteq GivenUp',
           \A uri \in Uri : \A p \in Effective(log, uri, origin) \cap Left :
               p \in Left' \/ p[1] \in GivenUp'
    PROVE  RowsOnTrack'
  <1> SUFFICES ASSUME origin # Never, NEW uri \in Uri
               PROVE  OnTrack(posts[uri], log, uri, origin, Left', GivenUp' \cup failed)
    BY DEF RowsOnTrack
  <1>1. OnTrack(posts[uri], log, uri, origin, Left, GivenUp \cup failed)
    BY DEF ConvergenceInv, RowsOnTrack
  <1>2. ASSUME NEW p \in Effective(log, uri, origin) \cap Left
        PROVE  /\ p \in Left' \/ p[1] \in GivenUp' \cup failed
               /\ Followed(log, uri, origin, p, Left, GivenUp \cup failed)
    BY LeftClosed DEF ConvergenceInv
  <1>3. log \in Seq(Commit)
    BY DEF IndInv, TypeOK, FirehoseTypeOK
  <1> QED
    BY <1>1, <1>2, <1>3, StaysOnTrack

-----------------------------------------------------------------------------
(***************************************************************************)
(* One step of each kind keeps ConvergenceInv.  A new commit is left, or   *)
(* given up at once by a program that will join at the end of the log.     *)
(***************************************************************************)
LEMMA RelayConverges ==
    ASSUME IndInv, ConvergenceInv, Relay, SchedulerInv'
    PROVE  ConvergenceInv'
  <1> USE DEF IndInv, TypeOK, ConvergenceInv, CommitsInv
  <1> DEFINE n == Len(log) + 1
  <1>1. PICK c \in Commit : Emit(c) /\ UNCHANGED <<procVars, cursor>>
    BY DEF Relay
  <1>2. /\ UNCHANGED <<session, pos, task, origin, handled, cursor, posts, at, failed>>
        /\ Connected' <=> Connected
    BY <1>1 DEF Emit, stream, scheduler, ghosts, procVars, Connected
  <1>3. InFlight' = InFlight
    BY <1>1, EmitInFlight
  <1>4. /\ log' \in Seq(Commit) /\ Len(log') = n /\ n \in Nat /\ Len(log) \in Nat
        /\ \A s \in 1..Len(log) : log'[s] = log[s]
    BY <1>1, EmitAppends
  <1>5. /\ Reach \in 0..Len(log) /\ pos \in 0..Len(log) /\ cursor \in 0..Len(log)
        /\ InFlight \subseteq 1..pos /\ handled \subseteq 1..Len(log)
        /\ InFlight # {} => Connected /\ Reach = pos
    BY InFlightRead DEF HandledRead
  <1>6. \/ Reach' = Reach
        \/ ~Connected /\ cursor = NoCursor /\ Reach = Len(log) /\ Reach' = n
    BY <1>2, <1>4, <1>5 DEF Reach, NoCursor
  <1>7. GivenUp \subseteq GivenUp'
    BY <1>2, <1>3, <1>4, <1>5, <1>6 DEF GivenUp
  <1>8. GivenUpForGood'
    <2>1. CASE Reach' = Reach
      <3>1. GivenUp' = GivenUp
        BY <1>2, <1>3, <2>1 DEF GivenUp
      <3> QED
        BY <1>2, <1>3, <3>1 DEF GivenUpForGood
    <2>2. CASE ~Connected /\ cursor = NoCursor
      BY <1>2, <1>3, <1>5, <2>2 DEF GivenUpForGood
    <2> QED
      BY <1>6, <2>1, <2>2
  <1>9. NoGap'
    BY <1>2, <1>3, <1>4, <1>5 DEF NoGap, RepoOf
  <1>10. CursorBehind' /\ HandledRead' /\ IdleAtStart'
    BY <1>2, <1>3, <1>4, <1>5 DEF CursorBehind, HandledRead, IdleAtStart
  <1>11. AfterOrigin'
    BY <1>2, <1>3, <1>4 DEF AfterOrigin
  <1>12. RowsOnTrack'
    <2> SUFFICES ASSUME origin # Never, NEW uri \in Uri
                 PROVE  OnTrack(posts[uri], log', uri, origin,
                                Left', GivenUp' \cup failed)
      BY <1>2 DEF RowsOnTrack
    <2>1. OnTrack(posts[uri], log, uri, origin, Left, GivenUp \cup failed)
      BY DEF RowsOnTrack
    <2>2. ASSUME NEW p \in Effective(log, uri, origin) \cap Left PROVE p \in Left'
      <3>1. p \in PlacesOf(log, uri) /\ p[1] \in 1..Len(log)
        BY EffectivePlace DEF Effective
      <3>2. /\ p \in PlacesOf(log', uri)
            /\ OpAt(log', p) = OpAt(log, p) /\ SelectingAt(log', p) = SelectingAt(log, p)
        <4>1. log \in Seq(Commit)
          BY DEF FirehoseTypeOK
        <4>2. /\ PlacesOf(log, uri) \subseteq PlacesOf(log', uri)
              /\ \A q \in PlacesOf(log', uri) \ PlacesOf(log, uri) :
                     q[1] = Len(log) + 1
              /\ \A q \in PlacesOf(log, uri) :
                     /\ OpAt(log', q) = OpAt(log, q)
                     /\ SelectingAt(log', q) = SelectingAt(log, q)
                     /\ q \in Effective(log', uri, origin)
                            <=> q \in Effective(log, uri, origin)
          BY <1>4, <4>1, GrownPlaces
        <4> QED
          BY <3>1, <4>2
      <3>3. \A w \in Worker : Passed(at[w], log', p) <=> Passed(at[w], log, p)
        BY <3>2 DEF Passed
      <3>4. p \in Places(log')
        BY <3>2 DEF PlacesOf
      <3>5. CASE p[1] > Reach
        <4>1. p[1] > Reach'
          BY <1>5, <1>6, <3>1, <3>5
        <4> QED
          BY <3>4, <4>1 DEF Left
      <3>6. CASE ~(p[1] > Reach)
        BY <1>2, <1>3, <3>3, <3>4, <3>6 DEF Left
      <3> QED
        BY <3>5, <3>6
    <2>3. ASSUME NEW p \in Effective(log', uri, origin), p[1] = n
          PROVE  p \in Left' \/ p[1] \in GivenUp' \cup failed
      <3>1. p \in Places(log') /\ p[1] > origin
        BY DEF Effective, PlacesOf
      <3>2. CASE Reach' = Reach
        BY <1>4, <1>5, <2>3, <3>1, <3>2 DEF Left
      <3>3. CASE ~Connected /\ Reach' = n
        BY <1>2, <1>3, <1>4, <1>5, <2>3, <3>1, <3>3 DEF GivenUp
      <3> QED
        BY <1>6, <3>2, <3>3
    <2>4. log \in Seq(Commit)
      BY DEF FirehoseTypeOK
    <2> QED
      BY <1>4, <1>7, <2>1, <2>2, <2>3, <2>4, GrownOnTrack
  <1> QED
    BY <1>2, <1>8, <1>9, <1>10, <1>11, <1>12

(* The first connection finds nothing to do; others go on from Reach. *)
LEMMA SubscribeConverges ==
    ASSUME IndInv, ConvergenceInv, Subscribe, SchedulerInv'
    PROVE  ConvergenceInv'
  <1> USE DEF IndInv, TypeOK, ConvergenceInv, CommitsInv
  <1>1. /\ ~Connected /\ Connected'
        /\ pos' = IF cursor > 0 THEN cursor ELSE Len(log)
        /\ origin' = IF origin = Never THEN pos' ELSE origin
        /\ UNCHANGED <<log, held, present, waiting, task, handled, cursor,
                       posts, at, failed>>
    BY DEF Subscribe, Connect, Connected, scheduler, procVars
  <1>2. InFlight = {} /\ InFlight' = {}
    BY <1>1, NothingInFlight, InFlightUnchanged
  <1>3. /\ cursor \in 0..Len(log) /\ Len(log) \in Nat
        /\ Reach' = Reach /\ pos' = Reach /\ Reach \in 0..Len(log)
    BY <1>1, InFlightRead DEF Reach
  <1>4. CursorBehind' /\ NoGap' /\ IdleAtStart'
    BY <1>1, <1>2, <1>3 DEF CursorBehind, NoGap, IdleAtStart
  <1>5. HandledRead'
    BY <1>1, <1>2 DEF HandledRead, NoCursor
  <1>6. CASE origin # Never
    <2>1. origin' = origin
      BY <1>1, <1>6
    <2>2. GivenUp' = GivenUp /\ Left' = Left
      BY <1>1, <1>2, <1>3, <2>1 DEF GivenUp, Left
    <2>3. GivenUpForGood'
      BY <1>1, <1>2, <2>2 DEF GivenUpForGood
    <2>4. AfterOrigin'
      BY <1>1, <1>2, <1>3, <1>6, <2>1 DEF AfterOrigin, NoCursor
    <2>5. RowsOnTrack'
      BY <1>1, <2>1, <2>2 DEF RowsOnTrack
    <2> QED
      BY <1>4, <1>5, <2>3, <2>4, <2>5
  <1>7. CASE origin = Never
    <2>1. cursor = NoCursor /\ \A uri \in Uri : posts[uri] = NoRow
      BY <1>7 DEF AfterOrigin
    <2>2. origin' = Len(log) /\ pos' = Len(log)
      BY <1>1, <1>7, <2>1 DEF NoCursor
    <2>3. GivenUp' = {}
      BY <1>1, <1>3, <2>2 DEF GivenUp
    <2>4. GivenUpForGood' /\ AfterOrigin'
      BY <1>1, <1>2, <1>3, <2>1, <2>2, <2>3 DEF GivenUpForGood, AfterOrigin, Never
    <2>5. RowsOnTrack'
      <3> SUFFICES ASSUME NEW uri \in Uri
                   PROVE  OnTrack(posts[uri], log, uri, Len(log),
                                  Left', GivenUp' \cup failed)
        BY <1>1, <2>2 DEF RowsOnTrack
      <3>1. Effective(log, uri, Len(log)) = {}
        <4>1. \A p \in PlacesOf(log, uri) : p[1] \in 1..Len(log)
          BY PlacesOfPost DEF FirehoseTypeOK
        <4> QED
          BY <1>3, <4>1 DEF Effective
      <3>2. Kept(log, uri, Len(log)) = {}
        BY <3>1 DEF Kept
      <3> QED
        BY <2>1, <3>2 DEF OnTrack
    <2> QED
      BY <1>4, <1>5, <2>4, <2>5
  <1> QED
    BY <1>6, <1>7

(***************************************************************************)
(* A connection ends, or the process dies: the commits that were counted   *)
(* on are past the new reach, or given up.                                 *)
(***************************************************************************)
LEMMA DisconnectedConverges ==
    ASSUME IndInv, ConvergenceInv,
           UNCHANGED <<log, origin, handled, cursor, posts, failed>>,
           ~Connected', InFlight' = {}, IdleAtStart', SchedulerInv'
    PROVE  ConvergenceInv'
  <1> USE DEF IndInv, TypeOK, ConvergenceInv, CommitsInv
  <1>1. /\ Reach \in 0..Len(log) /\ Len(log) \in Nat
        /\ pos \in 0..Len(log) /\ cursor \in 0..Len(log)
    BY InFlightRead
  <1>2. Reach' = IF cursor > 0 THEN cursor ELSE Len(log)
    BY DEF Reach
  <1>3. CursorBehind' /\ NoGap' /\ GivenUpForGood'
    BY <1>1, <1>2 DEF CursorBehind, NoGap, GivenUpForGood, GivenUp, NoCursor
  <1>4. HandledRead' /\ AfterOrigin'
    BY DEF HandledRead, AfterOrigin
  <1>5. GivenUp \subseteq GivenUp'
    BY <1>1, <1>2 DEF GivenUpForGood, GivenUp, NoCursor
  <1>6. ASSUME NEW uri \in Uri, NEW p \in Effective(log, uri, origin) \cap Left
        PROVE  p \in Left' \/ p[1] \in GivenUp'
    <2>1. p \in Places(log) /\ p[1] \in 1..Len(log) /\ p[1] > origin
      BY EffectivePlace
    <2>2. CASE p[1] > Reach'
      BY <2>1, <2>2 DEF Left
    <2>3. CASE ~(p[1] > Reach')
      <3>1. p[1] \in 1..Reach'
        BY <1>1, <1>2, <2>1, <2>3
      <3>2. p[1] \notin handled
        <4>1. CASE p[1] \in InFlight
          BY <4>1 DEF HandledRead
        <4>2. CASE p[1] \notin InFlight
          <5>1. p[1] > Reach
            BY <1>6, <4>2 DEF Left
          <5>2. Connected /\ cursor = NoCursor /\ Reach = pos
            BY <1>1, <1>2, <2>1, <2>3, <5>1 DEF Reach, CursorBehind, NoCursor
          <5>3. handled \subseteq 1..pos
            BY <5>2 DEF HandledRead
          <5> QED
            BY <1>1, <2>1, <5>1, <5>2, <5>3
        <4> QED
          BY <4>1, <4>2
      <3> QED
        BY <2>1, <3>1, <3>2 DEF GivenUp
    <2> QED
      BY <2>2, <2>3
  <1>7. RowsOnTrack'
    BY <1>5, <1>6, SameRows
  <1> QED
    BY <1>3, <1>4, <1>7

(* The steps of the connection that end it or leave it as it is. *)
LEMMA ConnectionConverges ==
    ASSUME IndInv, ConvergenceInv, SchedulerInv',
           SubscribeFails \/ Reconnect \/ Disconnect \/ Shutdown
    PROVE  ConvergenceInv'
  <1>1. UNCHANGED <<log, pos, held, present, waiting, task, origin, handled,
                    cursor, posts, at, failed>>
    BY DEF SubscribeFails, Reconnect, Disconnect, Shutdown, ConnectFails,
           BackoffOver, Drop, Drained, scheduler, ghosts, procVars
  <1>2. CASE Connected' <=> Connected
    BY <1>1, <1>2, SameCommits
  <1>3. CASE ~(Connected' <=> Connected)
    <2>1. ~Connected'
      BY <1>3 DEF SubscribeFails, Reconnect, Disconnect, Shutdown, ConnectFails,
           BackoffOver, Drop, Drained, Connected
    <2>2. InFlight' = {}
      <3>1. ASSUME SchedulerInv, ~Connected PROVE InFlight = {}
        BY <3>1, NothingInFlight
      <3>2. \A r \in Repo : waiting'[r] = <<>>
        BY <2>1 DEF SchedulerInv, EmptyUnlessConnected
      <3>3. SchedulerEmpty'
        BY <2>1 DEF SchedulerInv, EmptyUnlessConnected
      <3> QED
        BY <3>2, <3>3 DEF InFlight, SchedulerEmpty, Nothing
    <2>3. IdleAtStart'
      BY <1>1 DEF ConvergenceInv, CommitsInv, IdleAtStart
    <2> QED
      BY <1>1, <2>1, <2>2, <2>3, DisconnectedConverges
  <1> QED
    BY <1>2, <1>3

(* A crash ends the connection, if there is one. *)
LEMMA CrashConverges ==
    ASSUME IndInv, ConvergenceInv, Crash, SchedulerInv'
    PROVE  ConvergenceInv'
  <1>1. /\ ~Connected' /\ UNCHANGED <<log, origin, handled, cursor, posts, failed>>
    BY DEF Crash, Restart, Connected
  <1>2. InFlight' = {}
    BY DEF Crash, Restart, InFlight, Nothing
  <1>3. IdleAtStart'
    BY DEF Crash, IdleAtStart
  <1> QED
    BY <1>1, <1>2, <1>3, DisconnectedConverges

(* Reading: the commit read is in flight, and nothing of it is done yet. *)
LEMMA ReadConverges ==
    ASSUME IndInv, ConvergenceInv, ReadCommit, SchedulerInv'
    PROVE  ConvergenceInv'
  <1> USE DEF IndInv, TypeOK, ConvergenceInv, CommitsInv
  <1>1. /\ Connected /\ Connected' /\ pos' = pos + 1 /\ pos < Len(log)
        /\ handled' = handled \ {pos'}
        /\ UNCHANGED <<log, task, origin, cursor, posts, at, failed>>
    BY DEF ReadCommit, Read, Connected, procVars
  <1>2. InFlight' = InFlight \cup {pos'}
    BY ReadInFlight DEF ReadCommit
  <1>3. /\ pos \in 0..Len(log) /\ Len(log) \in Nat /\ cursor \in 0..Len(log)
        /\ InFlight \subseteq 1..pos /\ Reach = pos /\ Reach' = pos'
        /\ cursor <= pos
    BY <1>1, InFlightRead DEF Reach, CursorBehind
  <1>4. CursorBehind' /\ IdleAtStart'
    BY <1>1, <1>3 DEF CursorBehind, IdleAtStart
  <1>5. NoGap'
    <2> SUFFICES ASSUME NEW s \in InFlight', NEW t \in s..pos',
                        RepoOf(t) = RepoOf(s)
                 PROVE  t \in InFlight'
      BY <1>1 DEF NoGap, RepoOf
    <2>1. CASE t = pos'
      BY <1>2, <2>1
    <2>2. CASE t # pos'
      <3>1. s \in 1..pos' /\ t \in s..pos
        BY <1>1, <1>2, <1>3, <2>2
      <3>2. s \in InFlight
        BY <1>1, <1>2, <1>3, <3>1
      <3> QED
        BY <1>2, <3>1, <3>2 DEF NoGap
    <2> QED
      BY <2>1, <2>2
  <1>6. GivenUp' = GivenUp /\ \A s \in GivenUp : s < pos'
    BY <1>1, <1>2, <1>3 DEF GivenUp
  <1>7. GivenUpForGood'
    BY <1>1, <1>2, <1>6 DEF GivenUpForGood
  <1>8. HandledRead'
    BY <1>1, <1>2, <1>3 DEF HandledRead
  <1>9. AfterOrigin'
    BY <1>1, <1>2, <1>3 DEF AfterOrigin
  <1>10. Left \subseteq Left'
    <2> SUFFICES ASSUME NEW p \in Left PROVE p \in Left'
      OBVIOUS
    <2>1. p \in Places(log) /\ p[1] \in 1..Len(log)
      BY DEF Left, Places
    <2>2. CASE p[1] > pos'
      BY <1>1, <1>3, <2>1, <2>2 DEF Left
    <2>3. CASE p[1] = pos'
      <3>1. \A w \in Worker : task[w] # p[1]
        BY <1>1, <1>3, <2>3 DEF SchedulerInv, AlreadyRead, FirehoseTypeOK
      <3> QED
        BY <1>1, <1>2, <2>1, <2>3, <3>1 DEF Left
    <2>4. CASE p[1] < pos'
      BY <1>1, <1>2, <1>3, <2>1, <2>4 DEF Left
    <2> QED
      BY <1>1, <1>3, <2>1, <2>2, <2>3, <2>4
  <1>11. RowsOnTrack'
    BY <1>1, <1>6, <1>10, SameRows
  <1> QED
    BY <1>4, <1>5, <1>7, <1>8, <1>9, <1>11

(* A worker takes the held commit, of which nothing is passed. *)
LEMMA StartConverges ==
    ASSUME IndInv, ConvergenceInv, NEW w \in Worker, StartCommit(w), SchedulerInv'
    PROVE  ConvergenceInv'
  <1> USE DEF IndInv, TypeOK, ConvergenceInv, CommitsInv
  <1>1. /\ held # Nothing /\ task[w] = Nothing
        /\ task' = [task EXCEPT ![w] = held]
        /\ UNCHANGED <<log, session, pos, origin, handled, cursor, posts, at, failed>>
        /\ Connected' <=> Connected
    BY DEF StartCommit, Dispatch, stream, ghosts, procVars, Connected
  <1>2. InFlight' = InFlight
    BY DispatchInFlight DEF StartCommit
  <1>3. Reach' = Reach /\ GivenUp' = GivenUp
    BY <1>1, <1>2 DEF Reach, GivenUp
  <1>4. CursorBehind' /\ NoGap' /\ GivenUpForGood' /\ HandledRead' /\ AfterOrigin'
    BY <1>1, <1>2, <1>3 DEF CursorBehind, NoGap, GivenUpForGood, HandledRead,
       AfterOrigin, RepoOf
  <1>5. IdleAtStart' /\ at[w] = Start
    BY <1>1 DEF IdleAtStart, FirehoseTypeOK
  <1>6. Left \subseteq Left'
    <2> SUFFICES ASSUME NEW p \in Left PROVE p \in Left'
      OBVIOUS
    <2>1. p \in Places(log)
      BY DEF Left
    <2>2. \A v \in Worker : task'[v] = p[1] => ~Passed(at[v], log, p)
      <3> SUFFICES ASSUME NEW v \in Worker, task'[v] = p[1]
                   PROVE  ~Passed(at[v], log, p)
        OBVIOUS
      <3>1. CASE v = w
        BY <1>5, <2>1, <3>1, NothingPassed
      <3>2. CASE v # w
        <4>1. task[v] = p[1] /\ p[1] \in 1..Len(log)
          BY <1>1, <2>1, <3>2 DEF FirehoseTypeOK, Places
        <4>2. task[v] \in InFlight /\ Reach = pos /\ pos \in Nat /\ task[v] <= pos
          BY <4>1, InFlightRead DEF Nothing
        <4> QED
          BY <4>1, <4>2 DEF Left
      <3> QED
        BY <3>1, <3>2
    <2> QED
      BY <1>1, <1>2, <1>3, <2>2 DEF Left
  <1>7. RowsOnTrack'
    BY <1>1, <1>3, <1>6, SameRows
  <1> QED
    BY <1>4, <1>5, <1>7

(* A step of ProcessEvent: the worker's commit is the oldest of its repo. *)
LEMMA ProcessConverges ==
    ASSUME IndInv, ConvergenceInv, NEW w \in Worker, NEW ok \in BOOLEAN,
           ProcessEvent(w, ok), SchedulerInv'
    PROVE  ConvergenceInv'
  <1> USE DEF IndInv, TypeOK, ConvergenceInv, CommitsInv
  <1> DEFINE s == task[w]
  <1>1. /\ s # Nothing /\ ProcessStep(w, s, log[s], ok)
        /\ UNCHANGED <<log, session, pos, held, present, waiting, task, origin,
                       handled, cursor>>
        /\ Connected' <=> Connected
    BY DEF ProcessEvent, fhVars, stream, scheduler, ghosts, Connected
  <1>2. InFlight' = InFlight /\ Reach' = Reach /\ GivenUp' = GivenUp
    BY <1>1, InFlightUnchanged DEF Reach, GivenUp
  <1>3. /\ s \in InFlight /\ s \in 1..Len(log) /\ s <= pos /\ s > origin
        /\ Connected /\ Reach = pos /\ origin # Never
    BY <1>1, InFlightRead, OriginOfFlight
  <1>4. CursorBehind' /\ NoGap' /\ GivenUpForGood' /\ HandledRead'
    BY <1>1, <1>2 DEF CursorBehind, NoGap, GivenUpForGood, HandledRead, RepoOf
  <1>5. AfterOrigin'
    BY <1>1, <1>2, <1>3 DEF AfterOrigin
  <1>6. \A v \in Worker : v # w => at'[v] = at[v]
    BY <1>1 DEF ProcessStep, SkipOp, HandleDelete, HandleCreate, NextPipeline, NextOp,
       ProcessorTypeOK
  <1>7. IdleAtStart'
    BY <1>1, <1>6 DEF IdleAtStart
  <1>8. failed \subseteq failed'
    BY <1>1 DEF ProcessStep, SkipOp, HandleDelete, HandleCreate
  <1>9. Left \subseteq Places(log)
    BY DEF Left
  <1>10. \A p \in Left : p[1] # s => p \in Left'
    BY <1>1, <1>2, <1>6 DEF Left
  <1>11. ASSUME NEW p \in Places(log), p[1] = s
         PROVE  /\ p \in Left <=> ~Passed(at[w], log, p)
                /\ p \in Left' <=> ~Passed(at'[w], log, p)
    <2>1. \A v \in Worker : task[v] = s => v = w
      BY <1>1, OnePlace
    <2>2. ~(p[1] > Reach)
      BY <1>3, <1>11, InFlightRead
    <2> QED
      BY <1>1, <1>2, <1>3, <1>11, <2>1, <2>2 DEF Left
  <1>12. RowsOnTrack'
    <2> SUFFICES ASSUME NEW uri \in Uri
                 PROVE  OnTrack(posts'[uri], log, uri, origin,
                                Left', GivenUp \cup failed')
      BY <1>1, <1>2 DEF RowsOnTrack
    <2>1. OnTrack(posts[uri], log, uri, origin, Left, GivenUp \cup failed)
      BY <1>3 DEF RowsOnTrack
    <2>2. \A p \in Effective(log, uri, origin) : p \in Left \/ p[1] = s =>
              Followed(log, uri, origin, p, Left, GivenUp \cup failed)
      BY LeftClosed
    <2>3. ASSUME log[s].repo = uri[1], NEW p \in Effective(log, uri, origin),
                 p[1] < s, p \in Left
          PROVE  FALSE
      <3>1. p[1] \in 1..Len(log) /\ RepoOf(p[1]) = RepoOf(s)
        BY <2>3, EffectivePlace DEF RepoOf
      <3>2. p[1] \in InFlight
        BY <1>3, <2>3, <3>1, InFlightRead DEF Left
      <3>3. s <= p[1]
        BY <1>1, <3>1, <3>2, TaskOldest
      <3> QED
        BY <1>3, <2>3, <3>1, <3>3
    <2>4. log[s].repo = uri[1] => \A p \in Effective(log, uri, origin) :
              p[1] < s => p \notin Left \/ p[1] \in GivenUp \cup failed
      BY <2>3
    <2>5. log \in Seq(Commit) /\ ProcessorTypeOK(Worker)
      BY DEF FirehoseTypeOK
    <2>6. Passes(at[w], at'[w], log, s, Left, Left')
      BY <1>9, <1>10, <1>11 DEF Passes
    <2>7. InTurn(log, s, uri, origin, Left, GivenUp \cup failed)
      BY <2>2, <2>4 DEF InTurn
    <2>8. /\ GivenUp \cup failed \subseteq GivenUp \cup failed'
          /\ failed' \subseteq GivenUp \cup failed'
      BY <1>8
    <2>9. /\ ProcessStep(w, s, log[s], ok)
          /\ s \in 1..Len(log) /\ s > origin
      BY <1>1, <1>3
    <2> HIDE DEF s, IndInv, TypeOK, ConvergenceInv, CommitsInv
    <2> QED
      BY <2>1, <2>5, <2>6, <2>7, <2>8, <2>9, ProcessOnTrack
  <1> QED
    BY <1>4, <1>5, <1>7, <1>12

(* A commit is done with: all that counts of it was passed. *)
LEMMA HandleConverges ==
    ASSUME IndInv, ConvergenceInv, NEW w \in Worker, NEW ok \in BOOLEAN,
           HandleCommit(w, ok), SchedulerInv'
    PROVE  ConvergenceInv'
  <1> USE DEF IndInv, TypeOK, ConvergenceInv, CommitsInv
  <1> DEFINE s == task[w]
  <1>1. /\ s # Nothing /\ Processed(w, log[s])
        /\ handled' = handled \cup {s} /\ cursor' \in {cursor, s}
        /\ at' = [at EXCEPT ![w] = Start]
        /\ UNCHANGED <<log, session, pos, origin, posts, failed>>
        /\ Connected' <=> Connected
    BY DEF HandleCommit, Finish, UpsertCursor, stream, Connected
  <1>2. \A v \in Worker : v # w => task'[v] = task[v]
    BY DEF HandleCommit, Finish, FirehoseTypeOK
  <1>3. /\ InFlight \ {s} \subseteq InFlight' /\ InFlight' \subseteq InFlight
        /\ s \notin InFlight'
    BY FinishInFlight DEF HandleCommit
  <1>4. /\ s \in InFlight /\ s \in 1..Len(log) /\ s <= pos /\ s > origin
        /\ Connected /\ Reach = pos /\ origin # Never /\ origin \in Nat
    BY <1>1, InFlightRead, OriginOfFlight
  <1>5. Reach' = Reach /\ pos \in Nat /\ cursor \in Nat /\ InFlight \subseteq 1..pos
    BY <1>1, <1>4, InFlightRead DEF Reach
  <1>6. GivenUp' = GivenUp
    BY <1>1, <1>3, <1>4, <1>5 DEF GivenUp
  <1>7. CursorBehind'
    BY <1>1, <1>4 DEF CursorBehind
  <1>8. NoGap'
    <2> SUFFICES ASSUME NEW u \in InFlight', NEW t \in u..pos, RepoOf(t) = RepoOf(u)
                 PROVE  t \in InFlight'
      BY <1>1 DEF NoGap, RepoOf
    <2>1. u \in InFlight /\ t \in InFlight
      BY <1>3 DEF NoGap
    <2>2. t # s
      <3> SUFFICES ASSUME t = s PROVE FALSE
        OBVIOUS
      <3>1. s <= u
        BY <1>1, <2>1, TaskOldest
      <3>2. u = s
        BY <1>5, <2>1, <3>1
      <3> QED
        BY <1>3, <3>2
    <2> QED
      BY <1>3, <2>1, <2>2
  <1>9. GivenUpForGood'
    BY <1>1, <1>3, <1>4, <1>6 DEF GivenUpForGood, GivenUp
  <1>10. HandledRead'
    <2>1. s \in 1..pos /\ (cursor' = NoCursor => cursor = NoCursor)
      BY <1>1, <1>4, <1>5 DEF NoCursor
    <2> QED
      BY <1>1, <1>3, <1>4, <2>1 DEF HandledRead
  <1>11. IdleAtStart'
    BY <1>1, <1>2 DEF IdleAtStart, ProcessorTypeOK
  <1>12. AfterOrigin'
    BY <1>1, <1>3, <1>4 DEF AfterOrigin
  <1>13. ASSUME NEW uri \in Uri, NEW p \in Effective(log, uri, origin) \cap Left
         PROVE  p \in Left'
    <2>1. /\ p \in Places(log) /\ p[1] \in 1..Len(log)
          /\ p[2] \in 1..Len(log[p[1]].ops) /\ Intact(log[p[1]])
      BY EffectivePlace
    <2>2. CASE p[1] > Reach
      BY <1>1, <1>5, <2>1, <2>2 DEF Left
    <2>3. CASE ~(p[1] > Reach)
      <3>1. p[1] \in InFlight
        BY <1>13, <2>3 DEF Left
      <3>2. p[1] # s
        <4> SUFFICES ASSUME p[1] = s PROVE FALSE
          OBVIOUS
        <4>1. at[w].op > Len(log[s].ops)
          BY <1>1, <2>1 DEF Processed
        <4>2. at[w].op \in Nat /\ Len(log[s].ops) \in Nat
          <5>1. log[s] \in CommitRecord
            BY <1>4, NetworkAssumption DEF FirehoseTypeOK
          <5> QED
            BY <5>1 DEF CommitRecord, ProcessorTypeOK
        <4>3. Passed(at[w], log, p)
          BY <2>1, <4>1, <4>2 DEF Passed
        <4> QED
          BY <1>1, <1>13, <2>1, <4>3, LeftOfTask
      <3>3. ASSUME NEW v \in Worker, task'[v] = p[1]
            PROVE  ~Passed(at'[v], log, p)
        <4>1. CASE v = w
          BY <1>1, <2>1, <4>1, NothingPassed DEF ProcessorTypeOK
        <4>2. CASE v # w
          BY <1>1, <1>2, <1>13, <2>3, <3>3, <4>2 DEF Left, ProcessorTypeOK
        <4> QED
          BY <4>1, <4>2
      <3> QED
        BY <1>1, <1>3, <2>1, <3>1, <3>2, <3>3 DEF Left
    <2> QED
      BY <2>2, <2>3
  <1>14. RowsOnTrack'
    BY <1>1, <1>6, <1>13, SameRows
  <1> QED
    BY <1>7, <1>8, <1>9, <1>10, <1>11, <1>12, <1>14

(* A program that was never connected has done nothing. *)
LEMMA InitConverges == Init => ConvergenceInv
  <1> SUFFICES ASSUME Init PROVE ConvergenceInv
    OBVIOUS
  <1>1. SchedulerInv
    BY InitIndInv DEF IndInv
  <1>2. ~Connected /\ cursor = NoCursor /\ origin = Never /\ handled = {}
    BY DEF Init, FirehoseInit, Connected
  <1>3. InFlight = {}
    BY <1>1, <1>2, NothingInFlight
  <1>4. GivenUp = {}
    BY <1>2 DEF GivenUp, Reach, NoCursor, Init, FirehoseInit
  <1>5. IdleAtStart /\ \A uri \in Uri : posts[uri] = NoRow
    BY DEF IdleAtStart, Init, ProcessorInit
  <1> QED
    BY <1>1, <1>2, <1>3, <1>4, <1>5 DEF ConvergenceInv, CommitsInv, RowsOnTrack,
       CursorBehind, NoGap, GivenUpForGood, HandledRead, AfterOrigin

(* Every step of the program keeps ConvergenceInv. *)
LEMMA NextConverges == IndInv /\ ConvergenceInv /\ [Next]_vars => ConvergenceInv'
  <1> SUFFICES ASSUME IndInv, ConvergenceInv, [Next]_vars PROVE ConvergenceInv'
    OBVIOUS
  <1>1. SchedulerInv'
    BY NextIndInv DEF IndInv
  <1>2. CASE UNCHANGED vars
    <2>1. Connected' <=> Connected
      BY <1>2 DEF vars, fhVars, stream, Connected
    <2> QED
      BY <1>1, <1>2, <2>1, SameCommits DEF vars, fhVars, stream, scheduler, ghosts, procVars
  <1>3. CASE \E w \in Worker, ok \in BOOLEAN : ProcessEvent(w, ok)
    BY <1>1, <1>3, ProcessConverges
  <1>4. CASE \E w \in Worker, ok \in BOOLEAN : HandleCommit(w, ok)
    BY <1>1, <1>4, HandleConverges
  <1>5. CASE \E w \in Worker : StartCommit(w)
    BY <1>1, <1>5, StartConverges
  <1> QED
    BY <1>1, <1>2, <1>3, <1>4, <1>5, RelayConverges, SubscribeConverges,
       ConnectionConverges, ReadConverges, CrashConverges DEF Next

(***************************************************************************)
(* Whatever was interrupted, delivered again or handled by several workers *)
(* at once, a repo with nothing left to handle has the rows its log calls  *)
(* for, but for posts of missed or failed commits.                         *)
(***************************************************************************)
THEOREM ConvergedHolds == Spec => []Converged
  <1>1. Spec => []ConvergenceInv
    BY InitConverges, NextConverges, SpecIndInv, PTL DEF Spec
  <1>2. IndInv /\ ConvergenceInv => Converged
    <2> SUFFICES ASSUME IndInv, ConvergenceInv, Connected, pos = Len(log),
                        NEW uri \in Uri, \A s \in InFlight : RepoOf(s) # uri[1]
                 PROVE  Spoilt(uri) \/ posts[uri] = Expected(log, uri, origin)
      BY DEF Converged
    <2> USE DEF IndInv, TypeOK, ConvergenceInv, CommitsInv
    <2>1. Reach = pos /\ GivenUp = Missed /\ origin # Never
      BY DEF Reach, GivenUp, Missed, Frontier, AfterOrigin
    <2>2. OnTrack(posts[uri], log, uri, origin, Left, Missed \cup failed)
      BY <2>1 DEF RowsOnTrack
    <2>3. ASSUME NEW p \in Effective(log, uri, origin) \cap Left PROVE FALSE
      <3>1. p[1] \in 1..Len(log) /\ RepoOf(p[1]) = uri[1]
        BY EffectivePlace
      <3>2. p[1] \notin InFlight /\ ~(p[1] > Reach)
        BY <2>1, <3>1, InFlightRead
      <3> QED
        BY <3>2 DEF Left
    <2>4. log \in Seq(Commit)
      BY DEF FirehoseTypeOK
    <2> QED
      BY <2>2, <2>3, <2>4, TrackEnds DEF Spoilt
  <1> QED
    BY <1>1, <1>2, SpecIndInv, PTL
=============================================================================
