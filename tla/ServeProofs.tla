----------------------------- MODULE ServeProofs -----------------------------
(***************************************************************************)
(* That the view metrics count each view at most once, that the channel is *)
(* closed under nobody the server waited for, and that the health check    *)
(* says what was so, for any capacity of the channel and any number of     *)
(* feeds, requests and workers.                                            *)
(***************************************************************************)
EXTENDS Serve, FiniteSetTheorems, TLAPS

-----------------------------------------------------------------------------
(* Counting in a channel. *)

At(s, f) == {i \in DOMAIN s : s[i] = f}

(* The places of f are finitely many. *)
LEMMA AtFinite ==
    ASSUME NEW s \in Seq(Feed), NEW f \in Feed
    PROVE  IsFiniteSet(At(s, f)) /\ Cardinality(At(s, f)) \in Nat
<1>1. Len(s) \in Nat /\ DOMAIN s = 1..Len(s)
  OBVIOUS
<1>2. IsFiniteSet(1..Len(s))
  BY <1>1, FS_Interval
<1>3. At(s, f) \in SUBSET (1..Len(s))
  BY <1>1 DEF At
<1> QED BY <1>2, <1>3, FS_Subset, FS_CardinalityType

(* A feed that is appended has one place more. *)
LEMMA CountAppend ==
    ASSUME NEW s \in Seq(Feed), NEW f \in Feed, NEW g \in Feed
    PROVE  Cardinality(At(Append(s, g), f)) =
               Cardinality(At(s, f)) + (IF f = g THEN 1 ELSE 0)
<1>1. /\ Len(s) \in Nat /\ DOMAIN s = 1..Len(s)
      /\ DOMAIN Append(s, g) = 1..Len(s) + 1
      /\ Append(s, g)[Len(s) + 1] = g
      /\ \A i \in 1..Len(s) : Append(s, g)[i] = s[i]
  OBVIOUS
<1>2. CASE f = g
  <2>1. At(Append(s, g), f) = At(s, f) \cup {Len(s) + 1}
    BY <1>1, <1>2 DEF At
  <2>2. Len(s) + 1 \notin At(s, f)
    BY <1>1 DEF At
  <2>3. Cardinality(At(s, f) \cup {Len(s) + 1}) = Cardinality(At(s, f)) + 1
    BY <2>2, AtFinite, FS_AddElement
  <2> QED BY <1>2, <2>1, <2>3
<1>3. CASE f # g
  <2>1. At(Append(s, g), f) = At(s, f)
    BY <1>1, <1>3 DEF At
  <2> QED BY <1>3, <2>1, AtFinite
<1> QED BY <1>2, <1>3

(* The feed that is taken out had one place more. *)
LEMMA CountTail ==
    ASSUME NEW s \in Seq(Feed), NEW f \in Feed, s # <<>>
    PROVE  Cardinality(At(s, f)) =
               Cardinality(At(Tail(s), f)) + (IF Head(s) = f THEN 1 ELSE 0)
<1>1. /\ Len(s) \in Nat \ {0} /\ DOMAIN s = 1..Len(s)
      /\ Tail(s) \in Seq(Feed) /\ DOMAIN Tail(s) = 1..Len(s) - 1
      /\ Head(s) = s[1]
      /\ \A i \in 1..Len(s) - 1 : Tail(s)[i] = s[i + 1]
  OBVIOUS
<1> DEFINE Behind == {i \in 2..Len(s) : s[i] = f}
           shift  == [i \in At(Tail(s), f) |-> i + 1]
<1>2. shift \in Bijection(At(Tail(s), f), Behind)
  <2>1. shift \in [At(Tail(s), f) -> Behind]
    BY <1>1 DEF At
  <2>2. \A i, j \in At(Tail(s), f) : shift[i] = shift[j] => i = j
    BY <1>1 DEF At
  <2>3. \A k \in Behind : \E i \in At(Tail(s), f) : shift[i] = k
    <3> SUFFICES ASSUME NEW k \in Behind
                 PROVE  \E i \in At(Tail(s), f) : shift[i] = k
      OBVIOUS
    <3>1. k - 1 \in At(Tail(s), f)
      BY <1>1 DEF At
    <3> QED BY <3>1
  <2> QED BY <2>1, <2>2, <2>3 DEF Bijection, Injection, Surjection, IsInjective
<1>3. IsFiniteSet(Behind) /\ Cardinality(Behind) = Cardinality(At(Tail(s), f))
  <2>1. IsFiniteSet(At(Tail(s), f))
    BY <1>1, AtFinite
  <2>2. ExistsBijection(At(Tail(s), f), Behind)
    BY <1>2 DEF ExistsBijection
  <2> QED BY <2>1, <2>2, FS_Bijection
<1>4. Cardinality(At(Tail(s), f)) \in Nat
  BY <1>1, AtFinite
<1>5. CASE Head(s) = f
  <2>1. At(s, f) = Behind \cup {1}
    BY <1>1, <1>5 DEF At
  <2>2. 1 \notin Behind
    OBVIOUS
  <2>3. Cardinality(Behind \cup {1}) = Cardinality(Behind) + 1
    BY <1>3, <2>2, FS_AddElement
  <2> QED BY <1>3, <1>5, <2>1, <2>3
<1>6. CASE Head(s) # f
  <2>1. At(s, f) = Behind
    BY <1>1, <1>6 DEF At
  <2> QED BY <1>3, <1>4, <1>6, <2>1
<1> QED BY <1>5, <1>6

-----------------------------------------------------------------------------
(* The metrics. *)

MetricsStep ==
    \/ \E f \in Feed : RecordView(f)
    \/ Receive \/ EndRun \/ Written \/ WriteFails \/ Close
    \/ UNCHANGED metricsVars

(* All that the program does to the metrics. *)
LEMMA StepIsMetricsStep == [Next]_vars => MetricsStep
<1>1. Main => MetricsStep
  BY DEF Main, MetricsStep, Connected, PingFails, PingAgain, GiveUp, Migrated,
         NotMigrated, StartFirehose,
         StartWorker, StartFails, Started, WaitOver, ListenFails, StartShutdown,
         ShutdownOver, ShutdownTimesOut, CloseMetrics, CloseDatabase, Exit
<1>2. Requests => MetricsStep
  BY DEF Requests, MetricsStep, Ask, Answer, Record, HealthBegins, Ping,
         CheckFirehose, CheckWorker
<1>3. Next => MetricsStep
  BY <1>1, <1>2 DEF Next, MetricsStep, Signal, FirehoseChanges, WorkerSubscribes,
         WorkerEnds, Write
<1> QED BY <1>3 DEF MetricsStep, vars

(* The channel never holds more than it can. *)
LEMMA MetricsType ==
    ASSUME MetricsTypeOK, MetricsStep
    PROVE  MetricsTypeOK'
<1> USE ViewMetricsAssumption DEF MetricsTypeOK
<1>1. ASSUME NEW f \in Feed, RecordView(f)
      PROVE  MetricsTypeOK'
  <2>1. ch' \in Seq(Feed) /\ Len(ch') <= BufferSize
    BY <1>1 DEF RecordView, Full
  <2>2. missed' \subseteq {"full", "failed", "panic"}
    BY <1>1 DEF RecordView
  <2> QED BY <1>1, <2>1, <2>2 DEF RecordView
<1>2. CASE Receive
  <2>1. Head(ch) \in Feed /\ Tail(ch) \in Seq(Feed) /\ Len(Tail(ch)) <= BufferSize
    BY <1>2 DEF Receive
  <2> QED BY <1>2, <2>1 DEF Receive
<1>3. CASE EndRun
  BY <1>3 DEF EndRun
<1>4. CASE Written
  BY <1>4 DEF Written, Counted
<1>5. CASE WriteFails
  <2>1. totals' = totals \/ totals' = [totals EXCEPT ![writing] = @ + 1]
    BY <1>5 DEF WriteFails, Counted
  <2>2. totals' \in [Feed -> Nat]
    <3>1. writing \in Feed
      BY <1>5 DEF WriteFails
    <3>2. [totals EXCEPT ![writing] = @ + 1] \in [Feed -> Nat]
      BY <3>1
    <3> QED BY <2>1, <3>2
  <2> QED BY <1>5, <2>2 DEF WriteFails
<1>6. CASE Close
  BY <1>6 DEF Close
<1>7. CASE UNCHANGED metricsVars
  BY <1>7 DEF metricsVars
<1> QED BY <1>1, <1>2, <1>3, <1>4, <1>5, <1>6, <1>7 DEF MetricsStep

(* Views on their way, by the places in the channel. *)
LEMMA PendingAt ==
    ASSUME NEW f
    PROVE  Pending(f) = Cardinality(At(ch, f)) + (IF writing = f THEN 1 ELSE 0)
BY DEF Pending, At

(* No step counts a view twice, or forgets one without a reason. *)
LEMMA CountingKept ==
    ASSUME MetricsTypeOK, ViewsCounted, MetricsStep
    PROVE  ViewsCounted'
<1> DEFINE Level(f) == totals[f] + Pending(f)
<1> SUFFICES ASSUME NEW f \in Feed
             PROVE  /\ Level(f)' <= viewed'[f]
                    /\ missed' = {} => Level(f)' = viewed'[f]
  BY DEF ViewsCounted
<1>1. /\ Level(f) <= viewed[f]
      /\ missed = {} => Level(f) = viewed[f]
  BY DEF ViewsCounted
<1>2. /\ ch \in Seq(Feed) /\ Cardinality(At(ch, f)) \in Nat
      /\ totals \in [Feed -> Nat] /\ viewed \in [Feed -> Nat]
      /\ writing \in Feed \cup {None} /\ None \notin Feed
  BY AtFinite, ViewMetricsAssumption DEF MetricsTypeOK
<1>3. Pending(f) = Cardinality(At(ch, f)) + (IF writing = f THEN 1 ELSE 0)
  BY PendingAt
<1>4. Pending(f)' = Cardinality(At(ch', f)) + (IF writing' = f THEN 1 ELSE 0)
  BY DEF Pending, At
<1> HIDE DEF Level
<1>5. Level(f) = totals[f] + Pending(f) /\ Level(f)' = totals'[f] + Pending(f)'
  BY DEF Level
<1>6. ASSUME NEW g \in Feed, RecordView(g)
      PROVE  /\ Level(f)' <= viewed'[f]
             /\ missed' = {} => Level(f)' = viewed'[f]
  <2>1. totals' = totals /\ writing' = writing
        /\ viewed' = [viewed EXCEPT ![g] = @ + 1]
    BY <1>6 DEF RecordView
  <2>2. CASE closed \/ Full
    <3>1. ch' = ch /\ missed' # {}
      BY <1>6, <2>2 DEF RecordView
    <3> QED BY <1>1, <1>2, <1>3, <1>4, <1>5, <2>1, <3>1
  <2>3. CASE ~(closed \/ Full)
    <3>1. ch' = Append(ch, g) /\ missed' = missed
      BY <1>6, <2>3 DEF RecordView
    <3>2. Cardinality(At(ch', f)) = Cardinality(At(ch, f)) + (IF f = g THEN 1 ELSE 0)
      BY <1>2, <3>1, CountAppend
    <3> QED BY <1>1, <1>2, <1>3, <1>4, <1>5, <2>1, <3>1, <3>2
  <2> QED BY <2>2, <2>3
<1>7. CASE Receive
  <2>1. /\ writing = None /\ writing' = Head(ch) /\ ch # <<>> /\ ch' = Tail(ch)
        /\ totals' = totals /\ viewed' = viewed /\ missed' = missed
    BY <1>7 DEF Receive
  <2>2. Cardinality(At(ch, f)) =
            Cardinality(At(ch', f)) + (IF Head(ch) = f THEN 1 ELSE 0)
    BY <1>2, <2>1, CountTail
  <2>3. Tail(ch) \in Seq(Feed)
    BY <1>2, <2>1
  <2>4. Cardinality(At(ch', f)) \in Nat
    BY <2>1, <2>3, AtFinite
  <2> QED BY <1>1, <1>2, <1>3, <1>4, <1>5, <2>1, <2>2, <2>4
<1>8. CASE Written \/ WriteFails
  <2>1. /\ writing \in Feed /\ writing' = None /\ ch' = ch /\ viewed' = viewed
        /\ missed' = {} => missed = {}
    BY <1>2, <1>8 DEF Written, WriteFails
  <2>2. \/ totals' = totals /\ missed' # {}
        \/ totals' = [totals EXCEPT ![writing] = @ + 1]
    BY <1>8 DEF Written, WriteFails, Counted
  <2> QED BY <1>1, <1>2, <1>3, <1>4, <1>5, <2>1, <2>2
<1>9. CASE EndRun \/ Close \/ UNCHANGED metricsVars
  <2>1. /\ ch' = ch /\ writing' = writing /\ totals' = totals
        /\ viewed' = viewed /\ missed' = missed
    BY <1>9 DEF EndRun, Close, metricsVars
  <2> QED BY <1>1, <1>3, <1>4, <1>5, <2>1
<1> QED BY <1>6, <1>7, <1>8, <1>9 DEF MetricsStep

-----------------------------------------------------------------------------
(* Types. *)

(* The command's own steps; what they do besides is the metrics'. *)
LEMMA MainType ==
    ASSUME TypeOK, MetricsTypeOK', Main
    PROVE  TypeOK'
<1> USE DEF TypeOK
<1>1. CASE StartFirehose
  BY <1>1 DEF StartFirehose, mainVars, health
<1>2. ASSUME NEW w \in Worker, StartWorker(w)
      PROVE  TypeOK'
  BY <1>2 DEF StartWorker, mainVars, health
<1>3. ASSUME NEW next, GoesTo(next), forced' \in BOOLEAN,
             next \in {"pinging", "pausing", "migrating", "starting", "waiting",
             "returned",
                      "metricsClosed", "databaseClosed", "exited"} \cup Serving
      PROVE  TypeOK'
  BY <1>3 DEF GoesTo, fleet, health
<1>4. CASE Connected \/ PingFails \/ PingAgain \/ GiveUp \/ Migrated
         \/ NotMigrated \/ StartFails \/ Started
  <2>1. forced' = forced
    BY <1>4 DEF Connected, PingFails, PingAgain, GiveUp, Migrated, NotMigrated,
                StartFails, Started
  <2> QED BY <1>3, <1>4, <2>1
          DEF Connected, PingFails, PingAgain, GiveUp, Migrated, NotMigrated,
              StartFails, Started, Serving
<1>5. CASE WaitOver \/ ListenFails \/ StartShutdown \/ ShutdownOver \/ ShutdownTimesOut
  <2>1. forced' = forced \/ forced' = TRUE
    BY <1>5 DEF WaitOver, ListenFails, StartShutdown, ShutdownOver, ShutdownTimesOut
  <2> QED BY <1>3, <1>5, <2>1
          DEF WaitOver, ListenFails, StartShutdown, ShutdownOver, ShutdownTimesOut,
              Serving
<1>6. CASE CloseMetrics \/ CloseDatabase \/ Exit
  BY <1>3, <1>6 DEF CloseMetrics, CloseDatabase, Exit
<1> QED BY <1>1, <1>2, <1>4, <1>5, <1>6 DEF Main

(* What the health check saw are workers. *)
LEMMA SeesType ==
    ASSUME TypeOK, NEW fh, NEW up \in SUBSET Worker, Sees(fh, up)
    PROVE  seen' \in [fhUp : BOOLEAN, fhDown : BOOLEAN,
                      up : SUBSET Worker, down : SUBSET Worker]
BY DEF TypeOK, Sees, Workers

(* Connections, workers and the counting of views. *)
LEMMA GoroutineType ==
    ASSUME TypeOK, MetricsTypeOK',
           FirehoseChanges \/ Write
               \/ \E w \in Worker : WorkerSubscribes(w) \/ WorkerEnds(w)
    PROVE  TypeOK'
<1>1. Subscribed \in SUBSET Worker /\ Up \in BOOLEAN
  BY DEF Subscribed, Workers, Up
<1>2. CASE FirehoseChanges
  <2>1. firehose' \in {"down", "dialling", "up"}
    BY <1>2 DEF FirehoseChanges
  <2>2. Sees(Up', Subscribed)
    BY <1>2 DEF FirehoseChanges, Up
  <2>3. seen' \in [fhUp : BOOLEAN, fhDown : BOOLEAN,
                   up : SUBSET Worker, down : SUBSET Worker]
    BY <1>1, <2>2, SeesType
  <2> QED BY <1>2, <2>1, <2>3 DEF FirehoseChanges, TypeOK, mainVars
<1>3. CASE Write
  BY <1>3 DEF Write, TypeOK, mainVars, fleet, health
<1>4. ASSUME NEW w \in Worker, WorkerSubscribes(w)
      PROVE  TypeOK'
  <2>1. Sees(Up, Subscribed \cup {w})
    BY <1>4 DEF WorkerSubscribes
  <2> QED BY <1>1, <1>4, <2>1, SeesType DEF WorkerSubscribes, TypeOK, mainVars
<1>5. ASSUME NEW w \in Worker, WorkerEnds(w)
      PROVE  TypeOK'
  <2>1. Sees(Up, Subscribed \ {w})
    BY <1>5 DEF WorkerEnds
  <2> QED BY <1>1, <1>5, <2>1, SeesType DEF WorkerEnds, TypeOK, mainVars
<1> QED BY <1>2, <1>3, <1>4, <1>5

(* The requests, the health check among them. *)
LEMMA RequestType ==
    ASSUME TypeOK, MetricsTypeOK', Requests
    PROVE  TypeOK'
<1> USE DEF TypeOK
<1>1. ASSUME NEW h \in Handler, Ask(h) \/ Answer(h) \/ Record(h)
      PROVE  TypeOK'
  <2>1. UNCHANGED <<mainVars, fleet, health>>
    BY <1>1 DEF Ask, Answer, Record
  <2>2. handler' \in [Handler -> {"idle", "querying", "recording"}]
    BY <1>1 DEF Ask, Answer, Record
  <2> QED BY <2>1, <2>2 DEF mainVars, fleet, health
<1> DEFINE Check == [step : {"idle", "database", "firehose", "workers", "answered"},
                     db : BOOLEAN, fh : BOOLEAN, next : 1..Count + 1, ok : BOOLEAN]
<1>2. Count \in Nat /\ 1 \in 1..Count + 1
  BY ServeAssumption
<1>3. CASE HealthBegins
  <2>1. check' \in Check
    BY <1>2, <1>3 DEF HealthBegins, NoCheck
  <2>2. seen' \in [fhUp : BOOLEAN, fhDown : BOOLEAN,
                   up : SUBSET Worker, down : SUBSET Worker]
    BY <1>3 DEF HealthBegins, Up, Subscribed, Workers
  <2> QED BY <1>3, <2>1, <2>2 DEF HealthBegins, mainVars, fleet
<1>4. ASSUME NEW db \in BOOLEAN, NEW fh, NEW workers,
             Answered(db, fh, workers)
      PROVE  check' \in Check
  BY <1>2, <1>4 DEF Answered, NoCheck, Healthy, WithFirehose
<1>5. CASE Ping
  BY <1>5 DEF Ping, mainVars, fleet
<1>6. CASE CheckFirehose
  <2>1. check' \in Check
    BY <1>4, <1>6 DEF CheckFirehose, Up
  <2> QED BY <1>6, <2>1 DEF CheckFirehose, mainVars, fleet
<1>7. CASE CheckWorker
  <2>1. check' \in Check
    <3>1. CASE check.next \in Subscribed /\ check.next < Count
      <4>1. check' = [check EXCEPT !.next = @ + 1]
        BY <1>7, <3>1 DEF CheckWorker
      <4>2. check.next \in 1..Count + 1 /\ check.next + 1 \in 1..Count + 1
        BY <1>2, <3>1
      <4> QED BY <4>1, <4>2
    <3>2. CASE ~(check.next \in Subscribed /\ check.next < Count)
      <4>1. Answered(check.db, check.fh, check.next \in Subscribed)
        BY <1>7, <3>2 DEF CheckWorker
      <4> QED BY <1>4, <4>1
    <3> QED BY <3>1, <3>2
  <2> QED BY <1>7, <2>1 DEF CheckWorker, mainVars, fleet
<1> QED BY <1>1, <1>3, <1>5, <1>6, <1>7 DEF Requests

(* Every step keeps the types. *)
LEMMA TypeKept ==
    ASSUME TypeOK, [Next]_vars
    PROVE  TypeOK'
<1>1. MetricsTypeOK'
  BY StepIsMetricsStep, MetricsType DEF TypeOK
<1>2. CASE Signal
  BY <1>1, <1>2 DEF Signal, TypeOK, fleet, health
<1>3. CASE UNCHANGED vars
  BY <1>1, <1>3 DEF vars, mainVars, fleet, health, TypeOK
<1> QED BY <1>1, <1>2, <1>3, MainType, GoroutineType, RequestType DEF Next

-----------------------------------------------------------------------------
(* The end of the server and of the channel. *)

(* The command goes on: only by force past its requests. *)
LEMMA MainQuiet ==
    ASSUME Quiet, Main
    PROVE  Quiet'
<1> USE DEF Quiet, Serving
<1>1. Busy' = Busy
  BY DEF Main, Connected, PingFails, PingAgain, GiveUp, Migrated, NotMigrated,
         StartFirehose, StartWorker,
         StartFails, Started, WaitOver, ListenFails, StartShutdown, ShutdownOver,
         ShutdownTimesOut, CloseMetrics, CloseDatabase, Exit, GoesTo, health, Busy,
         Checking
<1>2. CASE StartFirehose \/ \E w \in Worker : StartWorker(w)
  BY <1>1, <1>2 DEF StartFirehose, StartWorker, mainVars, metricsVars
<1>3. CASE Connected \/ PingFails \/ PingAgain \/ GiveUp \/ Migrated
         \/ NotMigrated \/ StartFails \/ Started \/ WaitOver
  BY <1>1, <1>3 DEF Connected, PingFails, PingAgain, GiveUp, Migrated, NotMigrated,
                    StartFails, Started,
                    WaitOver, GoesTo, metricsVars
<1>4. CASE ListenFails \/ StartShutdown \/ ShutdownOver \/ ShutdownTimesOut
  BY <1>1, <1>4 DEF ListenFails, StartShutdown, ShutdownOver, ShutdownTimesOut, GoesTo,
                    metricsVars
<1>5. CASE CloseMetrics \/ CloseDatabase \/ Exit
  BY <1>1, <1>5 DEF CloseMetrics, CloseDatabase, Exit, Close, GoesTo, metricsVars
<1> QED BY <1>2, <1>3, <1>4, <1>5 DEF Main

(* A request begins while the server listens and was under way if it ends. *)
LEMMA RequestQuiet ==
    ASSUME TypeOK, Quiet, Requests
    PROVE  Quiet'
<1>1. main' = main /\ forced' = forced /\ closed' = closed
  BY DEF Requests, Ask, Answer, Record, RecordView, HealthBegins, Ping, CheckFirehose,
         CheckWorker, mainVars, metricsVars
<1>2. Listening \/ Busy
  BY DEF Requests, Ask, Answer, Record, HealthBegins, Ping, CheckFirehose, CheckWorker,
         Busy, Checking
<1> QED BY <1>1, <1>2 DEF Quiet, Listening, Serving

(* The server never returns under a request but by force. *)
LEMMA QuietKept ==
    ASSUME TypeOK, Quiet, [Next]_vars
    PROVE  Quiet'
<1>1. CASE Signal \/ FirehoseChanges \/ Write
           \/ (\E w \in Worker : WorkerSubscribes(w) \/ WorkerEnds(w))
           \/ UNCHANGED vars
  <2>1. UNCHANGED <<main, forced, closed, handler, check>>
    BY <1>1 DEF Signal, FirehoseChanges, Write, Receive, EndRun, WriteFails, Written,
                WorkerSubscribes, WorkerEnds, vars, metricsVars, mainVars, health
  <2> QED BY <2>1 DEF Quiet, Busy, Checking
<1> QED BY <1>1, MainQuiet, RequestQuiet DEF Next

(* A handler that still records has kept the channel open, or was forced. *)
LEMMA PanicKept ==
    ASSUME TypeOK, Quiet, PanicOnlyWhenForced, [Next]_vars
    PROVE  PanicOnlyWhenForced'
<1>1. forced => forced'
  BY DEF Next, Signal, Main, Connected, PingFails, PingAgain, GiveUp, Migrated,
         NotMigrated, StartFirehose,
         StartWorker, StartFails, Started, WaitOver, ListenFails, StartShutdown,
         ShutdownOver, ShutdownTimesOut, CloseMetrics, CloseDatabase, Exit,
         FirehoseChanges, WorkerSubscribes, WorkerEnds, Write, Requests, Ask, Answer,
         Record, HealthBegins, Ping, CheckFirehose, CheckWorker, vars, mainVars
<1>2. CASE \E h \in Handler : Record(h)
  <2>1. PICK h \in Handler, f \in Feed : handler[h] = "recording" /\ RecordView(f)
    BY <1>2 DEF Record
  <2>2. closed => forced
    BY <2>1 DEF Quiet, Busy, Serving
  <2> QED BY <1>1, <2>1, <2>2 DEF RecordView, PanicOnlyWhenForced
<1>3. CASE ~\E h \in Handler : Record(h)
  <2>1. CASE Main
    <3>1. missed' = missed
      BY <2>1 DEF Main, Connected, PingFails, PingAgain, GiveUp, Migrated,
                  NotMigrated, StartFirehose,
             StartWorker, StartFails, Started, WaitOver, ListenFails, StartShutdown,
             ShutdownOver, ShutdownTimesOut, CloseMetrics, Close, CloseDatabase, Exit,
             metricsVars
    <3> QED BY <1>1, <3>1 DEF PanicOnlyWhenForced
  <2>2. CASE Write
    <3>1. missed' = missed \/ missed' = missed \cup {"failed"}
      BY <2>2 DEF Write, Receive, EndRun, WriteFails, Written
    <3> QED BY <1>1, <3>1 DEF PanicOnlyWhenForced
  <2>3. CASE Requests
    <3>1. missed' = missed
      BY <1>3, <2>3 DEF Requests, Ask, Answer, HealthBegins, Ping, CheckFirehose,
             CheckWorker, metricsVars
    <3> QED BY <1>1, <3>1 DEF PanicOnlyWhenForced
  <2>4. CASE Signal \/ FirehoseChanges \/ UNCHANGED vars
             \/ \E w \in Worker : WorkerSubscribes(w) \/ WorkerEnds(w)
    <3>1. missed' = missed
      BY <2>4 DEF Signal, FirehoseChanges, WorkerSubscribes, WorkerEnds, vars,
             metricsVars
    <3> QED BY <1>1, <3>1 DEF PanicOnlyWhenForced
  <2> QED BY <2>1, <2>2, <2>3, <2>4 DEF Next
<1> QED BY <1>2, <1>3

-----------------------------------------------------------------------------
(* The health check. *)

(* It is answered with what it has read, and what it has read was seen. *)
LEMMA AnswerSound ==
    ASSUME TypeOK, NEW fh, NEW workers,
           Answered(check.db, fh, workers), UNCHANGED <<enabled, seen>>,
           IF fh THEN seen.fhUp ELSE seen.fhDown,
           workers => Workers # {} /\ seen.up = Workers,
           ~workers /\ Workers # {} => seen.down # {}
    PROVE  ReadIsSeen' /\ HealthSound'
<1>1. check'.step = "answered" /\ check'.db = check.db
      /\ check'.ok = Healthy(check.db, fh, workers)
  BY DEF Answered, NoCheck
<1>2. Workers' = Workers /\ WithFirehose' = WithFirehose
  BY DEF Workers, WithFirehose
<1>3. ReadIsSeen'
  BY <1>1 DEF ReadIsSeen, Checking
<1>4. HealthSound'
  BY <1>1, <1>2 DEF HealthSound, Healthy
<1> QED BY <1>3, <1>4

(* A step of others, who say what is so from now on. *)
LEMMA SeenKept ==
    ASSUME TypeOK, ReadIsSeen, HealthSound, UNCHANGED <<enabled, check>>,
           NEW up, Sees(Up', up), up \cap Workers = Subscribed'
    PROVE  ReadIsSeen' /\ HealthSound'
<1>1. Workers' = Workers /\ WithFirehose' = WithFirehose /\ Checking' = Checking
  BY DEF Workers, WithFirehose, Checking
<1>2. CASE Checking
  <2>1. seen' = [fhUp |-> seen.fhUp \/ Up', fhDown |-> seen.fhDown \/ ~Up',
                 up |-> seen.up \cup up, down |-> seen.down \cup (Workers \ up)]
    BY <1>2 DEF Sees
  <2>2. check'.step # "answered"
    BY <1>2 DEF Checking
  <2>3. ReadIsSeen'
    BY <1>1, <2>1 DEF ReadIsSeen
  <2> QED BY <2>2, <2>3 DEF HealthSound
<1>3. CASE ~Checking
  <2>1. seen' = seen /\ check.step # "workers"
    BY <1>3 DEF Sees, Checking
  <2> QED BY <1>1, <1>3, <2>1 DEF ReadIsSeen, HealthSound
<1> QED BY <1>2, <1>3

(* The health check's own steps. *)
LEMMA CheckKept ==
    ASSUME TypeOK, ReadIsSeen, HealthSound,
           HealthBegins \/ Ping \/ CheckFirehose \/ CheckWorker
    PROVE  ReadIsSeen' /\ HealthSound'
<1>1. enabled' = enabled /\ firehose' = firehose /\ worker' = worker
  BY DEF HealthBegins, Ping, CheckFirehose, CheckWorker, mainVars, fleet
<1>2. /\ Workers' = Workers /\ WithFirehose' = WithFirehose
      /\ Up' = Up /\ Subscribed' = Subscribed
  BY <1>1 DEF Workers, WithFirehose, Up, Subscribed
<1>3. CASE HealthBegins
  <2>1. check'.step = "database" /\ check'.next = 1
        /\ seen' = [fhUp |-> Up, fhDown |-> ~Up,
                    up |-> Subscribed, down |-> Workers \ Subscribed]
    BY <1>3 DEF HealthBegins, NoCheck
  <2> QED BY <1>2, <2>1 DEF ReadIsSeen, HealthSound
<1>4. CASE Ping
  <2>1. PICK db \in BOOLEAN : check' = [check EXCEPT !.step = "firehose", !.db = db]
    BY <1>4 DEF Ping
  <2>2. check.step = "database" /\ seen' = seen
    BY <1>4 DEF Ping
  <2>3. check'.step = "firehose" /\ check'.next = 1
    BY <2>1, <2>2 DEF TypeOK, ReadIsSeen
  <2>4. Checking /\ Checking'
    BY <2>2, <2>3 DEF Checking
  <2>5. ReadIsSeen'
    BY <1>2, <2>2, <2>3, <2>4 DEF ReadIsSeen
  <2> QED BY <2>3, <2>5 DEF HealthSound
<1>5. CASE CheckFirehose
  <2>1. check.step = "firehose" /\ seen' = seen
    BY <1>5 DEF CheckFirehose
  <2>2. Checking
    BY <2>1 DEF Checking
  <2>3. CASE Workers = {}
    <3>1. Answered(check.db, Up, FALSE)
      BY <1>5, <2>3 DEF CheckFirehose
    <3>2. IF Up THEN seen.fhUp ELSE seen.fhDown
      BY <2>2 DEF ReadIsSeen
    <3> QED BY <1>1, <2>1, <2>3, <3>1, <3>2, AnswerSound
  <2>4. CASE Workers # {}
    <3>1. check' = [check EXCEPT !.step = "workers", !.fh = Up]
      BY <1>5, <2>4 DEF CheckFirehose
    <3>2. check'.step = "workers" /\ check'.fh = Up /\ check'.next = 1
      BY <2>1, <3>1 DEF TypeOK, ReadIsSeen
    <3>3. 1 <= Count /\ 1..1 - 1 = {}
      BY <2>4, ServeAssumption DEF Workers, Worker
    <3>4. Checking'
      BY <3>2 DEF Checking
    <3>5. IF Up THEN seen.fhUp ELSE seen.fhDown
      BY <2>2 DEF ReadIsSeen
    <3>6. check'.next <= Count /\ 1..check'.next - 1 = {}
      BY <3>2, <3>3
    <3>7. ReadIsSeen'
      BY <1>2, <2>1, <2>2, <2>4, <3>2, <3>4, <3>5, <3>6 DEF ReadIsSeen
    <3> QED BY <3>2, <3>7 DEF HealthSound
  <2> QED BY <2>3, <2>4
<1>6. CASE CheckWorker
  <2>1. check.step = "workers" /\ seen' = seen
    BY <1>6 DEF CheckWorker
  <2>2. /\ Workers # {} /\ check.next \in Nat \ {0} /\ check.next <= Count
        /\ IF check.fh THEN seen.fhUp ELSE seen.fhDown
        /\ 1..check.next - 1 \subseteq seen.up
        /\ Subscribed \subseteq seen.up /\ Workers \ Subscribed \subseteq seen.down
    BY <2>1, ServeAssumption DEF ReadIsSeen, Checking, TypeOK
  <2>3. Workers = 1..Count /\ Count \in Nat /\ seen.up \subseteq 1..Count
    BY <2>2, ServeAssumption DEF Workers, Worker, TypeOK
  <2>4. CASE check.next \in Subscribed /\ check.next < Count
    <3>1. check' = [check EXCEPT !.next = @ + 1]
      BY <1>6, <2>4 DEF CheckWorker
    <3>2. /\ check'.step = "workers" /\ check'.fh = check.fh
          /\ check'.next = check.next + 1
      BY <2>1, <3>1 DEF TypeOK
    <3>3. 1..check'.next - 1 \subseteq seen.up
      <4>1. \A i \in 1..check'.next - 1 : i \in 1..check.next - 1 \/ i = check.next
        BY <2>2, <3>2
      <4> QED BY <2>2, <2>4, <4>1
    <3>4. check'.next <= Count
      BY <2>2, <2>3, <2>4, <3>2
    <3>5. Checking /\ Checking'
      BY <2>1, <3>2 DEF Checking
    <3>6. ReadIsSeen'
      BY <1>2, <2>1, <2>2, <3>2, <3>3, <3>4, <3>5 DEF ReadIsSeen
    <3> QED BY <3>2, <3>6 DEF HealthSound
  <2>5. CASE ~(check.next \in Subscribed /\ check.next < Count)
    <3> DEFINE last == check.next \in Subscribed
    <3>1. Answered(check.db, check.fh, last)
      BY <1>6, <2>5 DEF CheckWorker
    <3>2. last => Workers # {} /\ seen.up = Workers
      <4> SUFFICES ASSUME last
                   PROVE  seen.up = Workers
        BY <2>2
      <4>1. check.next = Count
        BY <2>2, <2>3, <2>5
      <4>2. \A i \in 1..Count : i \in 1..Count - 1 \/ i = Count
        BY <2>3
      <4>3. \A i \in 1..Count : i \in seen.up
        BY <2>2, <4>1, <4>2
      <4> QED BY <2>3, <4>3
    <3>3. ~last => seen.down # {}
      BY <2>2, <2>3
    <3>4. last \in BOOLEAN /\ check.fh \in BOOLEAN
      BY DEF TypeOK
    <3> QED BY <1>1, <2>1, <2>2, <3>1, <3>2, <3>3, <3>4, AnswerSound
  <2> QED BY <2>4, <2>5
<1> QED BY <1>3, <1>4, <1>5, <1>6

(* What the health check says was so. *)
LEMMA HealthKept ==
    ASSUME TypeOK, ReadIsSeen, HealthSound, [Next]_vars
    PROVE  ReadIsSeen' /\ HealthSound'
<1>1. CASE HealthBegins \/ Ping \/ CheckFirehose \/ CheckWorker
  BY <1>1, CheckKept
<1>2. CASE UNCHANGED <<enabled, fleet, health>>
  BY <1>2 DEF fleet, health, ReadIsSeen, HealthSound, Checking, Up, Subscribed, Workers,
              WithFirehose
<1>3. CASE Signal \/ Write \/ UNCHANGED vars
           \/ \E h \in Handler : Ask(h) \/ Answer(h) \/ Record(h)
  BY <1>2, <1>3 DEF Signal, Write, Ask, Answer, Record, vars, mainVars
<1>4. CASE Main
  <2>1. UNCHANGED <<enabled, fleet, health>> \/ StartFirehose
            \/ \E w \in Worker : StartWorker(w)
    BY <1>4 DEF Main, Connected, PingFails, PingAgain, GiveUp, Migrated, NotMigrated,
                StartFails, Started,
         WaitOver, ListenFails, StartShutdown, ShutdownOver, ShutdownTimesOut,
         CloseMetrics, CloseDatabase, Exit, GoesTo
  <2>2. CASE StartFirehose
    <3>1. UNCHANGED <<enabled, worker, health>> /\ Up' = Up
      BY <2>2 DEF StartFirehose, mainVars, Up
    <3> QED BY <3>1 DEF health, ReadIsSeen, HealthSound, Checking, Subscribed, Workers,
                        WithFirehose
  <2>3. ASSUME NEW w \in Worker, StartWorker(w)
        PROVE  ReadIsSeen' /\ HealthSound'
    <3>1. UNCHANGED <<enabled, firehose, health>>
      BY <2>3 DEF StartWorker, mainVars
    <3>2. Subscribed' = Subscribed
      BY <2>3, <3>1 DEF StartWorker, Subscribed, Workers, TypeOK
    <3> QED BY <3>1, <3>2 DEF health, ReadIsSeen, HealthSound, Checking, Up, Workers,
                              WithFirehose
  <2> QED BY <1>2, <2>1, <2>2, <2>3
<1>5. CASE FirehoseChanges
  <2>1. UNCHANGED <<enabled, check, worker>> /\ Sees(Up', Subscribed)
    BY <1>5 DEF FirehoseChanges, mainVars
  <2>2. Subscribed' = Subscribed
    BY <1>5, <2>1 DEF FirehoseChanges, Up, Subscribed, Workers
  <2>3. Subscribed \cap Workers = Subscribed'
    BY <2>2 DEF Subscribed
  <2> QED BY <2>1, <2>2, <2>3, SeenKept
<1>6. ASSUME NEW w \in Worker, WorkerSubscribes(w)
      PROVE  ReadIsSeen' /\ HealthSound'
  <2>1. UNCHANGED <<enabled, check, firehose>> /\ Sees(Up, Subscribed \cup {w})
    BY <1>6 DEF WorkerSubscribes, mainVars
  <2>2. Up' = Up /\ (Subscribed \cup {w}) \cap Workers = Subscribed'
    BY <1>6, <2>1 DEF WorkerSubscribes, Up, Subscribed, Workers, TypeOK
  <2> QED BY <2>1, <2>2, SeenKept
<1>7. ASSUME NEW w \in Worker, WorkerEnds(w)
      PROVE  ReadIsSeen' /\ HealthSound'
  <2>1. UNCHANGED <<enabled, check, firehose>> /\ Sees(Up, Subscribed \ {w})
    BY <1>7 DEF WorkerEnds, mainVars
  <2>2. Up' = Up /\ (Subscribed \ {w}) \cap Workers = Subscribed'
    BY <1>7, <2>1 DEF WorkerEnds, Up, Subscribed, Workers, TypeOK
  <2> QED BY <2>1, <2>2, SeenKept
<1> QED BY <1>1, <1>3, <1>4, <1>5, <1>6, <1>7 DEF Next, Requests

-----------------------------------------------------------------------------
(* The theorems. *)

Inv ==
    /\ TypeOK /\ ViewsCounted
    /\ Quiet /\ PanicOnlyWhenForced
    /\ ReadIsSeen /\ HealthSound

(* The invariant holds at the start and is kept by every step. *)
LEMMA InvHolds == Spec => []Inv
<1>1. Init => Inv
  <2> SUFFICES ASSUME Init
               PROVE  Inv
    OBVIOUS
  <2> USE ViewMetricsAssumption, ServeAssumption DEF Init, MetricsInit
  <2>1. TypeOK
    <3>1. MetricsTypeOK
      <4>1. ch = <<>> /\ Len(ch) = 0 /\ ch \in Seq(Feed)
        OBVIOUS
      <4>2. /\ totals \in [Feed -> Nat] /\ viewed \in [Feed -> Nat]
            /\ writing = None /\ missed = {}
            /\ closed \in BOOLEAN /\ ended \in BOOLEAN
        OBVIOUS
      <4> QED BY <4>1, <4>2 DEF MetricsTypeOK
    <3>2. check \in [step : {"idle", "database", "firehose", "workers", "answered"},
                    db : BOOLEAN, fh : BOOLEAN, next : 1..Count + 1, ok : BOOLEAN]
      BY DEF NoCheck
    <3>3. seen \in [fhUp : BOOLEAN, fhDown : BOOLEAN,
                   up : SUBSET Worker, down : SUBSET Worker]
      OBVIOUS
    <3>4. /\ worker \in [Worker -> {"absent", "starting", "subscribed", "ended"}]
          /\ handler \in [Handler -> {"idle", "querying", "recording"}]
      OBVIOUS
    <3> QED BY <3>1, <3>2, <3>3, <3>4 DEF TypeOK
  <2>2. ViewsCounted
    <3> SUFFICES ASSUME NEW f \in Feed
                 PROVE  totals[f] + Pending(f) = 0 /\ viewed[f] = 0
      BY DEF ViewsCounted
    <3>1. {i \in DOMAIN ch : ch[i] = f} = {} /\ writing # f
      OBVIOUS
    <3> QED BY <3>1, FS_EmptySet DEF Pending
  <2>3. Quiet /\ PanicOnlyWhenForced
    BY DEF Quiet, Busy, Checking, NoCheck, PanicOnlyWhenForced
  <2>4. ReadIsSeen /\ HealthSound
    BY DEF ReadIsSeen, HealthSound, Checking, NoCheck
  <2> QED BY <2>1, <2>2, <2>3, <2>4 DEF Inv
<1>2. Inv /\ [Next]_vars => Inv'
  <2> SUFFICES ASSUME Inv, [Next]_vars
               PROVE  Inv'
    OBVIOUS
  <2>1. TypeOK'
    BY TypeKept DEF Inv
  <2>2. ViewsCounted'
    BY StepIsMetricsStep, CountingKept DEF Inv, TypeOK
  <2>3. Quiet' /\ PanicOnlyWhenForced'
    BY QuietKept, PanicKept DEF Inv
  <2>4. ReadIsSeen' /\ HealthSound'
    BY HealthKept DEF Inv
  <2> QED BY <2>1, <2>2, <2>3, <2>4 DEF Inv
<1> QED BY <1>1, <1>2, PTL DEF Spec

(* The program keeps its state in shape, the channel within its capacity. *)
THEOREM TypeCorrect == Spec => []TypeOK
<1>1. Inv => TypeOK
  BY DEF Inv
<1> QED BY <1>1, InvHolds, PTL

(* No view is counted twice, and each that is not counted has a reason. *)
THEOREM ViewsCountedHolds == Spec => []ViewsCounted
<1>1. Inv => ViewsCounted
  BY DEF Inv
<1> QED BY <1>1, InvHolds, PTL

(* Only a handler the server gave up waiting for meets a closed channel. *)
THEOREM PanicOnlyWhenForcedHolds == Spec => []PanicOnlyWhenForced
<1>1. Inv => PanicOnlyWhenForced
  BY DEF Inv
<1> QED BY <1>1, InvHolds, PTL

(* The health check's answer was true at some time while it ran. *)
THEOREM HealthSoundHolds == Spec => []HealthSound
<1>1. Inv => HealthSound
  BY DEF Inv
<1> QED BY <1>1, InvHolds, PTL
=============================================================================
