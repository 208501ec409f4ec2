------------------------------- MODULE Serve -------------------------------
(***************************************************************************)
(* The command "baldsky serve" from its start to its exit: the database    *)
(* and its migrations, the goroutines it starts, the HTTP server with      *)
(* requests under way, and the deferred calls that close everything while  *)
(* goroutines nobody waits for go on.                                      *)
(*                                                                         *)
(* What the firehose connection and the workers do is in Firehose,         *)
(* Subscription and NatsPipeline; here they are what the health check sees *)
(* of them.                                                                *)
(***************************************************************************)
EXTENDS ViewMetrics

CONSTANTS
    Handler,    \* requests for a feed served at the same time
    Count,      \* worker.count
    MaxViews,   \* BOUND on the views recorded, per feed
    Loads       \* BOUND on what the clients of a behaviour ask for

ASSUME ServeAssumption ==
    Count \in Nat /\ Loads \subseteq SUBSET {"feeds", "health"}

VARIABLES
    enabled,    \* the roles the configuration enables
    load,       \* whether clients ask for feeds, or about its health
    main,       \* where the command is
    stopping,   \* a signal has arrived: ctx is done
    forced,     \* the server returned with requests still under way
    firehose,   \* of the subscription or publisher: absent, down, dialling or up
    worker,     \* per worker: absent, starting, subscribed or ended
    handler,    \* per request for a feed: idle, querying or recording
    check,      \* the health check under way
    seen        \* what nobody keeps: what was so while it was under way

mainVars == <<enabled, load, main, stopping, forced>>
fleet == <<firehose, worker>>
health == <<check, seen>>
vars == <<metricsVars, mainVars, fleet, handler, health>>

Role == {"server", "subscription", "publisher", "worker"}
Worker == 1..Count

Serving == {"serving", "draining"}
Alive == main # "exited"

(* Which goroutines the roles ask for: the standalone subscription only    *)
(* where nothing else takes the events.                                    *)
WithFirehose ==
    \/ "publisher" \in enabled
    \/ {"subscription", "worker"} \cap enabled = {"subscription"}
Workers == IF "worker" \in enabled THEN Worker ELSE {}

Up == firehose = "up"
Subscribed == {w \in Workers : worker[w] = "subscribed"}

NoCheck == [step |-> "idle", db |-> FALSE, fh |-> FALSE, next |-> 1, ok |-> FALSE]

TypeOK ==
    /\ MetricsTypeOK
    /\ enabled \in SUBSET Role \ {{}} /\ load \in Loads
    /\ main \in {"pinging", "pausing", "migrating", "starting", "waiting",
                 "returned", "metricsClosed", "databaseClosed", "exited"} \cup Serving
    /\ stopping \in BOOLEAN /\ forced \in BOOLEAN
    /\ firehose \in {"absent", "down", "dialling", "up"}
    /\ worker \in [Worker -> {"absent", "starting", "subscribed", "ended"}]
    /\ handler \in [Handler -> {"idle", "querying", "recording"}]
    /\ check \in [step : {"idle", "database", "firehose", "workers", "answered"},
                  db : BOOLEAN, fh : BOOLEAN, next : 1..Count + 1, ok : BOOLEAN]
    /\ seen \in [fhUp : BOOLEAN, fhDown : BOOLEAN,
                 up : SUBSET Worker, down : SUBSET Worker]

Init ==
    /\ MetricsInit
    /\ enabled \in SUBSET Role \ {{}} /\ load \in Loads
    /\ main = "pinging"
    /\ stopping = FALSE /\ forced = FALSE
    /\ firehose = "absent"
    /\ worker = [w \in Worker |-> "absent"]
    /\ handler = [h \in Handler |-> "idle"]
    /\ check = NoCheck
    /\ seen = [fhUp |-> FALSE, fhDown |-> FALSE, up |-> {}, down |-> {}]

-----------------------------------------------------------------------------
(* The command. *)

Signal ==
    /\ Alive /\ ~stopping
    /\ stopping' = TRUE
    /\ UNCHANGED <<metricsVars, enabled, load, main, forced, fleet, handler, health>>

GoesTo(next) ==
    /\ main' = next
    /\ UNCHANGED <<enabled, load, stopping, fleet, handler, health>>

(* db.New's Ping, the first and those of the loop: it takes no ctx.        *)
Connected ==
    /\ main = "pinging"
    /\ GoesTo("migrating")
    /\ UNCHANGED <<metricsVars, forced>>

PingFails ==
    /\ main = "pinging"
    /\ GoesTo("pausing")
    /\ UNCHANGED <<metricsVars, forced>>

(* The select between two Pings is where the signal is noticed, if the     *)
(* ticker does not win.                                                    *)
PingAgain ==
    /\ main = "pausing"
    /\ GoesTo("pinging")
    /\ UNCHANGED <<metricsVars, forced>>

GiveUp ==
    /\ main = "pausing" /\ stopping
    /\ GoesTo("exited")
    /\ UNCHANGED <<metricsVars, forced>>

(* Migrate takes no ctx either, and the user_agent is there.               *)
Migrated ==
    /\ main = "migrating"
    /\ GoesTo("starting")
    /\ UNCHANGED <<metricsVars, forced>>

(* Migrate fails, or there is no user_agent: no metrics to close yet. *)
NotMigrated ==
    /\ main = "migrating"
    /\ GoesTo("metricsClosed")
    /\ UNCHANGED <<metricsVars, forced>>

(* Run and Listen are left to themselves. *)
StartFirehose ==
    /\ main = "starting"
    /\ WithFirehose /\ firehose = "absent"
    /\ firehose' = "down"
    /\ UNCHANGED <<metricsVars, mainVars, worker, handler, health>>

StartWorker(w) ==
    /\ main = "starting"
    /\ WithFirehose => firehose # "absent"
    /\ w \in Workers /\ worker[w] = "absent"
    /\ \A v \in 1..w - 1 : worker[v] # "absent"
    /\ worker' = [worker EXCEPT ![w] = "starting"]
    /\ UNCHANGED <<metricsVars, mainVars, firehose, handler, health>>

(* publisher.New, worker.New or buildPipelines returns an error. *)
StartFails ==
    /\ main = "starting"
    /\ GoesTo("returned")
    /\ UNCHANGED <<metricsVars, forced>>

Started ==
    /\ main = "starting"
    /\ WithFirehose => firehose # "absent"
    /\ \A w \in Workers : worker[w] # "absent"
    /\ GoesTo(IF "server" \in enabled THEN "serving" ELSE "waiting")
    /\ UNCHANGED <<metricsVars, forced>>

(* Without a server: <-ctx.Done(). *)
WaitOver ==
    /\ main = "waiting" /\ stopping
    /\ GoesTo("returned")
    /\ UNCHANGED <<metricsVars, forced>>

Checking == check.step \notin {"idle", "answered"}

(* Requests under way: for a feed, or the health check. *)
Busy == Checking \/ \E h \in Handler : handler[h] # "idle"

ListenFails ==
    /\ main = "serving"
    /\ GoesTo("returned")
    /\ forced' = TRUE
    /\ UNCHANGED metricsVars

StartShutdown ==
    /\ main = "serving" /\ stopping
    /\ GoesTo("draining")
    /\ UNCHANGED <<metricsVars, forced>>

(* Mutant: the server is closed under its requests. *)
ShutdownAtOnce ==
    /\ main = "draining"
    /\ GoesTo("returned")
    /\ UNCHANGED <<metricsVars, forced>>

ShutdownOver ==
    /\ main = "draining" /\ ~Busy
    /\ GoesTo("returned")
    /\ UNCHANGED <<metricsVars, forced>>

(* Mutant: Shutdown has no deadline. *)
ShutdownNeverTimesOut == FALSE /\ UNCHANGED vars

(* Five seconds are over. *)
ShutdownTimesOut ==
    /\ main = "draining" /\ Busy
    /\ GoesTo("returned")
    /\ forced' = TRUE
    /\ UNCHANGED metricsVars

(* The deferred calls. *)
CloseMetrics ==
    /\ main = "returned"
    /\ Close
    /\ GoesTo("metricsClosed")
    /\ UNCHANGED forced

CloseDatabase ==
    /\ main = "metricsClosed"
    /\ GoesTo("databaseClosed")
    /\ UNCHANGED <<metricsVars, forced>>

(* The process takes the goroutines with it. *)
Exit ==
    /\ main = "databaseClosed"
    /\ GoesTo("exited")
    /\ UNCHANGED <<metricsVars, forced>>

Main ==
    \/ Connected \/ PingFails \/ PingAgain \/ GiveUp \/ Migrated \/ NotMigrated
    \/ StartFirehose \/ (\E w \in Worker : StartWorker(w))
    \/ StartFails \/ Started \/ WaitOver
    \/ ListenFails \/ StartShutdown \/ ShutdownOver \/ ShutdownTimesOut
    \/ CloseMetrics \/ CloseDatabase \/ Exit

-----------------------------------------------------------------------------
(* The goroutines it started. *)

Sees(fh, up) ==
    seen' = IF Checking
            THEN [fhUp |-> seen.fhUp \/ fh, fhDown |-> seen.fhDown \/ ~fh,
                  up |-> seen.up \cup up, down |-> seen.down \cup (Workers \ up)]
            ELSE seen

(***************************************************************************)
(* DialContext fails at once when ctx is done; one that was under way may  *)
(* still succeed, and Run then says that it is connected.                  *)
(***************************************************************************)
FirehoseChanges ==
    /\ Alive
    /\ \/ firehose = "down" /\ ~stopping /\ firehose' = "dialling"
       \/ firehose = "dialling" /\ firehose' \in {"down", "up"}
       \/ Up /\ firehose' = "down"
    /\ Sees(Up', Subscribed)
    /\ UNCHANGED <<metricsVars, mainVars, worker, handler, check>>

WorkerSubscribes(w) ==
    /\ Alive /\ worker[w] = "starting"
    /\ worker' = [worker EXCEPT ![w] = "subscribed"]
    /\ Sees(Up, Subscribed \cup {w})
    /\ UNCHANGED <<metricsVars, mainVars, firehose, handler, check>>

(* QueueSubscribe fails, or ctx is done: Run returns, for good. *)
WorkerEnds(w) ==
    /\ Alive
    /\ \/ worker[w] = "starting"
       \/ worker[w] = "subscribed" /\ stopping
    /\ worker' = [worker EXCEPT ![w] = "ended"]
    /\ Sees(Up, Subscribed \ {w})
    /\ UNCHANGED <<metricsVars, mainVars, firehose, handler, check>>

(* MetricsService.Run, with the database until that is closed. *)
Write ==
    /\ Alive /\ main \notin {"pinging", "pausing", "migrating"}
    /\ \/ Receive \/ EndRun \/ WriteFails
       \/ main # "databaseClosed" /\ Written
    /\ UNCHANGED <<mainVars, fleet, handler, health>>

-----------------------------------------------------------------------------
(* Requests. *)

(***************************************************************************)
(* The server takes requests while it drains too, on connections that were *)
(* open, and after a forced return; none once Shutdown has found all       *)
(* connections idle.                                                       *)
(***************************************************************************)
Listening ==
    \/ main \in Serving
    \/ forced /\ main \in {"returned", "metricsClosed", "databaseClosed"}

Ask(h) ==
    /\ Listening /\ handler[h] = "idle"
    /\ "feeds" \in load /\ \A f \in Feed : viewed[f] < MaxViews
    /\ handler' = [handler EXCEPT ![h] = "querying"]
    /\ UNCHANGED <<metricsVars, mainVars, fleet, health>>

(* handleGetFeedSkeleton has its page and answers, or an error. *)
Answer(h) ==
    /\ Alive /\ handler[h] = "querying"
    /\ \/ handler' = [handler EXCEPT ![h] = "idle"]
       \/ /\ main # "databaseClosed"
          /\ handler' = [handler EXCEPT ![h] = "recording"]
    /\ UNCHANGED <<metricsVars, mainVars, fleet, health>>

Record(h) ==
    /\ Alive /\ handler[h] = "recording"
    /\ \E f \in Feed : RecordView(f)
    /\ handler' = [handler EXCEPT ![h] = "idle"]
    /\ UNCHANGED <<mainVars, fleet, health>>

HealthBegins ==
    /\ Listening /\ ~Checking /\ "health" \in load
    /\ check' = [NoCheck EXCEPT !.step = "database"]
    /\ seen' = [fhUp |-> Up, fhDown |-> ~Up,
                up |-> Subscribed, down |-> Workers \ Subscribed]
    /\ UNCHANGED <<metricsVars, mainVars, fleet, handler>>

Ping ==
    /\ Alive /\ check.step = "database"
    /\ \E db \in BOOLEAN :
           /\ db => main # "databaseClosed"
           /\ check' = [check EXCEPT !.step = "firehose", !.db = db]
    /\ UNCHANGED <<metricsVars, mainVars, fleet, handler, seen>>

(* Status 200 or 503. *)
Healthy(db, fh, workers) == db /\ (fh \/ workers \/ (~WithFirehose /\ Workers = {}))

Answered(db, fh, workers) ==
    check' = [NoCheck EXCEPT !.step = "answered", !.db = db,
                             !.ok = Healthy(db, fh, workers)]

CheckFirehose ==
    /\ Alive /\ check.step = "firehose"
    /\ IF Workers = {}
       THEN Answered(check.db, Up, FALSE)
       ELSE check' = [check EXCEPT !.step = "workers", !.fh = Up]
    /\ UNCHANGED <<metricsVars, mainVars, fleet, handler, seen>>

(* Mutant: the loop has no break, and the last worker decides. *)
CheckWorkerGoesOn ==
    /\ Alive /\ check.step = "workers"
    /\ IF check.next < Count
       THEN check' = [check EXCEPT !.next = @ + 1]
       ELSE Answered(check.db, check.fh, check.next \in Subscribed)
    /\ UNCHANGED <<metricsVars, mainVars, fleet, handler, seen>>

(* One worker after the other, up to the first that is not connected. *)
CheckWorker ==
    /\ Alive /\ check.step = "workers"
    /\ IF check.next \in Subscribed /\ check.next < Count
       THEN check' = [check EXCEPT !.next = @ + 1]
       ELSE Answered(check.db, check.fh, check.next \in Subscribed)
    /\ UNCHANGED <<metricsVars, mainVars, fleet, handler, seen>>

Requests ==
    \/ \E h \in Handler : Ask(h) \/ Answer(h) \/ Record(h)
    \/ HealthBegins \/ Ping \/ CheckFirehose \/ CheckWorker

Next ==
    \/ Signal
    \/ Main
    \/ FirehoseChanges
    \/ \E w \in Worker : WorkerSubscribes(w) \/ WorkerEnds(w)
    \/ Write
    \/ Requests

Spec == Init /\ [][Next]_vars
-----------------------------------------------------------------------------
(* Safety. *)

(***************************************************************************)
(* Close comes after the last send: a handler meets a closed channel only  *)
(* when the server gave up waiting for it.                                 *)
(***************************************************************************)
PanicOnlyWhenForced == "panic" \in missed => forced

(***************************************************************************)
(* The health check reads the firehose and the workers one after the other *)
(* while they come and go.  It says 200 only if, since it began, the       *)
(* firehose or each of the workers was connected (or there is neither),    *)
(* and 503 for their sake only if, since then, the firehose and one of the *)
(* workers, where there are some, were not.                                *)
(***************************************************************************)
HealthSound ==
    check.step = "answered" =>
        IF check.ok
        THEN \/ seen.fhUp
             \/ Workers # {} /\ seen.up = Workers
             \/ ~WithFirehose /\ Workers = {}
        ELSE check.db => /\ WithFirehose \/ Workers # {}
                         /\ seen.fhDown
                         /\ Workers # {} => seen.down # {}

(***************************************************************************)
(* Why they hold.  The server returns under no request but by force, and   *)
(* the channel is closed after that.  While the health check runs, what is *)
(* so is seen, and what it has read was seen.                              *)
(***************************************************************************)
Quiet ==
    /\ closed => main \in {"metricsClosed", "databaseClosed", "exited"}
    /\ main \notin Serving /\ ~forced => ~Busy

ReadIsSeen ==
    /\ Checking => /\ IF Up THEN seen.fhUp ELSE seen.fhDown
                   /\ Subscribed \subseteq seen.up
                   /\ Workers \ Subscribed \subseteq seen.down
    /\ check.step \in {"database", "firehose"} => check.next = 1
    /\ check.step = "workers" =>
           /\ Workers # {} /\ check.next <= Count
           /\ IF check.fh THEN seen.fhUp ELSE seen.fhDown
           /\ 1..check.next - 1 \subseteq seen.up

-----------------------------------------------------------------------------
(* Liveness. *)

(* The calls that take no ctx and have no deadline.                        *)
AtDatabase == main \in {"pinging", "migrating"}

(***************************************************************************)
(* The command goes on from where its calls return: Shutdown, RecordView   *)
(* and nats.Connect have deadlines, the rest does not wait.  Ping and      *)
(* Migrate may hang for ever, and so may requests.  db.New's select takes  *)
(* one of its ready cases at random: it does not prefer the ticker for     *)
(* ever.                                                                   *)
(***************************************************************************)
Fairness ==
    /\ WF_vars(Main /\ ~AtDatabase /\ main \notin {"pausing", "serving"})
    /\ SF_vars(GiveUp) /\ WF_vars(StartShutdown)
    /\ WF_vars(Write)

FairSpec == Spec /\ Fairness

(***************************************************************************)
(* A signal ends the program, whatever its requests do and however often   *)
(* the database refuses it, unless db.Ping or Migrate never returns: the   *)
(* signal is caught, so a program that hangs there goes on.                *)
(***************************************************************************)
StopEnds == []<>~AtDatabase => (stopping ~> ~Alive)

(* Run goes on after errors: a full channel does not stay full. *)
QueueMoves == Full ~> (~Full \/ ~Alive)
=============================================================================
