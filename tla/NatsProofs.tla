----------------------------- MODULE NatsProofs -----------------------------
(***************************************************************************)
(* The distributed deployment keeps its types, keeps each repo in order up *)
(* to the broker, and loses no commit without one of the mishaps it names, *)
(* for every network, configuration and number of handlers and workers.    *)
(***************************************************************************)
EXTENDS NatsPipeline, IngestionProofs, FiniteSetTheorems,
        SequenceTheorems

(* What the type invariant says of the variables of this module. *)
OwnTypes(n) ==
    /\ cursor \in 0..n
    /\ stage \in [Worker -> {"new", "published", "flushed"}]
    /\ outbox \in Seq(1..n)
    /\ running \subseteq Consumer
    /\ interest \subseteq running
    /\ wire \in [Consumer -> Seq(1..n)]
    /\ inbox \in [Consumer -> Seq(1..n)]
    /\ job \in [Consumer -> 0..n]
    /\ consumed \subseteq 1..n
    /\ hit \subseteq 1..n
    /\ reconnected \in BOOLEAN
    /\ trouble \in 0..MaxTrouble

(* Every step of the pipeline is one of the firehose or leaves it alone. *)
LEMMA NextIsFirehoseStep ==
    ASSUME TypeOK, [Next]_vars
    PROVE  FirehoseStep \/ UNCHANGED fhVars
  <1>1. CASE Relay \/ Subscribe \/ SubscribeFails \/ Reconnect \/ ReadCommit
             \/ Disconnect \/ Shutdown \/ PublisherCrash \/ LoseOutbox
    BY <1>1 DEF FirehoseStep, TypeOK, Relay, Subscribe, SubscribeFails, Reconnect,
                ReadCommit, Disconnect, Shutdown, PublisherCrash, LoseOutbox
  <1>2. CASE \E w \in Worker : StartCommit(w) \/ HandleCommit(w)
    BY <1>2 DEF FirehoseStep, StartCommit, HandleCommit, SkipTooBig, Publish,
                PublishFails, Flush, FlushFails, Confirm, Return
  <1>3. CASE \/ \E c \in Consumer : Deliver(c) \/ Detach(c) \/ Attach(c)
             \/ NobodyListens
    BY <1>3 DEF Deliver, Detach, Attach, NobodyListens, publisher
  <1>4. CASE \E c \in Consumer : WorkerStep(c)
    BY <1>4 DEF WorkerStep, Join, Arrive, Take, ProcessEvent, Consume, StopWorker,
                ExitWorker, publisher
  <1>5. CASE UNCHANGED vars
    BY <1>5 DEF vars, publisher
  <1> QED
    BY <1>1, <1>2, <1>3, <1>4, <1>5 DEF Next

(* Only the relay makes the log longer. *)
LEMMA LogKept ==
    ASSUME TypeOK, [Next]_vars
    PROVE  /\ log \in Seq(Commit) /\ Len(log) \in Nat
           /\ UNCHANGED log \/ Relay
  <1>1. log \in Seq(Commit) /\ Len(log) \in Nat
    BY DEF TypeOK, FirehoseTypeOK
  <1>2. UNCHANGED log \/ Relay
    BY DEF Next, vars, fhVars, publisher, Subscribe, SubscribeFails, Reconnect,
           ReadCommit, Disconnect, Shutdown, PublisherCrash, LoseOutbox, StartCommit,
           HandleCommit, SkipTooBig, Publish, PublishFails, Flush, FlushFails,
           Confirm, Return, Deliver, Detach, Attach, NobodyListens, WorkerStep,
           Join, Arrive, Take, ProcessEvent, Consume, StopWorker, ExitWorker, Connect,
           ConnectFails, BackoffOver, Read, Drop, Drained, Restart, Dispatch, Finish
  <1> QED
    BY <1>1, <1>2

-----------------------------------------------------------------------------
(* Types. *)

(* A longer log has the places of a shorter one. *)
LEMMA RelayTypes ==
    ASSUME TypeOK, Relay
    PROVE  OwnTypes(Len(log))' /\ ProcessorTypeOK(Consumer)'
  <1>1. /\ Len(log) \in Nat /\ Len(log') = Len(log) + 1
        /\ UNCHANGED <<others, accidents>>
    BY EmitAppends DEF Relay, TypeOK, FirehoseTypeOK
  <1>2. 1..Len(log) \subseteq 1..Len(log') /\ 0..Len(log) \subseteq 0..Len(log')
    BY <1>1
  <1>3. \A q \in Seq(1..Len(log)) : q \in Seq(1..Len(log'))
    BY <1>2, SeqMonotonic
  <1> QED
    BY <1>1, <1>2, <1>3
    DEF TypeOK, OwnTypes, ProcessorTypeOK, others, accidents, mishaps, tables,
        workers, members, procVars

(* The connection and the end of the publisher's process. *)
LEMMA ConnectionTypes ==
    ASSUME TypeOK,
           \/ Subscribe \/ SubscribeFails \/ Reconnect \/ ReadCommit
           \/ Disconnect \/ Shutdown \/ PublisherCrash \/ LoseOutbox
           \/ \E w \in Worker : StartCommit(w)
           \/ UNCHANGED vars
    PROVE  OwnTypes(Len(log))' /\ ProcessorTypeOK(Consumer)'
  <1>1. /\ UNCHANGED <<log, tables, workers>>
        /\ stage' = stage \/ stage' = [w \in Worker |-> "new"]
        /\ outbox' = outbox \/ outbox' = <<>>
        /\ hit' \subseteq hit \cup InOutbox
        /\ reconnected' \in BOOLEAN
        /\ trouble' = trouble \/ Trouble
    BY DEF Subscribe, SubscribeFails, Reconnect, ReadCommit, Disconnect, Shutdown,
           PublisherCrash, LoseOutbox, StartCommit, Connect, ConnectFails, BackoffOver,
           Read, Drop, Drained, Restart, Dispatch, Hit, others, accidents, mishaps,
           vars, publisher, fhVars, TypeOK
  <1>2. trouble' \in 0..MaxTrouble
    BY <1>1, NatsAssumption DEF TypeOK, Trouble
  <1>3. <<>> \in Seq(1..Len(log))
    OBVIOUS
  <1>4. InOutbox \subseteq 1..Len(log)
    BY ElementOfSeq DEF TypeOK, InOutbox
  <1> QED
    BY <1>1, <1>2, <1>3, <1>4
    DEF TypeOK, OwnTypes, ProcessorTypeOK, tables, workers, members, procVars

(* The publisher's handlers. *)
LEMMA HandlerTypes ==
    ASSUME TypeOK, SchedulerInv, NEW w \in Worker, HandleCommit(w)
    PROVE  OwnTypes(Len(log))' /\ ProcessorTypeOK(Consumer)'
  <1>1. /\ UNCHANGED <<log, procVars, workers>>
        /\ cursor' \in {cursor, task[w]}
        /\ \E st \in {"new", "published", "flushed"} : stage' = [stage EXCEPT ![w] = st]
        /\ outbox' \in {outbox, Append(outbox, task[w])}
        /\ hit' \subseteq hit \cup {task[w]}
        /\ reconnected' = reconnected
        /\ trouble' = trouble \/ Trouble
    BY DEF HandleCommit, SkipTooBig, Publish, PublishFails, Flush, FlushFails,
           Confirm, Return, Finish, SaveCursor, UpsertCursor, Call, Hit, tables,
           fhVars, accidents, mishaps
  <1>2. task[w] # Nothing \/ UNCHANGED <<outbox, cursor, hit>>
    BY DEF HandleCommit, SkipTooBig, Publish, PublishFails, Flush, FlushFails,
           Confirm, Return, Finish, tables, accidents, mishaps
  <1>3. task[w] \in 1..Len(log) \/ UNCHANGED <<outbox, cursor, hit>>
    BY <1>2, InTheLog DEF TypeOK
  <1>4. cursor' \in 0..Len(log) /\ outbox' \in Seq(1..Len(log))
    <2>1. task[w] \in 1..Len(log) => Append(outbox, task[w]) \in Seq(1..Len(log))
      BY AppendProperties DEF TypeOK
    <2>2. 1..Len(log) \subseteq 0..Len(log)
      BY DEF TypeOK, FirehoseTypeOK
    <2> QED
      BY <1>1, <1>3, <2>1, <2>2 DEF TypeOK
  <1>5. trouble' \in 0..MaxTrouble
    BY <1>1, NatsAssumption DEF TypeOK, Trouble
  <1>6. stage' \in [Worker -> {"new", "published", "flushed"}]
    BY <1>1 DEF TypeOK
  <1>7. hit' \subseteq 1..Len(log) /\ reconnected' \in BOOLEAN
    BY <1>1, <1>3 DEF TypeOK
  <1> QED
    BY <1>1, <1>4, <1>5, <1>6, <1>7
    DEF TypeOK, OwnTypes, ProcessorTypeOK, workers, members, procVars

(* The broker. *)
LEMMA BrokerTypes ==
    ASSUME TypeOK, \/ \E c \in Consumer : Deliver(c) \/ Detach(c) \/ Attach(c)
                   \/ NobodyListens
    PROVE  OwnTypes(Len(log))' /\ ProcessorTypeOK(Consumer)'
  <1>1. /\ UNCHANGED <<log, procVars, cursor, stage, running, inbox, job, consumed,
                       reconnected>>
        /\ outbox' = outbox \/ (outbox # <<>> /\ outbox' = Tail(outbox))
        /\ interest' \subseteq running
        /\ trouble' = trouble \/ Trouble
    BY DEF Deliver, Detach, Attach, NobodyListens, Hit, publisher, tables,
           members, workers, fhVars, accidents, mishaps, TypeOK
  <1>2. outbox' \in Seq(1..Len(log)) /\ (outbox # <<>> => Head(outbox) \in 1..Len(log))
    <2>1. outbox \in Seq(1..Len(log))
      BY DEF TypeOK
    <2>2. outbox # <<>> => /\ Head(outbox) \in 1..Len(log)
                           /\ Tail(outbox) \in Seq(1..Len(log))
      BY <2>1, HeadTailProperties
    <2> QED
      BY <1>1, <2>1, <2>2
  <1>3. wire' \in [Consumer -> Seq(1..Len(log))]
    <2>1. \/ wire' = wire
          \/ \E c \in Consumer : wire' = [wire EXCEPT ![c] = <<>>]
          \/ outbox # <<>> /\ \E c \in Consumer :
                 wire' = [wire EXCEPT ![c] = Append(@, Head(outbox))]
      BY DEF Deliver, Detach, Attach, NobodyListens, publisher, workers
    <2>2. ASSUME NEW c \in Consumer, outbox # <<>>
          PROVE  Append(wire[c], Head(outbox)) \in Seq(1..Len(log))
      BY <1>2, <2>2, AppendProperties DEF TypeOK
    <2>3. <<>> \in Seq(1..Len(log))
      OBVIOUS
    <2> QED
      BY <2>1, <2>2, <2>3 DEF TypeOK
  <1>4. trouble' \in 0..MaxTrouble
    BY <1>1, NatsAssumption DEF TypeOK, Trouble
  <1>5. hit' \subseteq 1..Len(log)
    <2>1. \A c \in Consumer : InWire(c) \subseteq 1..Len(log)
      BY ElementOfSeq DEF TypeOK, InWire
    <2>2. \/ hit' = hit
          \/ \E c \in Consumer : hit' = hit \cup InWire(c)
          \/ outbox # <<>> /\ hit' = hit \cup {Head(outbox)}
      BY DEF Deliver, Detach, Attach, NobodyListens, Hit, accidents, mishaps
    <2> QED
      BY <1>2, <2>1, <2>2 DEF TypeOK
  <1> QED
    BY <1>1, <1>2, <1>3, <1>4, <1>5 DEF TypeOK, OwnTypes, ProcessorTypeOK, procVars

(* The workers. *)
LEMMA WorkerTypes ==
    ASSUME TypeOK, NEW c \in Consumer, WorkerStep(c)
    PROVE  OwnTypes(Len(log))' /\ ProcessorTypeOK(Consumer)'
  <1>1. /\ UNCHANGED <<log, stage, outbox>>
        /\ cursor' \in {cursor, job[c]}
        /\ running' \subseteq Consumer /\ interest' \subseteq running'
        /\ reconnected' = reconnected
        /\ trouble' = trouble \/ Trouble
    BY DEF WorkerStep, Join, Arrive, Take, ProcessEvent, Consume, StopWorker,
           ExitWorker, SaveCursor, UpsertCursor, Call, Hit, publisher, tables, members,
           workers, fhVars, accidents, mishaps, TypeOK
  <1>2. /\ wire' \in [Consumer -> Seq(1..Len(log))]
        /\ inbox' \in [Consumer -> Seq(1..Len(log))]
        /\ job' \in [Consumer -> 0..Len(log)]
        /\ hit' \subseteq 1..Len(log)
    <2>1. CASE Take(c)
      <3>1. inbox[c] \in Seq(1..Len(log)) /\ inbox[c] # <<>>
        BY <2>1 DEF Take, TypeOK
      <3>2. Head(inbox[c]) \in 1..Len(log) /\ Tail(inbox[c]) \in Seq(1..Len(log))
        BY <3>1, HeadTailProperties
      <3> QED
        BY <2>1, <3>2 DEF Take, TypeOK, accidents, mishaps
    <2>2. CASE Arrive(c)
      <3>1. wire[c] \in Seq(1..Len(log)) /\ wire[c] # <<>>
        BY <2>2 DEF Arrive, TypeOK
      <3>2. Head(wire[c]) \in 1..Len(log) /\ Tail(wire[c]) \in Seq(1..Len(log))
        BY <3>1, HeadTailProperties
      <3>3. Append(inbox[c], Head(wire[c])) \in Seq(1..Len(log))
        BY <3>2, AppendProperties DEF TypeOK
      <3>4. wire' = [wire EXCEPT ![c] = Tail(@)] /\ job' = job
        BY <2>2 DEF Arrive
      <3>5. \/ inbox' = [inbox EXCEPT ![c] = Append(@, Head(wire[c]))] /\ hit' = hit
            \/ inbox' = inbox /\ hit' = hit \cup {Head(wire[c])}
        BY <2>2 DEF Arrive, Hit, mishaps
      <3> QED
        BY <3>2, <3>3, <3>4, <3>5 DEF TypeOK
    <2>3. CASE ~Take(c) /\ ~Arrive(c)
      <3>1. /\ wire' \in {wire, [wire EXCEPT ![c] = <<>>]}
            /\ inbox' \in {inbox, [inbox EXCEPT ![c] = <<>>]}
            /\ job' \in {job, [job EXCEPT ![c] = Nothing]}
            /\ hit' \subseteq hit \cup InWire(c) \cup InInbox(c) \cup ({job[c]} \ {Nothing})
        BY <2>3 DEF WorkerStep, Join, ProcessEvent, Consume, StopWorker, ExitWorker,
                    workers, Hit, accidents, mishaps
      <3>2. <<>> \in Seq(1..Len(log)) /\ Nothing \in 0..Len(log)
        BY DEF Nothing, TypeOK, FirehoseTypeOK
      <3>3. InWire(c) \subseteq 1..Len(log) /\ InInbox(c) \subseteq 1..Len(log)
        <4>1. wire[c] \in Seq(1..Len(log)) /\ inbox[c] \in Seq(1..Len(log))
          BY DEF TypeOK
        <4> QED
          BY <4>1, ElementOfSeq DEF InWire, InInbox
      <3>4. {job[c]} \ {Nothing} \subseteq 1..Len(log)
        BY DEF TypeOK, FirehoseTypeOK, Nothing
      <3> QED
        BY <3>1, <3>2, <3>3, <3>4 DEF TypeOK
    <2> QED
      BY <2>1, <2>2, <2>3
  <1>3. consumed' \subseteq 1..Len(log)
    <2>1. job[c] # Nothing => job[c] \in 1..Len(log)
      BY DEF TypeOK, FirehoseTypeOK, Nothing
    <2>2. consumed' = consumed \/ (job[c] # Nothing /\ consumed' = consumed \cup {job[c]})
      BY DEF WorkerStep, Join, Arrive, Take, ProcessEvent, Consume, StopWorker, ExitWorker,
             workers
    <2> QED
      BY <2>1, <2>2 DEF TypeOK
  <1>4. trouble' \in 0..MaxTrouble
    BY <1>1, NatsAssumption DEF TypeOK, Trouble
  <1>6. ProcessorTypeOK(Consumer)'
    <2>1. CASE \E ok \in BOOLEAN : ProcessEvent(c, ok)
      <3>1. job[c] # Nothing => job[c] \in Nat /\ log[job[c]] \in Commit
        BY DEF TypeOK, FirehoseTypeOK, Nothing
      <3>2. PICK ok \in BOOLEAN, s \in Nat, d \in Commit : ProcessStep(c, s, d, ok)
        BY <2>1, <3>1 DEF ProcessEvent
      <3> QED
        BY <3>2, ProcessStepType DEF TypeOK
    <2>2. CASE (\E ok \in BOOLEAN : Consume(c, ok)) \/ ExitWorker(c)
      <3>1. Start \in [op : Nat \ {0}, pipe : 1..Len(Configs)]
        BY ProcessorAssumption DEF Start
      <3>2. UNCHANGED <<posts, failed>> /\ at' = [at EXCEPT ![c] = Start]
        BY <2>2 DEF Consume, ExitWorker
      <3>3. ProcessorTypeOK(Consumer)
        BY DEF TypeOK
      <3> QED
        BY <3>1, <3>2, <3>3 DEF ProcessorTypeOK
    <2>3. CASE Join(c) \/ Arrive(c) \/ Take(c) \/ StopWorker(c)
      BY <2>3 DEF Join, Arrive, Take, StopWorker, tables, procVars, TypeOK, ProcessorTypeOK
    <2> QED
      BY <2>1, <2>2, <2>3 DEF WorkerStep
  <1> QED
    BY <1>1, <1>2, <1>3, <1>4, <1>6 DEF TypeOK, OwnTypes

IndInv == TypeOK /\ SchedulerInv

(* An empty pipeline satisfies the invariant. *)
LEMMA InitIndInv == Init => IndInv
  <1> SUFFICES ASSUME Init PROVE IndInv
    OBVIOUS
  <1>1. FirehoseTypeOK
    BY FirehoseInitType DEF Init
  <1>2. SchedulerInv
    BY EmptyScheduler DEF Init, FirehoseInit
  <1>3. ProcessorTypeOK(Consumer)
    BY ProcessorAssumption DEF Init, ProcessorInit, ProcessorTypeOK, Start
  <1>4. OwnTypes(Len(log))
    <2>1. Len(log) = 0
      BY DEF Init, FirehoseInit
    <2> QED
      <3>1. /\ outbox \in Seq(1..0)
            /\ wire \in [Consumer -> Seq(1..0)] /\ inbox \in [Consumer -> Seq(1..0)]
        BY DEF Init
      <3>2. /\ cursor \in 0..0 /\ job \in [Consumer -> 0..0] /\ trouble \in 0..MaxTrouble
        BY NatsAssumption DEF Init, NoCursor, Nothing
      <3> QED
        BY <2>1, <3>1, <3>2 DEF Init, OwnTypes
  <1> QED
    BY <1>1, <1>2, <1>3, <1>4 DEF IndInv, TypeOK, OwnTypes

(* And every step keeps it. *)
LEMMA NextIndInv == IndInv /\ [Next]_vars => IndInv'
  <1> SUFFICES ASSUME IndInv, [Next]_vars PROVE IndInv'
    OBVIOUS
  <1> USE DEF IndInv
  <1>1. FirehoseTypeOK' /\ SchedulerInv'
    BY NextIsFirehoseStep, FirehoseTypeStep, SchedulerInvStep, FirehoseStutter
    DEF TypeOK, SchedulerInv
  <1>2. OwnTypes(Len(log))' /\ ProcessorTypeOK(Consumer)'
    BY RelayTypes, ConnectionTypes, HandlerTypes, BrokerTypes, WorkerTypes DEF Next
  <1> QED
    BY <1>1, <1>2 DEF TypeOK, OwnTypes

(* Hence it holds throughout. *)
LEMMA SpecIndInv == Spec => []IndInv
  BY InitIndInv, NextIndInv, PTL DEF Spec

(* Buffers, jobs and the cursor hold places of the log, and rows are rows. *)
THEOREM TypeCorrect == Spec => []TypeOK
  <1>1. IndInv => TypeOK
    BY DEF IndInv
  <1> QED
    BY <1>1, SpecIndInv, PTL

-----------------------------------------------------------------------------
(* What a step does to the commits that were delivered. *)

(* The members of a sequence to which one is appended. *)
LEMMA AppendMembers ==
    ASSUME NEW S, NEW q \in Seq(S), NEW e \in S, NEW x
    PROVE  (\E i \in 1..Len(Append(q, e)) : x = Append(q, e)[i])
               <=> x = e \/ \E i \in 1..Len(q) : x = q[i]
  <1>1. /\ Len(q) \in Nat /\ Len(Append(q, e)) = Len(q) + 1
        /\ \A i \in 1..Len(q) : Append(q, e)[i] = q[i]
        /\ Append(q, e)[Len(q) + 1] = e
    BY AppendProperties, LenProperties
  <1>2. 1..Len(q) + 1 = 1..Len(q) \cup {Len(q) + 1}
    BY <1>1
  <1> QED
    BY <1>1, <1>2

(* And those of one whose head goes. *)
LEMMA TailMembers ==
    ASSUME NEW S, NEW q \in Seq(S), q # <<>>, NEW x
    PROVE  (\E i \in 1..Len(q) : x = q[i])
               <=> x = Head(q) \/ \E i \in 1..Len(Tail(q)) : x = Tail(q)[i]
  <1> DEFINE n == Len(q) - 1
  <1>1. /\ n \in Nat /\ Len(q) = n + 1 /\ Len(Tail(q)) = n /\ Head(q) = q[1]
        /\ \A i \in 1..n : Tail(q)[i] = q[i + 1]
    BY HeadTailProperties, LenProperties, EmptySeq
  <1>2. ASSUME NEW j \in 1..Len(q), x = q[j], x # Head(q)
        PROVE  \E i \in 1..Len(Tail(q)) : x = Tail(q)[i]
    <2>1. j - 1 \in 1..n /\ j = (j - 1) + 1
      BY <1>1, <1>2
    <2> QED
      BY <1>1, <1>2, <2>1
  <1>3. ASSUME NEW i \in 1..Len(Tail(q)), x = Tail(q)[i]
        PROVE  \E j \in 1..Len(q) : x = q[j]
    <2>1. i + 1 \in 1..Len(q) /\ x = q[i + 1]
      BY <1>1, <1>3
    <2> QED
      BY <2>1
  <1>4. 1 \in 1..Len(q)
    BY <1>1
  <1> QED
    BY <1>1, <1>2, <1>3, <1>4

Members(q) == {q[i] : i \in 1..Len(q)}

LEMMA AppendSet ==
    ASSUME NEW S, NEW q \in Seq(S), NEW e \in S
    PROVE  Members(Append(q, e)) = Members(q) \cup {e}
  <1>1. \A x : (\E i \in 1..Len(Append(q, e)) : x = Append(q, e)[i])
                   <=> x = e \/ \E i \in 1..Len(q) : x = q[i]
    BY AppendMembers
  <1> QED
    BY <1>1 DEF Members

LEMMA TailSet ==
    ASSUME NEW S, NEW q \in Seq(S), q # <<>>
    PROVE  Members(q) = Members(Tail(q)) \cup {Head(q)}
  <1>1. \A x : (\E i \in 1..Len(q) : x = q[i])
                   <=> x = Head(q) \/ \E i \in 1..Len(Tail(q)) : x = Tail(q)[i]
    BY TailMembers
  <1> QED
    BY <1>1 DEF Members

LEMMA EmptyMembers == Members(<<>>) = {}
  BY DEF Members

(* The commits in a worker's hands or on their way to it. *)
Hands(c) == ({job[c]} \ {Nothing}) \cup InWire(c) \cup InInbox(c)

(* They are places of the log. *)
LEMMA DeliveredIn ==
    ASSUME TypeOK
    PROVE  /\ \A c \in Consumer : Hands(c) \subseteq Delivered
           /\ \A x \in Delivered : x \in consumed \/ \E c \in Consumer : x \in Hands(c)
           /\ consumed \subseteq Delivered
           /\ Delivered \subseteq 1..Len(log) /\ InOutbox \subseteq 1..Len(log)
  <1>1. \A c \in Consumer : {job[c]} \ {Nothing} \subseteq 1..Len(log)
    BY DEF TypeOK, FirehoseTypeOK, Nothing
  <1>2. \A c \in Consumer : InWire(c) \subseteq 1..Len(log)
    <2>1. \A c \in Consumer : wire[c] \in Seq(1..Len(log))
      BY DEF TypeOK
    <2> QED
      BY <2>1, ElementOfSeq DEF InWire
  <1>3. \A c \in Consumer : InInbox(c) \subseteq 1..Len(log)
    <2>1. \A c \in Consumer : inbox[c] \in Seq(1..Len(log))
      BY DEF TypeOK
    <2> QED
      BY <2>1, ElementOfSeq DEF InInbox
  <1>4. InOutbox \subseteq 1..Len(log)
    BY ElementOfSeq DEF TypeOK, InOutbox
  <1>5. Nothing \notin 1..Len(log) /\ consumed \subseteq 1..Len(log)
    BY DEF Nothing, TypeOK
  <1>6. \A c \in Consumer : Hands(c) \subseteq 1..Len(log)
    BY <1>1, <1>2, <1>3 DEF Hands
  <1> QED
    BY <1>4, <1>5, <1>6 DEF Delivered, Hands

(* And so are they in the next state. *)
LEMMA DeliveredInNext ==
    ASSUME TypeOK'
    PROVE  /\ \A c \in Consumer : Hands(c)' \subseteq Delivered'
           /\ \A x \in Delivered' : x \in consumed' \/ \E c \in Consumer : x \in Hands(c)'
           /\ consumed' \subseteq Delivered'
           /\ Delivered' \subseteq 1..Len(log') /\ InOutbox' \subseteq 1..Len(log')
  <1>1. \A c \in Consumer : {job'[c]} \ {Nothing} \subseteq 1..Len(log')
    BY DEF TypeOK, FirehoseTypeOK, Nothing
  <1>2. \A c \in Consumer : InWire(c)' \subseteq 1..Len(log')
    <2>1. \A c \in Consumer : wire'[c] \in Seq(1..Len(log'))
      BY DEF TypeOK
    <2> QED
      BY <2>1, ElementOfSeq DEF InWire
  <1>3. \A c \in Consumer : InInbox(c)' \subseteq 1..Len(log')
    <2>1. \A c \in Consumer : inbox'[c] \in Seq(1..Len(log'))
      BY DEF TypeOK
    <2> QED
      BY <2>1, ElementOfSeq DEF InInbox
  <1>4. InOutbox' \subseteq 1..Len(log')
    BY ElementOfSeq DEF TypeOK, InOutbox
  <1>5. Nothing \notin 1..Len(log') /\ consumed' \subseteq 1..Len(log')
    BY DEF Nothing, TypeOK
  <1>6. \A c \in Consumer : Hands(c)' \subseteq 1..Len(log')
    BY <1>1, <1>2, <1>3 DEF Hands
  <1> QED
    BY <1>4, <1>5, <1>6 DEF Delivered, Hands

(***************************************************************************)
(* Commits only move on: from the publisher's buffer to a worker's hands,  *)
(* from there to those consumed, or to those a mishap hit.                 *)
(***************************************************************************)
Moved ==
    /\ InOutbox \subseteq (InOutbox \cup Delivered \cup hit)'
    /\ \A c \in Consumer : Hands(c) \subseteq (Delivered \cup hit)'
    /\ \A c \in Consumer : Hands(c)' \subseteq Delivered \cup InOutbox
    /\ consumed \subseteq consumed' /\ consumed' \subseteq consumed \cup Delivered
    /\ hit \subseteq hit'

(* The steps of the broker and of the workers are such moves. *)
LEMMA BrokerMovesOn ==
    ASSUME TypeOK, TypeOK', \/ \E c \in Consumer : Deliver(c) \/ Detach(c) \/ Attach(c)
                            \/ NobodyListens
    PROVE  Moved
  <1>1. \A d \in Consumer : Hands(d) \subseteq Delivered
    BY DeliveredIn
  <1>2. \A d \in Consumer : Hands(d)' \subseteq Delivered'
    BY DeliveredInNext
  <1>3. InOutbox = Members(outbox) /\ InOutbox' = Members(outbox')
    BY DEF InOutbox, Members
  <1>4. outbox # <<>> => InOutbox = Members(Tail(outbox)) \cup {Head(outbox)}
    <2> DEFINE S == 1..Len(log)
    <2>1. outbox \in Seq(S)
      BY DEF TypeOK
    <2> HIDE DEF S
    <2> QED
      BY <1>3, <2>1, TailSet
  <1>5. UNCHANGED <<inbox, job, consumed>>
    BY DEF Deliver, Detach, Attach, NobodyListens, workers
  <1>6. ASSUME NEW c \in Consumer, Deliver(c) PROVE Moved
    <2>1. /\ outbox # <<>> /\ outbox' = Tail(outbox) /\ hit' = hit
          /\ wire' = [wire EXCEPT ![c] = Append(@, Head(outbox))]
      BY <1>6 DEF Deliver, accidents, mishaps
    <2>2. InWire(c)' = InWire(c) \cup {Head(outbox)}
      <3> DEFINE S == 1..Len(log)
      <3>1. wire[c] \in Seq(S) /\ Head(outbox) \in S
        BY <2>1, HeadTailProperties DEF TypeOK
      <3>2. wire'[c] = Append(wire[c], Head(outbox))
        BY <2>1 DEF TypeOK
      <3>3. InWire(c) = Members(wire[c]) /\ InWire(c)' = Members(wire'[c])
        BY DEF InWire, Members
      <3> HIDE DEF S
      <3> QED
        BY <3>1, <3>2, <3>3, AppendSet
    <2>3. \A d \in Consumer : d # c => InWire(d)' = InWire(d)
      BY <2>1 DEF InWire, TypeOK
    <2>4. \A d \in Consumer : InInbox(d)' = InInbox(d) /\ job'[d] = job[d]
      BY <1>5 DEF InInbox
    <2>5. Head(outbox) \in Hands(c)'
      BY <2>2 DEF Hands
    <2>6. \A d \in Consumer : Hands(d) \subseteq Hands(d)'
      BY <2>2, <2>3, <2>4 DEF Hands
    <2>7. \A d \in Consumer : Hands(d)' \subseteq Hands(d) \cup {Head(outbox)}
      BY <2>2, <2>3, <2>4 DEF Hands
    <2> QED
      BY <1>1, <1>2, <1>3, <1>4, <1>5, <2>1, <2>5, <2>6, <2>7 DEF Moved
  <1>7. ASSUME NEW c \in Consumer, Detach(c) PROVE Moved
    <2>1. /\ outbox' = outbox /\ hit' = hit \cup InWire(c)
          /\ wire' = [wire EXCEPT ![c] = <<>>]
      BY <1>7 DEF Detach, Hit, publisher
    <2>2. InWire(c)' = {} /\ \A d \in Consumer : d # c => InWire(d)' = InWire(d)
      BY <2>1 DEF InWire, TypeOK
    <2>3. \A d \in Consumer : InInbox(d)' = InInbox(d) /\ job'[d] = job[d]
      BY <1>5 DEF InInbox
    <2>4. \A d \in Consumer : /\ Hands(d) \subseteq Hands(d)' \cup hit'
                              /\ Hands(d)' \subseteq Hands(d)
      BY <2>1, <2>2, <2>3 DEF Hands
    <2> QED
      BY <1>1, <1>2, <1>5, <2>1, <2>4 DEF Moved, InOutbox
  <1>8. CASE (\E c \in Consumer : Attach(c)) \/ NobodyListens
    <2>1. \A d \in Consumer : Hands(d)' = Hands(d)
      BY <1>8 DEF Attach, NobodyListens, workers, Hands, InWire, InInbox
    <2>2. hit \subseteq hit'
      BY <1>8 DEF Attach, NobodyListens, Hit, accidents, mishaps
    <2>3. InOutbox \subseteq (InOutbox \cup hit)'
      <3>1. CASE \E c \in Consumer : Attach(c)
        BY <3>1 DEF Attach, publisher, InOutbox
      <3>2. CASE NobodyListens
        BY <1>3, <1>4, <3>2 DEF NobodyListens, Hit
      <3> QED
        BY <1>8, <3>1, <3>2
    <2> QED
      BY <1>1, <1>2, <1>5, <2>1, <2>2, <2>3 DEF Moved
  <1> QED
    BY <1>6, <1>7, <1>8

LEMMA WorkerMovesOn ==
    ASSUME TypeOK, TypeOK', NEW c \in Consumer, WorkerStep(c)
    PROVE  Moved
  <1>1. /\ \A d \in Consumer : Hands(d) \subseteq Delivered
        /\ \A d \in Consumer : Hands(d)' \subseteq Delivered'
        /\ consumed \subseteq Delivered /\ consumed' \subseteq Delivered'
    BY DeliveredIn, DeliveredInNext
  <1>2. InOutbox' = InOutbox
    BY DEF WorkerStep, Join, Arrive, Take, ProcessEvent, Consume, StopWorker,
           ExitWorker, publisher, InOutbox
  <1>3. SUFFICES /\ \A d \in Consumer : Hands(d) \subseteq (Hands(d) \cup consumed \cup hit)'
                 /\ \A d \in Consumer : Hands(d)' \subseteq Hands(d)
                 /\ consumed \subseteq consumed' /\ consumed' \subseteq consumed \cup Hands(c)
                 /\ hit \subseteq hit'
    BY <1>1, <1>2 DEF Moved
  <1>4. /\ \A d \in Consumer : InWire(d) = Members(wire[d]) /\ InInbox(d) = Members(inbox[d])
        /\ \A d \in Consumer : /\ InWire(d)' = Members(wire'[d])
                               /\ InInbox(d)' = Members(inbox'[d])
    BY DEF InWire, InInbox, Members
  <1> DEFINE S == 1..Len(log)
  <1>5. wire[c] \in Seq(S) /\ inbox[c] \in Seq(S)
    BY DEF TypeOK
  <1> HIDE DEF S
  <1>6. CASE Arrive(c)
    <2>1. /\ wire[c] # <<>> /\ wire'[c] = Tail(wire[c])
          /\ \/ inbox'[c] = Append(inbox[c], Head(wire[c])) /\ hit' = hit
             \/ inbox'[c] = inbox[c] /\ hit' = hit \cup {Head(wire[c])}
          /\ UNCHANGED <<job, consumed>>
          /\ \A d \in Consumer : d # c => wire'[d] = wire[d] /\ inbox'[d] = inbox[d]
      BY <1>6 DEF Arrive, Hit, TypeOK, mishaps
    <2>2. Members(wire[c]) = Members(wire'[c]) \cup {Head(wire[c])}
      BY <1>5, <2>1, TailSet
    <2>3. Head(wire[c]) \in S
      BY <1>5, <2>1, HeadTailProperties
    <2>4. inbox'[c] = Append(inbox[c], Head(wire[c]))
              => Members(inbox'[c]) = Members(inbox[c]) \cup {Head(wire[c])}
      BY <1>5, <2>3, AppendSet
    <2>5. \A d \in Consumer : d # c => Hands(d)' = Hands(d)
      BY <1>4, <2>1 DEF Hands
    <2>6. Hands(c) \subseteq Hands(c)' \cup hit' /\ Hands(c)' \subseteq Hands(c)
      BY <1>4, <2>1, <2>2, <2>4 DEF Hands
    <2> QED
      BY <2>1, <2>5, <2>6
  <1>7. CASE Take(c)
    <2>1. /\ inbox[c] # <<>> /\ inbox'[c] = Tail(inbox[c])
          /\ job[c] = Nothing /\ job'[c] = Head(inbox[c])
          /\ UNCHANGED <<wire, consumed, hit>>
          /\ \A d \in Consumer : d # c => job'[d] = job[d] /\ inbox'[d] = inbox[d]
      BY <1>7 DEF Take, TypeOK, accidents, mishaps
    <2>2. Members(inbox[c]) = Members(inbox'[c]) \cup {Head(inbox[c])}
      BY <1>5, <2>1, TailSet
    <2>3. Head(inbox[c]) # Nothing
      BY <1>5, <2>1, HeadTailProperties DEF Nothing, S
    <2>4. \A d \in Consumer : d # c => Hands(d)' = Hands(d)
      BY <1>4, <2>1 DEF Hands
    <2>5. Hands(c)' = Hands(c)
      BY <1>4, <2>1, <2>2, <2>3 DEF Hands
    <2> QED
      BY <2>1, <2>4, <2>5
  <1>8. CASE \E ok \in BOOLEAN : Consume(c, ok)
    <2>1. /\ UNCHANGED <<wire, inbox, hit>> /\ consumed' = consumed \cup {job[c]}
          /\ job[c] # Nothing /\ job'[c] = Nothing
          /\ \A d \in Consumer : d # c => job'[d] = job[d]
      BY <1>8 DEF Consume, TypeOK, mishaps
    <2> QED
      BY <1>4, <2>1 DEF Hands
  <1>9. CASE StopWorker(c) \/ ExitWorker(c)
    <2>1. /\ wire'[c] = <<>> /\ inbox'[c] = <<>> /\ UNCHANGED consumed
          /\ \/ job'[c] = job[c] /\ hit' = hit \cup InWire(c) \cup InInbox(c)
             \/ job'[c] = Nothing /\ hit' = hit \cup Hands(c)
          /\ \A d \in Consumer :
                 d # c => job'[d] = job[d] /\ wire'[d] = wire[d] /\ inbox'[d] = inbox[d]
      BY <1>9 DEF StopWorker, ExitWorker, Hit, Hands, TypeOK
    <2>2. Members(wire'[c]) = {} /\ Members(inbox'[c]) = {}
      BY <2>1, EmptyMembers
    <2> QED
      BY <1>4, <2>1, <2>2 DEF Hands
  <1>10. CASE Join(c) \/ \E ok \in BOOLEAN : ProcessEvent(c, ok)
    <2>1. UNCHANGED <<wire, inbox, job, consumed, hit>>
      BY <1>10 DEF Join, ProcessEvent, workers, accidents, mishaps
    <2> QED
      BY <1>4, <2>1 DEF Hands
  <1> QED
    BY <1>6, <1>7, <1>8, <1>9, <1>10 DEF WorkerStep

(* What was sent on or excused stays so, and only what was published is. *)
LEMMA PastStep ==
    ASSUME TypeOK, TypeOK', [Next]_vars
    PROVE  /\ Past \subseteq Past'
           /\ Delivered' \subseteq Delivered \cup InOutbox
           /\ PublisherCrash \/ InOutbox \subseteq InOutbox' \cup Past'
  <1>1. excused \subseteq excused'
    BY NextIsFirehoseStep
    DEF FirehoseStep, Emit, Connect, ConnectFails, BackoffOver, Read, Drop, Drained,
        Restart, Dispatch, Finish, fhVars, ghosts
  <1>2. /\ consumed \subseteq Delivered /\ consumed' \subseteq Delivered'
        /\ \A x \in Delivered : x \in consumed \/ \E c \in Consumer : x \in Hands(c)
        /\ \A x \in Delivered' : x \in consumed' \/ \E c \in Consumer : x \in Hands(c)'
        /\ \A c \in Consumer : Hands(c) \subseteq Delivered /\ Hands(c)' \subseteq Delivered'
        /\ InOutbox = Members(outbox) /\ InOutbox' = Members(outbox')
    BY DeliveredIn, DeliveredInNext DEF InOutbox, Members
  <1>3. CASE Moved
    <2>1. Delivered \subseteq Delivered' \cup hit'
      BY <1>2, <1>3 DEF Moved
    <2>2. Delivered' \subseteq Delivered \cup InOutbox
      BY <1>2, <1>3 DEF Moved
    <2> QED
      BY <1>1, <1>3, <2>1, <2>2 DEF Moved, Past, Excused
  <1>4. ASSUME UNCHANGED workers, hit \subseteq hit',
               PublisherCrash \/ InOutbox \subseteq InOutbox' \cup hit'
        PROVE  /\ Past \subseteq Past'
               /\ Delivered' \subseteq Delivered \cup InOutbox
               /\ PublisherCrash \/ InOutbox \subseteq InOutbox' \cup Past'
    <2>1. \A c \in Consumer : Hands(c)' = Hands(c)
      BY <1>4 DEF workers, Hands, InWire, InInbox
    <2>2. Delivered' = Delivered
      BY <1>2, <1>4, <2>1 DEF workers
    <2> QED
      BY <1>1, <1>4, <2>2 DEF Past, Excused
  <1>5. CASE UNCHANGED <<workers, outbox, hit>>
    BY <1>4, <1>5 DEF InOutbox
  <1>6. CASE PublisherCrash \/ LoseOutbox
    BY <1>4, <1>6 DEF PublisherCrash, LoseOutbox, Hit, mishaps
  <1>7. ASSUME NEW w \in Worker, HandleCommit(w)
        PROVE  UNCHANGED workers /\ hit \subseteq hit' /\ InOutbox \subseteq InOutbox'
    <2>1. /\ UNCHANGED workers /\ hit \subseteq hit'
          /\ outbox' = outbox \/ (Publish(w) /\ outbox' = Append(outbox, task[w]))
      BY <1>7 DEF HandleCommit, SkipTooBig, Publish, PublishFails, Flush, FlushFails,
                  Confirm, Hit, accidents, mishaps
    <2>2. CASE Publish(w) /\ outbox' = Append(outbox, task[w])
      <3> DEFINE S == Nat
      <3>1. outbox \in Seq(S) /\ task[w] \in S
        <4>1. \A q \in Seq(1..Len(log)) : q \in Seq(Nat)
          BY SeqMonotonic
        <4> QED
          BY <4>1 DEF TypeOK, FirehoseTypeOK
      <3> HIDE DEF S
      <3> QED
        BY <1>2, <2>1, <2>2, <3>1, AppendSet
    <2> QED
      BY <1>2, <2>1, <2>2
  <1>8. CASE \E w \in Worker : HandleCommit(w)
    BY <1>4, <1>7, <1>8
  <1>9. CASE \/ Relay \/ Subscribe \/ SubscribeFails \/ Reconnect \/ ReadCommit
             \/ Disconnect \/ Shutdown \/ (\E w \in Worker : StartCommit(w))
             \/ UNCHANGED vars
    <2>1. UNCHANGED <<workers, outbox, hit>>
      BY <1>9 DEF vars, publisher, accidents, mishaps, others, Relay, Subscribe,
        SubscribeFails, Reconnect, ReadCommit, Disconnect, Shutdown, StartCommit
    <2> QED
      BY <1>5, <2>1
  <1>10. CASE \/ \E c \in Consumer : Deliver(c) \/ Detach(c) \/ Attach(c) \/ WorkerStep(c)
              \/ NobodyListens
    BY <1>3, <1>10, BrokerMovesOn, WorkerMovesOn
  <1> QED
    BY <1>6, <1>8, <1>9, <1>10 DEF Next
-----------------------------------------------------------------------------
(* The parts of LossInv, one by one. *)

(***************************************************************************)
(* What a handler does: it returns, with its commit too big, confirmed or  *)
(* hit, and moves the cursor only if it was not hit; or it goes on.        *)
(***************************************************************************)
LEMMA HandlerStep ==
    ASSUME TypeOK, SchedulerInv, Sending, NEW w \in Worker, HandleCommit(w)
    PROVE  /\ task[w] \in 1..Len(log) /\ task[w] # Nothing
           /\ UNCHANGED <<log, origin, session, pos, excused, workers>>
           /\ \/ /\ Finish(w) /\ stage' = [stage EXCEPT ![w] = "new"]
                 /\ outbox' = outbox
                 /\ \/ /\ log[task[w]].tooBig \/ stage[w] = "flushed"
                       /\ cursor' \in {cursor, task[w]}
                    \/ /\ \/ task[w] \in hit'
                          \/ stage[w] = "published" /\ task[w] \notin InOutbox
                       /\ cursor' = cursor
              \/ /\ ~log[task[w]].tooBig /\ stage[w] = "new"
                 /\ stage' = [stage EXCEPT ![w] = "published"]
                 /\ outbox' = Append(outbox, task[w])
                 /\ UNCHANGED <<fhVars, cursor>>
              \/ /\ stage[w] = "published" /\ task[w] \notin InOutbox
                 /\ stage' = [stage EXCEPT ![w] = "flushed"]
                 /\ outbox' = outbox
                 /\ UNCHANGED <<fhVars, cursor>>
  <1>1. task[w] # Nothing
    BY DEF HandleCommit, SkipTooBig, Publish, PublishFails, Flush, FlushFails, Confirm,
           Sending
  <1>2. task[w] \in 1..Len(log)
    BY <1>1, InTheLog DEF TypeOK
  <1>3. UNCHANGED <<log, origin, session, pos, excused, workers>>
    BY DEF HandleCommit, SkipTooBig, Publish, PublishFails, Flush, FlushFails, Confirm,
           Return, Finish, fhVars, stream, ghosts
  <1>4. CASE (\E ok \in BOOLEAN : SkipTooBig(w, ok) \/ Confirm(w, ok))
    BY <1>1, <1>2, <1>3, <1>4
    DEF SkipTooBig, Confirm, Return, SaveCursor, UpsertCursor
  <1>5. CASE Publish(w) \/ Flush(w)
    BY <1>1, <1>2, <1>3, <1>5 DEF Publish, Flush, tables
  <1>6. CASE PublishFails(w) \/ FlushFails(w)
    <2>1. /\ Finish(w) /\ stage' = [stage EXCEPT ![w] = "new"]
          /\ UNCHANGED <<outbox, cursor>>
      BY <1>6 DEF PublishFails, FlushFails, Return, tables
    <2>2. \/ task[w] \in hit'
          \/ stage[w] = "published" /\ task[w] \notin InOutbox
      BY <1>6 DEF PublishFails, FlushFails, Hit
    <2> QED
      BY <1>1, <1>2, <1>3, <2>1, <2>2
  <1> QED
    BY <1>4, <1>5, <1>6 DEF HandleCommit

(* The other steps neither publish nor send. *)
LEMMA NoHandler ==
    ASSUME TypeOK, [Next]_vars, \A w \in Worker : ~HandleCommit(w)
    PROVE  /\ PublisherCrash \/ UNCHANGED stage
           /\ \/ PublisherCrash \/ LoseOutbox \/ UNCHANGED outbox
              \/ NobodyListens \/ \E c \in Consumer : Deliver(c)
           /\ UNCHANGED cursor \/ \E c \in Consumer : /\ job[c] # Nothing
                                                     /\ cursor' = job[c]
           /\ \/ UNCHANGED task \/ PublisherCrash
              \/ \E w \in Worker : StartCommit(w)
  BY DEF Next, vars, accidents, others, publisher, fhVars, scheduler, tables, Relay,
         Subscribe, SubscribeFails, Reconnect, ReadCommit, Disconnect, Shutdown,
         PublisherCrash, LoseOutbox, StartCommit, Deliver, Detach, Attach, NobodyListens,
         WorkerStep, Join, Arrive, Take, ProcessEvent, Consume, StopWorker, ExitWorker, Emit,
         Connect, ConnectFails, BackoffOver, Read, Drop, Drained, SaveCursor,
         UpsertCursor

(* What a handler has sent is a commit, and not too big. *)
LEMMA SendingKept ==
    ASSUME IndInv, Sending, [Next]_vars
    PROVE  Sending'
  <1> USE DEF IndInv
  <1>1. \A s \in 1..Len(log) : log'[s] = log[s]
    BY LogKept, EmitAppends DEF Relay, TypeOK
  <1>2. ASSUME NEW w \in Worker, HandleCommit(w) PROVE Sending'
    <2>1. log' = log /\ \A v \in Worker : v # w => /\ task'[v] = task[v]
                                                 /\ stage'[v] = stage[v]
      BY <1>2 DEF HandleCommit, SkipTooBig, Publish, PublishFails, Flush, FlushFails,
                  Confirm, Return, Finish, fhVars, scheduler, TypeOK, FirehoseTypeOK
    <2>2. \/ stage'[w] = "new"
          \/ task' = task /\ task[w] # Nothing /\ ~log[task[w]].tooBig
      BY <1>2 DEF HandleCommit, SkipTooBig, Publish, PublishFails, Flush, FlushFails,
                  Confirm, Return, fhVars, scheduler, TypeOK, Sending
    <2> QED
      BY <2>1, <2>2 DEF Sending
  <1>3. CASE \A w \in Worker : ~HandleCommit(w)
    <2>1. CASE PublisherCrash
      BY <2>1 DEF PublisherCrash, Sending
    <2>2. CASE UNCHANGED <<stage, task>>
      BY <1>1, <2>2, InTheLog DEF Sending, TypeOK
    <2>3. ASSUME NEW w \in Worker, StartCommit(w) PROVE Sending'
      <3>1. /\ stage[w] = "new" /\ UNCHANGED <<stage, log>>
            /\ \A v \in Worker : v # w => task'[v] = task[v]
        BY <2>3 DEF StartCommit, Dispatch, Sending, others, TypeOK, FirehoseTypeOK
      <3> QED
        BY <3>1 DEF Sending
    <2> QED
      BY <1>3, <2>1, <2>2, <2>3, NoHandler
  <1> QED
    BY <1>2, <1>3

(* Nothing happens to commits before the first connection. *)
LEMMA UntouchedKept ==
    ASSUME IndInv, Sending, Untouched, [Next]_vars
    PROVE  Untouched'
  <1> USE DEF IndInv
  <1> SUFFICES ASSUME origin' = Never
               PROVE  (~Connected /\ cursor = NoCursor /\ outbox = <<>> /\ Delivered = {})'
    BY DEF Untouched
  <1>1. origin = Never /\ ~Connected /\ ~Connected'
    <2>1. ~Subscribe
      <3>1. Subscribe => origin' # Never
        BY DEF Subscribe, Connect, Never, TypeOK, FirehoseTypeOK
      <3> QED
        BY <3>1
    <2>3. origin' = origin
      BY <2>1 DEF Next, vars, publisher, fhVars, ghosts, Relay, SubscribeFails,
         Reconnect, ReadCommit, Disconnect, Shutdown, PublisherCrash, LoseOutbox, StartCommit,
         HandleCommit, SkipTooBig, Publish, PublishFails, Flush, FlushFails, Confirm,
         Return, Deliver, Detach, Attach, NobodyListens, WorkerStep, Join, Arrive, Take,
         ProcessEvent, Consume, StopWorker, ExitWorker, Emit, ConnectFails,
         BackoffOver, Read, Drop, Drained, Restart, Dispatch, Finish
    <2>4. ~Connected
      BY <2>3 DEF Untouched
    <2>5. ~Connected'
      BY <2>1, <2>4 DEF Next, vars, publisher, fhVars, stream, Relay, SubscribeFails,
         Reconnect, ReadCommit, Disconnect, Shutdown, PublisherCrash, LoseOutbox, StartCommit,
         HandleCommit, SkipTooBig, Publish, PublishFails, Flush, FlushFails, Confirm,
         Return, Deliver, Detach, Attach, NobodyListens, WorkerStep, Join, Arrive, Take,
         ProcessEvent, Consume, StopWorker, ExitWorker, Emit, ConnectFails,
         BackoffOver, Read, Drop, Drained, Restart, Dispatch, Finish, Connected
    <2> QED
      BY <2>3, <2>4, <2>5
  <1>2. cursor = NoCursor /\ outbox = <<>> /\ Delivered = {}
    BY <1>1 DEF Untouched
  <1>3. \A w \in Worker : ~HandleCommit(w)
    <2>1. \A w \in Worker : task[w] = Nothing
      BY <1>1 DEF SchedulerInv, EmptyUnlessConnected, SchedulerEmpty
    <2> QED
      BY <2>1 DEF HandleCommit, SkipTooBig, Publish, PublishFails, Flush, FlushFails,
                  Confirm, Sending
  <1>4. \A c \in Consumer : job[c] = Nothing
    BY <1>2, DeliveredIn DEF Hands
  <1>5. cursor' = NoCursor
    BY <1>2, <1>3, <1>4, NoHandler
  <1>6. outbox' = <<>>
    BY <1>2, <1>3, NoHandler DEF PublisherCrash, LoseOutbox, NobodyListens, Deliver
  <1>7. Delivered' = {}
    <2>1. InOutbox = {}
      BY <1>2 DEF InOutbox
    <2>2. TypeOK'
      BY NextIndInv
    <2> QED
      BY <1>2, <2>1, <2>2, PastStep
  <1> QED
    BY <1>1, <1>5, <1>6, <1>7

(* What is published is in the buffer until it is sent on or hit. *)
LEMMA StillSentKept ==
    ASSUME IndInv, Sending, StillSent, [Next]_vars
    PROVE  StillSent'
  <1> USE DEF IndInv
  <1>1. TypeOK'
    BY NextIndInv
  <1>2. /\ Past \subseteq Past'
        /\ PublisherCrash \/ InOutbox \subseteq InOutbox' \cup Past'
    BY <1>1, PastStep
  <1>3. ASSUME NEW w \in Worker, HandleCommit(w) PROVE StillSent'
    <2>1. /\ \A v \in Worker : v # w => task'[v] = task[v] /\ stage'[v] = stage[v]
          /\ task[w] \in 1..Len(log)
      <3>1. /\ task[w] \in 1..Len(log)
            /\ Finish(w) \/ UNCHANGED fhVars
            /\ \E st \in {"new", "published", "flushed"} :
                   stage' = [stage EXCEPT ![w] = st]
        BY <1>3, HandlerStep
      <3> QED
        BY <3>1 DEF Finish, fhVars, scheduler, TypeOK, FirehoseTypeOK
    <2>2. InOutbox \subseteq InOutbox' \cup Past'
      <3>1. outbox' = outbox \/ outbox' = Append(outbox, task[w])
        BY <1>3, HandlerStep
      <3> DEFINE S == 1..Len(log)
      <3>2. outbox \in Seq(S) /\ task[w] \in S
        BY <2>1 DEF TypeOK
      <3> HIDE DEF S
      <3>3. Members(Append(outbox, task[w])) = Members(outbox) \cup {task[w]}
        BY <3>2, AppendSet
      <3> QED
        BY <3>1, <3>3 DEF InOutbox, Members
    <2>3. \/ stage'[w] = "new"
          \/ task'[w] = task[w] /\ stage'[w] = "published" /\ task[w] \in InOutbox'
          \/ task'[w] = task[w] /\ stage'[w] = "flushed" /\ task[w] \in Past
      <3>1. CASE /\ stage' = [stage EXCEPT ![w] = "published"]
                 /\ outbox' = Append(outbox, task[w]) /\ UNCHANGED fhVars
        <4> DEFINE S == 1..Len(log)
        <4>1. outbox \in Seq(S) /\ task[w] \in S
          BY <2>1 DEF TypeOK
        <4> HIDE DEF S
        <4>2. Members(outbox') = Members(outbox) \cup {task[w]}
          BY <3>1, <4>1, AppendSet
        <4>3. task[w] \in InOutbox'
          BY <4>2 DEF InOutbox, Members
        <4> QED
          BY <3>1, <4>3 DEF TypeOK, fhVars, scheduler
      <3>2. CASE /\ stage[w] = "published" /\ task[w] \notin InOutbox
                 /\ stage' = [stage EXCEPT ![w] = "flushed"] /\ UNCHANGED fhVars
        BY <3>2 DEF StillSent, TypeOK, fhVars, scheduler
      <3>3. CASE stage' = [stage EXCEPT ![w] = "new"]
        BY <3>3 DEF TypeOK
      <3> QED
        BY <1>3, <3>1, <3>2, <3>3, HandlerStep
    <2> QED
      BY <1>2, <2>1, <2>2, <2>3 DEF StillSent
  <1>4. CASE \A w \in Worker : ~HandleCommit(w)
    <2>1. CASE PublisherCrash
      BY <2>1 DEF PublisherCrash, StillSent
    <2>2. CASE UNCHANGED <<stage, task>> /\ ~PublisherCrash
      BY <1>2, <2>2 DEF StillSent
    <2>3. ASSUME NEW w \in Worker, StartCommit(w), ~PublisherCrash PROVE StillSent'
      <3>1. /\ stage[w] = "new" /\ UNCHANGED stage
            /\ \A v \in Worker : v # w => task'[v] = task[v]
        BY <2>3 DEF StartCommit, Dispatch, Sending, others, TypeOK, FirehoseTypeOK
      <3> QED
        BY <1>2, <2>3, <3>1 DEF StillSent
    <2> QED
      BY <1>4, <2>1, <2>2, <2>3, NoHandler
  <1> QED
    BY <1>3, <1>4

-----------------------------------------------------------------------------
(* What a step must not do to keep the accounts. *)
LEMMA AccountsKept ==
    ASSUME IndInv, Accounted, [Next]_vars, UNCHANGED <<log, origin>>,
           \A s \in InFlight : log[s].tooBig \/ s \in Past' \cup InFlight',
           \A y \in Marks' : \E x \in Marks : y <= x,
           Cardinality(Worker) = 1 =>
               /\ \A y \in Delivered' \cup InOutbox' :
                      y \in Delivered \cup InOutbox \/ Settled(Past' \cup {y}, y)
               /\ \/ cursor' \in Delivered \cup {cursor}
                  \/ Settled(Past', cursor')
    PROVE  Accounted'
  <1> USE DEF IndInv
  <1>1. Marks \subseteq 0..Len(log) /\ Len(log) \in Nat
    BY DeliveredIn DEF Marks, TypeOK, FirehoseTypeOK
  <1>2. TypeOK'
    BY NextIndInv
  <1>3. Marks' \subseteq 0..Len(log)
    <2>1. cursor' \in 0..Len(log) /\ pos' \in 0..Len(log)
      BY <1>2 DEF TypeOK, FirehoseTypeOK
    <2>2. Delivered' \subseteq 1..Len(log) /\ InOutbox' \subseteq 1..Len(log)
      BY <1>2, DeliveredInNext
    <2> QED
      BY <2>1, <2>2 DEF Marks
  <1>4. Past \subseteq Past'
    BY <1>2, PastStep
  <1>5. ASSUME NEW y \in Marks', NEW s \in 1..y, s > origin, ~log[s].tooBig
        PROVE  s \in Past' \cup InFlight'
    <2>1. PICK x \in Marks : y <= x
      OBVIOUS
    <2>2. s \in 1..x
      BY <1>1, <1>3, <2>1
    <2>3. s \in Past \cup InFlight
      BY <1>5, <2>2 DEF Accounted, Settled
    <2> QED
      BY <1>4, <1>5, <2>3
  <1>6. ASSUME Cardinality(Worker) = 1, NEW y \in Delivered' \cup InOutbox'
        PROVE  Settled(Past' \cup {y}, y)
    BY <1>4, <1>6 DEF Accounted, Settled
  <1>7. ASSUME Cardinality(Worker) = 1
        PROVE  Settled(Past', cursor')
    <2>1. \A x \in Delivered : Settled(Past \cup {x}, x) /\ x \in Past
      BY <1>7 DEF Accounted, Past
    <2>2. Settled(Past, cursor)
      BY <1>7 DEF Accounted
    <2> QED
      BY <1>4, <1>7, <2>1, <2>2 DEF Settled
  <1> QED
    BY <1>5, <1>6, <1>7 DEF Accounted, Settled

(* Sent on, in flight, read: the accounts are kept. *)
LEMMA AccountedKept ==
    ASSUME IndInv, Untouched, Sending, StillSent, Accounted, [Next]_vars
    PROVE  Accounted'
  <1> USE DEF IndInv
  <1>1. /\ Marks \subseteq 0..Len(log) /\ cursor \in 0..Len(log) /\ pos \in 0..Len(log)
        /\ Len(log) \in Nat /\ InFlight \subseteq 1..Len(log)
    BY DeliveredIn DEF Marks, InFlight, TypeOK, FirehoseTypeOK
  <1>2. TypeOK'
    BY NextIndInv
  <1>3. Past \subseteq Past' /\ Delivered' \subseteq Delivered \cup InOutbox
    BY <1>2, PastStep
  <1>4. \A y \in Marks : \E x \in Marks : y <= x
    BY <1>1
  <1>5. CASE Relay
    <2>1. /\ UNCHANGED <<cursor, pos, origin, session, outbox, workers>>
          /\ UNCHANGED <<hit, excused>> /\ InFlight' = InFlight
          /\ \A s \in 1..Len(log) : log'[s] = log[s]
      BY <1>5, EmitInFlight, EmitAppends
      DEF Relay, Emit, stream, ghosts, others, tables, accidents, mishaps, TypeOK
    <2>2. /\ UNCHANGED InOutbox
          /\ \A c \in Consumer : Hands(c)' = Hands(c)
      BY <2>1 DEF workers, InOutbox, Hands, InWire, InInbox
    <2>3. Delivered' = Delivered
      BY <1>2, <2>1, <2>2, DeliveredIn, DeliveredInNext DEF workers
    <2>4. Marks' = Marks /\ Past' = Past
      BY <2>1, <2>2, <2>3 DEF Marks, Connected, Past, Excused
    <2>5. Delivered \cup InOutbox \subseteq Marks /\ cursor \in Marks
      BY DEF Marks
    <2>6. ASSUME NEW x \in Marks, NEW T, Settled(T, x) PROVE Settled(T, x)'
      BY <1>1, <2>1, <2>6 DEF Settled
    <2> QED
      BY <2>1, <2>2, <2>3, <2>4, <2>5, <2>6 DEF Accounted
  <1>6. CASE Subscribe
    <2>1. /\ UNCHANGED <<log, cursor, outbox, workers>>
          /\ pos' = IF cursor > 0 THEN cursor ELSE Len(log)
          /\ cursor = 0 /\ origin # Never => 1..pos' \subseteq excused'
          /\ origin' = IF origin = Never THEN pos' ELSE origin
          /\ UNCHANGED <<held, waiting, task>>
      BY <1>6 DEF Subscribe, Connect, others, tables, scheduler
    <2>2. /\ UNCHANGED <<InOutbox, Delivered>> /\ InFlight' = InFlight
      BY <2>1, InFlightUnchanged DEF workers, Delivered, InOutbox, InWire, InInbox
    <2>3. CASE origin = Never
      <3>1. Delivered' = {} /\ InOutbox' = {} /\ cursor' = 0 /\ origin' = pos' /\ pos' \in Nat
        BY <1>1, <2>1, <2>2, <2>3 DEF Untouched, NoCursor, InOutbox
      <3>2. Marks' \subseteq {0, pos'}
        BY <3>1 DEF Marks
      <3> QED
        BY <3>1, <3>2 DEF Accounted, Settled
    <2>4. CASE origin # Never
      <3>1. UNCHANGED origin /\ (Marks' \subseteq Marks \/ cursor = 0)
        BY <1>1, <2>1, <2>2, <2>4 DEF Marks
      <3>2. CASE Marks' \subseteq Marks
        BY <1>4, <2>1, <2>2, <3>1, <3>2, AccountsKept DEF Marks
      <3>3. CASE cursor = 0
        <4>1. 1..pos' \subseteq Past'
          BY <2>1, <2>4, <3>3 DEF Past, Excused
        <4>2. Marks' \subseteq Marks \cup {pos'}
          BY <2>1, <2>2 DEF Marks
        <4>3. ASSUME NEW x \in Marks', NEW s \in 1..x, s > origin, ~log[s].tooBig
              PROVE  s \in Past' \cup InFlight'
          <5>1. CASE x \in Marks
            <6>1. s \in Past \cup InFlight
              BY <4>3, <5>1 DEF Accounted, Settled
            <6> QED
              BY <1>3, <2>2, <6>1
          <5>2. CASE x = pos'
            BY <4>1, <4>3, <5>2
          <5> QED
            BY <4>2, <5>1, <5>2
        <4>4. \A x \in Marks' : Settled(Past \cup InFlight, x)'
          BY <2>1, <3>1, <4>3 DEF Settled
        <4>5. Cardinality(Worker) = 1 =>
                  /\ \A x \in Delivered' \cup InOutbox' : Settled(Past \cup {x}, x)'
                  /\ Settled(Past, cursor)'
          BY <1>3, <2>1, <2>2, <3>1 DEF Accounted, Settled
        <4> QED
          BY <4>4, <4>5 DEF Accounted
      <3> QED
        BY <3>1, <3>2, <3>3
    <2> QED
      BY <2>3, <2>4
  <1>7. CASE ReadCommit
    <2>1. /\ pos' = pos + 1 /\ pos < Len(log) /\ InFlight' = InFlight \cup {pos'}
          /\ UNCHANGED <<log, cursor, origin, outbox, workers>>
          /\ Connected /\ Connected'
      <3>1. InFlight' = InFlight \cup {pos'}
        BY <1>7, ReadInFlight DEF ReadCommit, TypeOK
      <3> QED
        BY <1>7, <3>1 DEF ReadCommit, Read, others, tables, Connected
    <2>2. UNCHANGED <<InOutbox, Delivered>>
      BY <2>1 DEF workers, Delivered, InOutbox, InWire, InInbox
    <2>3. /\ Marks = Delivered \cup InOutbox \cup {cursor, pos}
          /\ Marks' = Delivered \cup InOutbox \cup {cursor, pos'}
      BY <2>1, <2>2 DEF Marks
    <2>4. ASSUME NEW x \in Marks', NEW s \in 1..x, s > origin, ~log[s].tooBig
          PROVE  s \in Past' \cup InFlight'
      <3>1. CASE s = pos'
        BY <2>1, <3>1
      <3>2. CASE s # pos'
        <4>1. (s \in 1..x /\ x \in Marks) \/ s \in 1..pos
          BY <1>1, <2>1, <2>3, <2>4, <3>2
        <4>2. \E y \in Marks : s \in 1..y
          BY <2>3, <4>1
        <4> QED
          BY <1>3, <2>1, <2>4, <4>2 DEF Accounted, Settled
      <3> QED
        BY <3>1, <3>2
    <2> QED
      BY <1>3, <2>1, <2>2, <2>4 DEF Accounted, Settled
  <1>8. CASE PublisherCrash
    <2>1. /\ ~Connected' /\ UNCHANGED <<log, cursor, origin, workers>>
          /\ Cardinality(Worker) = 1 \/ excused' = excused \cup InFlight
          /\ outbox' = <<>>
      BY <1>8 DEF PublisherCrash, Restart, Connected, tables
    <2>2. InOutbox' = {} /\ Delivered' = Delivered
      BY <2>1 DEF workers, Delivered, InOutbox, InWire, InInbox
    <2>3. Marks' = Delivered \cup {cursor}
      BY <2>1, <2>2 DEF Marks
    <2>4. CASE Cardinality(Worker) = 1
      <3>1. \A x \in Delivered : x \in Past
        BY DEF Past
      <3> QED
        BY <1>3, <2>1, <2>2, <2>3, <2>4, <3>1 DEF Accounted, Settled
    <2>5. CASE Cardinality(Worker) # 1
      <3>1. InFlight \subseteq Past'
        BY <2>1, <2>5 DEF Past, Excused
      <3>2. Marks' \subseteq Marks
        BY <2>3 DEF Marks
      <3> QED
        BY <1>4, <2>1, <2>2, <2>5, <3>1, <3>2, AccountsKept
    <2> QED
      BY <2>4, <2>5
  <1>9. ASSUME NEW w \in Worker, HandleCommit(w) PROVE Accounted'
    <2> DEFINE t == task[w]
    <2>1. /\ t \in 1..Len(log) /\ t # Nothing
          /\ UNCHANGED <<log, origin, session, pos, workers, Connected>>
          /\ Delivered' = Delivered
      BY <1>9, HandlerStep DEF workers, Delivered, InWire, InInbox, Connected
    <2>2. Connected /\ t <= pos /\ pos \in Marks
      BY <2>1 DEF SchedulerInv, AlreadyRead, EmptyUnlessConnected, SchedulerEmpty, Marks
    (* All that one handler leaves behind its commit was sent on or hit. *)
    <2>3. ASSUME Cardinality(Worker) = 1 PROVE Settled(Past' \cup {t}, t)
      <3> SUFFICES ASSUME NEW s \in 1..t, s > origin, ~log[s].tooBig, s # t
                   PROVE  s \in Past
        BY <1>3 DEF Settled
      <3>1. s \in Past \cup InFlight
        <4>1. s \in 1..pos
          BY <1>1, <2>1, <2>2
        <4> QED
          BY <2>2, <4>1 DEF Accounted, Settled
      <3>2. Worker = {w}
        BY <2>3, FirehoseAssumption, FS_Singleton
      <3>3. s \in InFlight => t < s
        BY <2>1, <3>2, SingleWorkerOldest DEF TypeOK
      <3> QED
        BY <2>1, <3>1, <3>3
    <2>4. CASE UNCHANGED <<fhVars, cursor>>
               /\ (outbox' = outbox \/ outbox' = Append(outbox, t))
      <3>1. InFlight' = InFlight
        BY <2>4, InFlightUnchanged DEF fhVars, scheduler
      <3>2. InOutbox' \subseteq InOutbox \cup {t}
        <4> DEFINE S == 1..Len(log)
        <4>1. outbox \in Seq(S) /\ t \in S
          BY <2>1 DEF TypeOK
        <4> HIDE DEF S, t
        <4>2. Members(Append(outbox, t)) = Members(outbox) \cup {t}
          BY <4>1, AppendSet
        <4> QED
          BY <2>4, <4>2 DEF InOutbox, Members
      <3>3. ASSUME NEW y \in Marks' PROVE \E x \in Marks : y <= x
        <4>1. y \in Marks \/ y = t
          BY <2>1, <2>4, <3>2, <3>3 DEF Marks
        <4> QED
          BY <1>4, <2>2, <4>1
      <3>4. \A s \in InFlight : s \in InFlight'
        BY <3>1
      <3>5. Cardinality(Worker) = 1 =>
                \A y \in Delivered' \cup InOutbox' :
                    y \in Delivered \cup InOutbox \/ Settled(Past' \cup {y}, y)
        BY <2>1, <2>3, <3>2
      <3> HIDE DEF t
      <3> QED
        BY <1>9, <2>1, <2>4, <3>3, <3>4, <3>5, AccountsKept DEF Next
    <2>5. CASE /\ Finish(w) /\ outbox' = outbox
               /\ \/ /\ log[t].tooBig \/ stage[w] = "flushed"
                     /\ cursor' \in {cursor, t}
                  \/ /\ t \in hit' \/ (stage[w] = "published" /\ t \notin InOutbox)
                     /\ cursor' = cursor
      <3>1. InFlight \ {t} \subseteq InFlight'
        BY <2>5, FinishInFlight DEF TypeOK
      <3>2. log[t].tooBig \/ t \in Past'
        BY <1>3, <2>5 DEF StillSent, Past, Excused
      <3>3. \A s \in InFlight : log[s].tooBig \/ s \in Past' \cup InFlight'
        BY <2>1, <3>1, <3>2
      <3>4. ASSUME NEW y \in Marks' PROVE \E x \in Marks : y <= x
        <4>1. y \in Marks \/ y = t
          BY <2>1, <2>5, <3>4 DEF Marks, InOutbox
        <4> QED
          BY <1>4, <2>2, <4>1
      <3>5. ASSUME Cardinality(Worker) = 1
            PROVE  cursor' = cursor \/ Settled(Past', cursor')
        BY <1>1, <2>1, <2>3, <2>5, <3>2, <3>5 DEF Settled
      <3>6. InOutbox' = InOutbox
        BY <2>5 DEF InOutbox
      <3> HIDE DEF t
      <3> QED
        BY <1>9, <2>1, <3>3, <3>4, <3>5, <3>6, AccountsKept DEF Next
    <2> QED
      BY <1>9, <2>4, <2>5, HandlerStep
  <1>10. CASE \/ SubscribeFails \/ Reconnect \/ Disconnect \/ Shutdown
              \/ (\E w \in Worker : StartCommit(w)) \/ LoseOutbox
              \/ \E c \in Consumer : Deliver(c) \/ Detach(c) \/ Attach(c) \/ WorkerStep(c)
              \/ NobodyListens
              \/ UNCHANGED vars
    <2>1. UNCHANGED <<log, origin, pos>> /\ (Connected' => Connected)
      BY <1>10 DEF vars, publisher, fhVars, stream, ghosts, SubscribeFails, Reconnect,
           Disconnect, Shutdown, StartCommit, ConnectFails, BackoffOver, Drop, Drained,
           Dispatch, LoseOutbox, Deliver, NobodyListens, Detach, Attach, WorkerStep,
           Join, Arrive, Take, ProcessEvent, Consume, StopWorker, ExitWorker, Connected
    <2>2. InFlight' = InFlight
      <3>1. CASE \E w \in Worker : StartCommit(w)
        BY <3>1, DispatchInFlight DEF StartCommit, TypeOK
      <3>2. CASE UNCHANGED <<log, held, waiting, task>>
        BY <3>2, InFlightUnchanged
      <3> QED
        BY <1>10, <3>1, <3>2 DEF vars, publisher, fhVars, scheduler, SubscribeFails,
           Reconnect, Disconnect, Shutdown, ConnectFails, BackoffOver, Drop, Drained,
           LoseOutbox, Deliver, NobodyListens, Detach, Attach, WorkerStep, Join, Arrive,
           Take, ProcessEvent, Consume, StopWorker, ExitWorker
    <2>3. InOutbox' \subseteq InOutbox
      <3>1. \/ outbox' = outbox \/ outbox' = <<>>
            \/ outbox # <<>> /\ outbox' = Tail(outbox)
        BY <1>10 DEF vars, publisher, SubscribeFails, Reconnect, Disconnect, Shutdown,
           StartCommit, LoseOutbox, Deliver, NobodyListens, Detach, Attach, WorkerStep,
           Join, Arrive, Take, ProcessEvent, Consume, StopWorker, ExitWorker, others
      <3> DEFINE S == 1..Len(log)
      <3>2. outbox \in Seq(S)
        BY DEF TypeOK
      <3> HIDE DEF S
      <3>3. outbox # <<>> => Members(outbox) = Members(Tail(outbox)) \cup {Head(outbox)}
        BY <3>2, TailSet
      <3> QED
        BY <3>1, <3>3 DEF InOutbox, Members
    <2>4. cursor' \in Delivered \cup {cursor}
      <3>1. \A c \in Consumer : job[c] # Nothing => job[c] \in Delivered
        BY DeliveredIn DEF Hands
      <3> QED
        BY <1>10, <3>1 DEF vars, tables, SubscribeFails, Reconnect, Disconnect,
         Shutdown, StartCommit, LoseOutbox, Deliver, NobodyListens, Detach, Attach,
         WorkerStep, Join, Arrive, Take, ProcessEvent, Consume, SaveCursor,
         UpsertCursor, StopWorker, ExitWorker, others
    <2>5. Marks' \subseteq Marks
      BY <1>3, <2>1, <2>3, <2>4 DEF Marks
    <2>6. Delivered' \cup InOutbox' \subseteq Delivered \cup InOutbox
      BY <1>3, <2>3
    <2> QED
      BY <1>4, <2>1, <2>2, <2>4, <2>5, <2>6, AccountsKept
  <1> QED
    BY <1>5, <1>6, <1>7, <1>8, <1>9, <1>10 DEF Next

-----------------------------------------------------------------------------
(* The theorems. *)

(* Nothing was lost before anything was read. *)
LEMMA InitLossInv == Init => LossInv
  <1> SUFFICES ASSUME Init PROVE LossInv
    OBVIOUS
  <1>1. SchedulerInv
    BY InitIndInv DEF IndInv
  <1>2. Delivered = {} /\ InOutbox = {} /\ ~Connected
    <2>1. \A c \in Consumer : job[c] = 0 /\ InWire(c) = {} /\ InInbox(c) = {}
      BY DEF Init, InWire, InInbox, Nothing
    <2> QED
      BY <2>1 DEF Init, FirehoseInit, Delivered, InOutbox, Connected
  <1>3. Untouched /\ Sending /\ StillSent
    BY <1>2 DEF Init, Untouched, Sending, StillSent
  <1>4. Accounted
    BY <1>2 DEF Init, Accounted, Marks, Settled, NoCursor
  <1> QED
    BY <1>1, <1>3, <1>4 DEF LossInv

(* And nothing is but what a mishap hits. *)
LEMMA NextLossInv == IndInv /\ LossInv /\ [Next]_vars => LossInv'
  BY NextIndInv, UntouchedKept, SendingKept, StillSentKept, AccountedKept
  DEF LossInv, IndInv

(* So nothing ever is. *)
LEMMA SpecLossInv == Spec => []LossInv
  BY InitLossInv, NextLossInv, SpecIndInv, PTL DEF Spec

(***************************************************************************)
(* A commit the publisher has moved past was consumed or is on its way, or *)
(* a mishap hit this very commit, with any number of handlers and workers, *)
(* who all move the same cursor.                                           *)
(***************************************************************************)
THEOREM NoSilentLossHolds == Spec => []NoSilentLoss
  <1>1. IndInv /\ LossInv => NoSilentLoss
    <2> SUFFICES ASSUME IndInv, LossInv, NEW s \in Missed, s \notin Excused
                 PROVE  FALSE
      BY DEF NoSilentLoss
    <2>1. Frontier \in Marks
      BY DEF Frontier, Marks
    <2>2. s \in Delivered \cup InFlight
      BY <2>1 DEF Missed, LossInv, Accounted, Settled, Past
    <2>3. s \in consumed \cup UnderWay
      BY <2>2 DEF UnderWay, Delivered
    <2> QED
      BY <2>3 DEF Missed
  <1> QED
    BY <1>1, SpecIndInv, SpecLossInv, PTL
(* The publisher hands the commits of a repo on in the order of the log. *)
THEOREM DeliversInOrderHolds == Spec => DeliversInOrder
  <1>1. Init => Promise!Init
    BY InitDelivers DEF Init
  <1>2. IndInv /\ [Next]_vars => [Promise!Next]_(Promise!vars)
    BY NextIsFirehoseStep, StepDelivers DEF IndInv, TypeOK
  <1> QED
    BY <1>1, <1>2, SpecIndInv, PTL DEF Spec, DeliversInOrder, Promise!Spec

-----------------------------------------------------------------------------
(***************************************************************************)
(* The rows, with one worker and one connection.  The stations of a commit *)
(* are six: consumed, the callback's, in the worker's buffer, on its way   *)
(* to it, in the publisher's buffer, not yet sent.                         *)
(***************************************************************************)

(* Commits on their way were read, and are of the log. *)
LEMMA ComingRead ==
    ASSUME TypeOK, AllRead
    PROVE  /\ pos \in Nat /\ origin \in Nat /\ pos <= Len(log) /\ Len(log) \in Nat
           /\ consumed \subseteq 1..pos /\ Coming \subseteq 1..pos
           /\ \A s \in consumed \cup Coming : origin < s
           /\ \A c \in Consumer : job[c] # Nothing => job[c] \in Coming
  <1>1. /\ pos \in Nat /\ pos <= Len(log) /\ Len(log) \in Nat /\ origin \in Nat
    BY DEF TypeOK, FirehoseTypeOK, AllRead
  <1>2. \A s \in consumed \cup Coming : origin < s /\ s <= pos
    BY DEF AllRead
  <1>3. /\ consumed \subseteq 1..Len(log) /\ Jobs \subseteq 1..Len(log)
        /\ InOutbox \subseteq 1..Len(log) /\ Unsent \subseteq 1..Len(log)
    <2>1. consumed \subseteq 1..Len(log) /\ InOutbox \subseteq 1..Len(log)
      BY DEF TypeOK, InOutbox
    <2>2. Jobs \subseteq 1..Len(log)
      BY DEF TypeOK, Jobs, Nothing
    <2>3. Unsent \subseteq 1..Len(log)
      BY DEF Unsent, InFlight
    <2> QED
      BY <2>1, <2>2, <2>3
  <1>4. Inboxes \cup Wires \subseteq 1..Len(log)
    <2>1. \A c \in Consumer : InInbox(c) \subseteq 1..Len(log)
      BY DEF TypeOK, InInbox
    <2>2. \A c \in Consumer : InWire(c) \subseteq 1..Len(log)
      BY DEF TypeOK, InWire
    <2> QED
      BY <2>1, <2>2 DEF Inboxes, Wires
  <1>5. consumed \cup Coming \subseteq 1..pos
    <2> SUFFICES ASSUME NEW s \in consumed \cup Coming PROVE s \in 1..pos
      OBVIOUS
    <2>1. s \in 1..Len(log)
      BY <1>3, <1>4 DEF Coming
    <2> QED
      BY <1>1, <1>2, <2>1
  <1> QED
    BY <1>1, <1>2, <1>5 DEF Coming, Jobs

(* What comes was not consumed, and behind a callback comes its repo. *)
LEMMA ComingInOrder ==
    ASSUME TypeOK, AllRead, WayInOrder, NEW c \in Consumer, Consumer = {c}
    PROVE  /\ Ahead(consumed, Coming)
           /\ Coming \cap consumed = {}
           /\ job[c] # Nothing => \A s \in Coming : RepoOf(s) = RepoOf(job[c])
                                                        => job[c] <= s
  <1>1. Ahead(consumed, Coming)
    BY DEF WayInOrder
  <1>2. ASSUME NEW s \in Coming, s \in consumed PROVE FALSE
    <2>1. s \in Nat
      BY ComingRead
    <2> QED
      BY <1>1, <1>2, <2>1 DEF Ahead
  <1>3. ASSUME job[c] # Nothing, NEW s \in Coming, RepoOf(s) = RepoOf(job[c])
        PROVE  job[c] <= s
    <2>1. job[c] \in Jobs /\ Jobs = {job[c]} /\ job[c] \in Nat /\ s \in Nat
      BY <1>3, ComingRead DEF Jobs
    <2>2. s = job[c] \/ s \in Inboxes \cup Wires \cup InOutbox \cup Unsent
      BY <2>1 DEF Coming
    <2> QED
      BY <1>3, <2>1, <2>2 DEF WayInOrder, Ahead
  <1> QED
    BY <1>1, <1>2, <1>3

(* A post's places that are left, or the callback's, are followed by others. *)
LEMMA PlacesFollow ==
    ASSUME IndInv, AllRead, WayInOrder, NEW c \in Consumer, Consumer = {c},
           NEW uri \in Uri, NEW p \in Effective(log, uri, origin),
           p \in Left \/ p[1] = job[c], NEW bad, GivenUp \subseteq bad
    PROVE  Followed(log, uri, origin, p, Left, bad)
  <1> SUFFICES ASSUME NEW q \in Effective(log, uri, origin), p[1] < q[1],
                      q[1] \notin bad
               PROVE  q \in Left
    BY DEF Followed
  <1>1. /\ p[1] \in 1..Len(log) /\ q[1] \in 1..Len(log) /\ q \in Places(log)
        /\ RepoOf(p[1]) = RepoOf(q[1])
        /\ q[1] > origin /\ Intact(log[q[1]])
    BY EffectivePlace DEF IndInv, TypeOK
  <1>2. /\ pos \in Nat /\ Coming \subseteq 1..pos /\ consumed \subseteq 1..pos
        /\ job[c] # Nothing => job[c] \in Coming
    BY ComingRead DEF IndInv
  <1>3. CASE q[1] > pos
    BY <1>1, <1>3 DEF Left
  <1>4. CASE ~(q[1] > pos)
    <2>1. p[1] \in Coming
      BY <1>1, <1>2, <1>4 DEF Left, Nothing
    <2>2. q[1] \notin consumed
      BY <1>1, <2>1 DEF WayInOrder, Ahead
    <2>3. q[1] \in Coming
      BY <1>1, <1>2, <1>4, <2>2 DEF GivenUp, Intact
    <2>4. job[c] # q[1]
      <3> SUFFICES ASSUME job[c] = q[1] PROVE FALSE
        OBVIOUS
      <3>1. job[c] # Nothing /\ RepoOf(p[1]) = RepoOf(job[c])
        BY <1>1 DEF Nothing
      <3>2. job[c] <= p[1]
        BY <2>1, <3>1, ComingInOrder DEF IndInv
      <3> QED
        BY <1>1, <3>2
    <2> QED
      BY <1>1, <2>3, <2>4 DEF Left
  <1> QED
    BY <1>3, <1>4

(***************************************************************************)
(* A step that only moves commits along, loses some or reads one keeps the *)
(* rows on track: what was given up stays so, and what was left is left,   *)
(* given up, or passed by a callback that came to its end.                 *)
(***************************************************************************)
LEMMA CommitsMoved ==
    ASSUME IndInv, AllRead, WayInOrder, RowsOnTrack,
           NEW c \in Consumer, Consumer = {c},
           UNCHANGED <<log, origin, posts, failed>>,
           \/ pos' = pos /\ Coming' \subseteq Coming
           \/ /\ pos' = pos + 1 /\ pos' \in Coming'
              /\ Coming' \subseteq Coming \cup {pos'},
           \A s \in consumed' \ consumed :
               s = job[c] /\ s \in Coming /\ Processed(c, log[s]),
           (job'[c] = job[c] /\ at'[c] = at[c]) \/ job'[c] = Nothing \/ at'[c] = Start
    PROVE  AllRead' /\ RowsOnTrack'
  <1> USE DEF IndInv
  <1>1. /\ pos \in Nat /\ origin \in Nat /\ Len(log) \in Nat
        /\ consumed \subseteq 1..pos /\ Coming \subseteq 1..pos
        /\ \A s \in consumed \cup Coming : origin < s
        /\ job[c] # Nothing => job[c] \in Coming
    BY ComingRead
  <1>2. Coming \cap consumed = {}
    BY ComingInOrder
  <1>3. /\ \A s \in Coming' : s \in Coming \/ (s = pos' /\ pos' = pos + 1)
        /\ pos' = pos \/ (pos' = pos + 1 /\ pos' \in Coming')
    OBVIOUS
  <1>4. consumed' \subseteq consumed \cup Coming
    OBVIOUS
  <1>5. \A x \in Coming : x <= pos
    BY <1>1
  <1>6. AllRead'
    <2>1. origin \in 0..pos
      BY DEF AllRead
    <2>2. \A s \in consumed' \cup Coming' : origin < s /\ s <= pos'
      BY <1>1, <1>3, <1>4, <2>1
    <2> QED
      BY <1>1, <1>3, <2>1, <2>2 DEF AllRead
  <1>7. GivenUp \subseteq GivenUp'
    <2> SUFFICES ASSUME NEW s \in GivenUp PROVE s \in GivenUp'
      OBVIOUS
    <2>1. s \in 1..pos /\ s \notin Coming /\ s \notin consumed
      BY DEF GivenUp
    <2>2. s \notin Coming' /\ s \notin consumed' /\ s \in 1..pos'
      BY <1>1, <1>3, <1>4, <2>1
    <2> QED
      BY <2>2 DEF GivenUp
  <1>8. ASSUME NEW uri \in Uri, NEW p \in Effective(log, uri, origin) \cap Left
        PROVE  p \in Left' \/ p[1] \in GivenUp'
    <2> DEFINE s == p[1]
    <2>1. /\ p \in Places(log) /\ s \in 1..Len(log) /\ p[2] \in 1..Len(log[s].ops)
          /\ s > origin /\ Intact(log[s])
      BY EffectivePlace DEF TypeOK
    <2>2. s > pos \/ (s \in Coming /\ s <= pos /\ (job[c] = s => ~Passed(at[c], log, p)))
      <3> HIDE DEF IndInv
      <3>1. p \in Left
        BY <1>8
      <3>2. s > pos \/ (s \in Coming /\ (job[c] = s => ~Passed(at[c], log, p)))
        BY <3>1 DEF Left
      <3>3. s \in Coming => s <= pos
        BY <1>5
      <3> QED
        BY <3>2, <3>3
    <2> HIDE DEF IndInv
    <2>3. ASSUME job'[c] = s PROVE ~Passed(at'[c], log, p)
      <3>1. job'[c] # Nothing
        BY <2>1, <2>3 DEF Nothing
      <3>2. CASE job'[c] = job[c] /\ at'[c] = at[c]
        BY <1>1, <2>1, <2>2, <2>3, <3>1, <3>2
      <3>3. CASE at'[c] = Start
        BY <2>1, <3>3, NothingPassed
      <3> QED
        BY <3>1, <3>2, <3>3
    <2>4. CASE s > pos' \/ s \in Coming'
      BY <2>1, <2>3, <2>4 DEF Left
    <2>5. CASE ~(s > pos') /\ s \notin Coming'
      <3>1. s \in Coming /\ s <= pos /\ s \in 1..pos'
        BY <1>1, <1>3, <2>1, <2>2, <2>5
      <3>2. s \notin consumed'
        <4> SUFFICES ASSUME s \in consumed' PROVE FALSE
          OBVIOUS
        <4>1. s = job[c] /\ Processed(c, log[s])
          BY <1>2, <3>1
        <4>2. at[c].op > Len(log[s].ops)
          BY <2>1, <4>1 DEF Processed
        <4>3. at[c].op \in Nat /\ Len(log[s].ops) \in Nat
          <5>1. log[s] \in CommitRecord
            BY <2>1, NetworkAssumption DEF IndInv, TypeOK, FirehoseTypeOK
          <5> QED
            BY <5>1 DEF CommitRecord, IndInv, TypeOK, ProcessorTypeOK
        <4>4. Passed(at[c], log, p)
          BY <2>1, <4>2, <4>3 DEF Passed
        <4> QED
          BY <1>1, <2>2, <3>1, <4>1, <4>4
      <3> QED
        BY <2>1, <2>5, <3>1, <3>2 DEF GivenUp, Intact
    <2> QED
      BY <2>4, <2>5
  <1>9. RowsOnTrack'
    <2> SUFFICES ASSUME NEW uri \in Uri
                 PROVE  OnTrack(posts[uri], log, uri, origin,
                                Left', GivenUp' \cup failed)
      BY DEF RowsOnTrack
    <2>1. OnTrack(posts[uri], log, uri, origin, Left, GivenUp \cup failed)
      BY DEF RowsOnTrack
    <2>2. ASSUME NEW p \in Effective(log, uri, origin) \cap Left
          PROVE  /\ p \in Left' \/ p[1] \in GivenUp' \cup failed
                 /\ Followed(log, uri, origin, p, Left, GivenUp \cup failed)
      <3>1. Followed(log, uri, origin, p, Left, GivenUp \cup failed)
        BY PlacesFollow
      <3> QED
        BY <1>8, <3>1
    <2>3. log \in Seq(Commit) /\ GivenUp \cup failed \subseteq GivenUp' \cup failed
      BY <1>7 DEF TypeOK, FirehoseTypeOK
    <2> QED
      BY <2>1, <2>2, <2>3, StaysOnTrack
  <1> QED
    BY <1>6, <1>9

-----------------------------------------------------------------------------
(* What is sorted stays so when its head goes, or a later commit comes. *)
LEMMA TailSorted ==
    ASSUME NEW n \in Nat, NEW q \in Seq(1..n), q # <<>>, Sorted(q)
    PROVE  /\ Sorted(Tail(q))
           /\ \A i \in 1..Len(Tail(q)) :
                  RepoOf(Head(q)) = RepoOf(Tail(q)[i]) => Head(q) < Tail(q)[i]
  <1> DEFINE S == 1..n
             m == Len(q) - 1
  <1>1. q \in Seq(S)
    OBVIOUS
  <1> HIDE DEF S
  <1>2. /\ m \in Nat /\ Len(q) = m + 1 /\ Len(Tail(q)) = m /\ Head(q) = q[1]
        /\ \A i \in 1..m : Tail(q)[i] = q[i + 1]
    BY <1>1, HeadTailProperties, LenProperties, EmptySeq
  <1> HIDE DEF m
  <1>3. ASSUME NEW i \in 1..m, NEW j \in 1..m, i < j,
               RepoOf(Tail(q)[i]) = RepoOf(Tail(q)[j])
        PROVE  Tail(q)[i] < Tail(q)[j]
    <2>1. i + 1 \in 1..Len(q) /\ j + 1 \in 1..Len(q) /\ i + 1 < j + 1
      BY <1>2, <1>3
    <2>2. Tail(q)[i] = q[i + 1] /\ Tail(q)[j] = q[j + 1]
      BY <1>2
    <2> QED
      BY <1>3, <2>1, <2>2 DEF Sorted
  <1>4. ASSUME NEW i \in 1..m, RepoOf(Head(q)) = RepoOf(Tail(q)[i])
        PROVE  Head(q) < Tail(q)[i]
    <2>1. 1 \in 1..Len(q) /\ i + 1 \in 1..Len(q) /\ 1 < i + 1
      BY <1>2
    <2>2. Tail(q)[i] = q[i + 1] /\ Head(q) = q[1]
      BY <1>2
    <2> QED
      BY <1>4, <2>1, <2>2 DEF Sorted
  <1> QED
    BY <1>2, <1>3, <1>4 DEF Sorted

LEMMA AppendSorted ==
    ASSUME NEW n \in Nat, NEW q \in Seq(1..n), NEW e \in 1..n, Sorted(q),
           \A i \in 1..Len(q) : RepoOf(q[i]) = RepoOf(e) => q[i] < e
    PROVE  Sorted(Append(q, e))
  <1> DEFINE S == 1..n
             r == Append(q, e)
  <1>1. q \in Seq(S) /\ e \in S
    OBVIOUS
  <1> HIDE DEF S
  <1> DEFINE k == Len(q)
  <1>2. /\ k \in Nat /\ Len(r) = k + 1 /\ r[k + 1] = e
        /\ \A i \in 1..k : r[i] = q[i]
    BY <1>1, AppendProperties, LenProperties
  <1> HIDE DEF r, k
  <1>3. ASSUME NEW i \in 1..Len(r), NEW j \in 1..Len(r), i < j,
               RepoOf(r[i]) = RepoOf(r[j])
        PROVE  r[i] < r[j]
    <2>1. i \in 1..k /\ (j \in 1..k \/ j = k + 1)
      BY <1>2, <1>3
    <2>2. CASE j \in 1..k
      BY <1>2, <1>3, <2>1, <2>2 DEF Sorted, k
    <2>3. CASE j = k + 1
      BY <1>2, <1>3, <2>1, <2>3 DEF k
    <2> QED
      BY <2>1, <2>2, <2>3
  <1>4. Sorted(r)
    BY <1>3 DEF Sorted
  <1> QED
    BY <1>4 DEF r

(* Losing commits puts none out of order. *)
LEMMA WayShrinks ==
    ASSUME WayInOrder, UNCHANGED log,
           consumed' \subseteq consumed, Jobs' \subseteq Jobs,
           Inboxes' \subseteq Inboxes, Wires' \subseteq Wires,
           InOutbox' \subseteq InOutbox, Unsent' \subseteq Unsent,
           Sorted(outbox)', \A c \in Consumer : Sorted(wire[c])' /\ Sorted(inbox[c])'
    PROVE  WayInOrder' /\ Coming' \subseteq Coming
  <1>1. Coming' \subseteq Coming
    BY DEF Coming
  <1>2. Ahead(consumed, Coming)'
    BY <1>1 DEF WayInOrder, Ahead, RepoOf
  <1>3. Ahead(Jobs, Inboxes \cup Wires \cup InOutbox \cup Unsent)'
    BY DEF WayInOrder, Ahead, RepoOf
  <1>4. Ahead(Inboxes, Wires \cup InOutbox \cup Unsent)'
    BY DEF WayInOrder, Ahead, RepoOf
  <1>5. Ahead(Wires, InOutbox \cup Unsent)' /\ Ahead(InOutbox, Unsent)'
    BY DEF WayInOrder, Ahead, RepoOf
  <1> QED
    BY <1>1, <1>2, <1>3, <1>4, <1>5 DEF WayInOrder

(***************************************************************************)
(* A commit that moves on to the next station is ahead of what it leaves   *)
(* behind there, so the way stays in order.                                *)
(***************************************************************************)
LEMMA SentKeepsOrder ==
    ASSUME IndInv, AllRead, WayInOrder, UNCHANGED <<log, consumed, job, wire, inbox>>,
           NEW t \in Unsent,
           InOutbox' = InOutbox \cup {t}, Unsent' \subseteq Unsent \ {t},
           \A s \in Unsent : RepoOf(s) = RepoOf(t) => t <= s,
           Sorted(outbox)'
    PROVE  WayInOrder' /\ Coming' \subseteq Coming
  <1>1. /\ UNCHANGED <<Jobs, Inboxes, Wires>>
        /\ \A c \in Consumer : Sorted(wire[c])' /\ Sorted(inbox[c])'
    <2>1. UNCHANGED <<Jobs, Inboxes, Wires>>
      BY DEF Jobs, Inboxes, InInbox, Wires, InWire
    <2> QED
      BY <2>1 DEF WayInOrder, Sorted, RepoOf
  <1>2. Coming' \subseteq Coming
    BY <1>1 DEF Coming
  <1>3. Ahead(consumed, Coming)'
    BY <1>2 DEF WayInOrder, Ahead, RepoOf
  <1>4. Ahead(Jobs, Inboxes \cup Wires \cup InOutbox \cup Unsent)'
    BY <1>1 DEF WayInOrder, Ahead, RepoOf
  <1>5. Ahead(Inboxes, Wires \cup InOutbox \cup Unsent)'
    BY <1>1 DEF WayInOrder, Ahead, RepoOf
  <1>6. Ahead(Wires, InOutbox \cup Unsent)'
    BY <1>1 DEF WayInOrder, Ahead, RepoOf
  <1>7. Ahead(InOutbox, Unsent)'
    <2> SUFFICES ASSUME NEW x \in InOutbox', NEW y \in Unsent', RepoOf(x) = RepoOf(y)
                 PROVE  x < y
      BY DEF Ahead, RepoOf
    <2>1. CASE x \in InOutbox
      BY <2>1 DEF WayInOrder, Ahead
    <2>2. CASE x = t
      <3>1. t <= y /\ y # t /\ y \in Nat /\ t \in Nat
        BY <2>2 DEF Unsent, InFlight
      <3> QED
        BY <2>2, <3>1
    <2> QED
      BY <2>1, <2>2
  <1> QED
    BY <1>1, <1>2, <1>3, <1>4, <1>5, <1>6, <1>7 DEF WayInOrder

LEMMA DeliveryKeepsOrder ==
    ASSUME WayInOrder, UNCHANGED <<log, consumed, job, inbox, Unsent>>,
           NEW t \in InOutbox, InOutbox' \subseteq InOutbox,
           Wires' \subseteq Wires \cup {t},
           \A s \in InOutbox' : RepoOf(t) = RepoOf(s) => t < s,
           Sorted(outbox)', \A c \in Consumer : Sorted(wire[c])'
    PROVE  WayInOrder' /\ Coming' \subseteq Coming
  <1>1. UNCHANGED <<Jobs, Inboxes>> /\ \A c \in Consumer : Sorted(inbox[c])'
    BY DEF Jobs, Inboxes, InInbox, WayInOrder, Sorted, RepoOf
  <1>2. Coming' \subseteq Coming
    BY <1>1 DEF Coming
  <1>3. Ahead(consumed, Coming)'
    BY <1>2 DEF WayInOrder, Ahead, RepoOf
  <1>4. Ahead(Jobs, Inboxes \cup Wires \cup InOutbox \cup Unsent)'
    BY <1>1 DEF WayInOrder, Ahead, RepoOf
  <1>5. Ahead(Inboxes, Wires \cup InOutbox \cup Unsent)'
    BY <1>1 DEF WayInOrder, Ahead, RepoOf
  <1>6. Ahead(Wires, InOutbox \cup Unsent)' /\ Ahead(InOutbox, Unsent)'
    BY DEF WayInOrder, Ahead, RepoOf
  <1> QED
    BY <1>1, <1>2, <1>3, <1>4, <1>5, <1>6 DEF WayInOrder

LEMMA ArrivalKeepsOrder ==
    ASSUME WayInOrder, UNCHANGED <<log, consumed, job, outbox, Unsent>>,
           NEW t \in Wires, Wires' \subseteq Wires,
           Inboxes' \subseteq Inboxes \cup {t},
           \A s \in Wires' : RepoOf(t) = RepoOf(s) => t < s,
           \A c \in Consumer : Sorted(wire[c])' /\ Sorted(inbox[c])'
    PROVE  WayInOrder' /\ Coming' \subseteq Coming
  <1>1. UNCHANGED <<Jobs, InOutbox>> /\ Sorted(outbox)'
    BY DEF Jobs, InOutbox, WayInOrder, Sorted, RepoOf
  <1>2. Coming' \subseteq Coming
    BY <1>1 DEF Coming
  <1>3. Ahead(consumed, Coming)'
    BY <1>2 DEF WayInOrder, Ahead, RepoOf
  <1>4. Ahead(Jobs, Inboxes \cup Wires \cup InOutbox \cup Unsent)'
    BY <1>1 DEF WayInOrder, Ahead, RepoOf
  <1>5. Ahead(Inboxes, Wires \cup InOutbox \cup Unsent)'
    BY <1>1 DEF WayInOrder, Ahead, RepoOf
  <1>6. Ahead(Wires, InOutbox \cup Unsent)' /\ Ahead(InOutbox, Unsent)'
    BY <1>1 DEF WayInOrder, Ahead, RepoOf
  <1> QED
    BY <1>1, <1>2, <1>3, <1>4, <1>5, <1>6 DEF WayInOrder

LEMMA TakingKeepsOrder ==
    ASSUME WayInOrder, UNCHANGED <<log, consumed, outbox, wire, Unsent>>,
           NEW t \in Inboxes, Jobs' \subseteq {t}, Inboxes' \subseteq Inboxes,
           \A s \in Inboxes' : RepoOf(t) = RepoOf(s) => t < s,
           \A c \in Consumer : Sorted(inbox[c])'
    PROVE  WayInOrder' /\ Coming' \subseteq Coming
  <1>1. /\ UNCHANGED <<InOutbox, Wires>> /\ Sorted(outbox)'
        /\ \A c \in Consumer : Sorted(wire[c])'
    BY DEF InOutbox, Wires, InWire, WayInOrder, Sorted, RepoOf
  <1>2. Coming' \subseteq Coming
    BY <1>1 DEF Coming
  <1>3. Ahead(consumed, Coming)'
    BY <1>2 DEF WayInOrder, Ahead, RepoOf
  <1>4. Ahead(Jobs, Inboxes \cup Wires \cup InOutbox \cup Unsent)'
    BY <1>1 DEF WayInOrder, Ahead, RepoOf
  <1>5. Ahead(Inboxes, Wires \cup InOutbox \cup Unsent)'
    BY <1>1 DEF WayInOrder, Ahead, RepoOf
  <1>6. Ahead(Wires, InOutbox \cup Unsent)' /\ Ahead(InOutbox, Unsent)'
    BY <1>1 DEF WayInOrder, Ahead, RepoOf
  <1> QED
    BY <1>1, <1>2, <1>3, <1>4, <1>5, <1>6 DEF WayInOrder

LEMMA ConsumingKeepsOrder ==
    ASSUME WayInOrder, UNCHANGED <<log, outbox, wire, inbox, Unsent>>,
           NEW t \in Jobs, Jobs' = {}, consumed' = consumed \cup {t}
    PROVE  WayInOrder' /\ Coming' \subseteq Coming
  <1>1. /\ UNCHANGED <<InOutbox, Inboxes, Wires>> /\ Sorted(outbox)'
        /\ \A c \in Consumer : Sorted(wire[c])' /\ Sorted(inbox[c])'
    BY DEF InOutbox, Inboxes, InInbox, Wires, InWire, WayInOrder, Sorted, RepoOf
  <1>2. /\ Coming' = Inboxes \cup Wires \cup InOutbox \cup Unsent
        /\ Coming' \subseteq Coming
    BY <1>1 DEF Coming
  <1>3. Ahead(consumed, Coming)'
    BY <1>2 DEF WayInOrder, Ahead, RepoOf
  <1>4. Ahead(Jobs, Inboxes \cup Wires \cup InOutbox \cup Unsent)'
    BY DEF Ahead
  <1>5. Ahead(Inboxes, Wires \cup InOutbox \cup Unsent)'
    BY <1>1 DEF WayInOrder, Ahead, RepoOf
  <1>6. Ahead(Wires, InOutbox \cup Unsent)' /\ Ahead(InOutbox, Unsent)'
    BY <1>1 DEF WayInOrder, Ahead, RepoOf
  <1> QED
    BY <1>1, <1>2, <1>3, <1>4, <1>5, <1>6 DEF WayInOrder

-----------------------------------------------------------------------------
(* The stations, with one worker. *)
LEMMA OneWorker ==
    ASSUME NEW c \in Consumer, Consumer = {c}
    PROVE  /\ Jobs = {job[c]} \ {Nothing} /\ Jobs' = {job'[c]} \ {Nothing}
           /\ Inboxes = InInbox(c) /\ Inboxes' = InInbox(c)'
           /\ Wires = InWire(c) /\ Wires' = InWire(c)'
  BY DEF Jobs, Inboxes, Wires

(* A handler of the publisher returns, publishes or is told of the delivery. *)
LEMMA HandlerMoves ==
    ASSUME IndInv, Sending, AllRead, WayInOrder, NEW w \in Worker, HandleCommit(w)
    PROVE  /\ WayInOrder' /\ Coming' \subseteq Coming
           /\ UNCHANGED <<log, origin, pos, procVars, workers>>
  <1> USE DEF IndInv
  <1>1. /\ UNCHANGED <<log, origin, pos, procVars, workers>>
        /\ task[w] # Nothing /\ task[w] \in InFlight
    <2>1. /\ UNCHANGED <<log, origin, pos, procVars, workers>>
          /\ task[w] # Nothing
      BY DEF HandleCommit, SkipTooBig, Publish, PublishFails, Flush, FlushFails,
             Confirm, Return, Finish, fhVars, stream, ghosts, tables, Sending
    <2> QED
      BY <2>1, FlightRead DEF TypeOK
  <1>2. /\ UNCHANGED <<Jobs, Inboxes, Wires>>
        /\ \A c \in Consumer : Sorted(wire[c])' /\ Sorted(inbox[c])'
    <2>1. UNCHANGED <<log, wire, inbox, job>>
      BY <1>1 DEF workers
    <2>2. UNCHANGED <<Jobs, Inboxes, Wires>>
      BY <2>1 DEF Jobs, Inboxes, InInbox, Wires, InWire
    <2> QED
      BY <2>1, <2>2 DEF WayInOrder, Sorted, RepoOf
  <1>3. CASE Publish(w)
    <2> DEFINE t == task[w]
    <2>1. /\ stage[w] = "new" /\ stage'[w] = "published"
          /\ \A v \in Worker : v # w => stage'[v] = stage[v]
          /\ UNCHANGED <<task, InFlight>>
      BY <1>3, InFlightUnchanged DEF Publish, TypeOK, fhVars, scheduler
    <2>2. t \in Unsent
      <3>1. \A v \in Worker : task[v] = t => v = w
        BY <1>1, OnePlace DEF TypeOK
      <3> QED
        BY <1>1, <2>1, <3>1 DEF Unsent, Sent
    <2>3. Unsent' \subseteq Unsent \ {t}
      <3>1. Sent \cup {t} \subseteq Sent'
        BY <2>1 DEF Sent
      <3> QED
        BY <2>1, <3>1 DEF Unsent
    <2>4. t \in 1..Len(log) /\ Len(log) \in Nat /\ outbox \in Seq(1..Len(log))
          /\ outbox' = Append(outbox, t)
      BY <1>1, <1>3 DEF Publish, InFlight, TypeOK, FirehoseTypeOK
    <2>5. InOutbox' = InOutbox \cup {t}
      <3> DEFINE S == 1..Len(log)
      <3>1. outbox \in Seq(S) /\ t \in S
        BY <2>4
      <3> HIDE DEF S, t
      <3>2. \A x : (\E i \in 1..Len(outbox') : x = outbox'[i])
                       <=> x = t \/ \E i \in 1..Len(outbox) : x = outbox[i]
        BY <2>4, <3>1, AppendMembers
      <3> QED
        BY <3>2 DEF InOutbox
    <2>6. Sorted(outbox)'
      <3>1. Sorted(outbox)
        BY DEF WayInOrder
      <3>2. \A i \in 1..Len(outbox) : RepoOf(outbox[i]) = RepoOf(t) => outbox[i] < t
        BY <2>2 DEF WayInOrder, Ahead, InOutbox
      <3> HIDE DEF t
      <3>3. Sorted(Append(outbox, t))
        BY <2>4, <3>1, <3>2, AppendSorted
      <3> QED
        BY <1>1, <2>4, <3>3 DEF Sorted, RepoOf
    <2>7. \A s \in Unsent : RepoOf(s) = RepoOf(t) => t <= s
      BY <1>1, TaskOldest DEF TypeOK, Unsent
    <2>8. UNCHANGED <<log, consumed, job, wire, inbox>>
      BY <1>1 DEF workers
    <2> HIDE DEF t
    <2> QED
      BY <1>1, <2>2, <2>3, <2>5, <2>6, <2>7, <2>8, SentKeepsOrder
  <1>4. CASE ~Publish(w)
    <2>1. outbox' = outbox
      BY <1>4 DEF HandleCommit, SkipTooBig, PublishFails, Flush, FlushFails, Confirm
    <2>2. InOutbox' = InOutbox /\ Sorted(outbox)' /\ consumed' = consumed
      BY <1>1, <2>1 DEF InOutbox, WayInOrder, Sorted, RepoOf, workers
    <2>3. Unsent' \subseteq Unsent
      <3>1. CASE Finish(w) /\ stage' = [stage EXCEPT ![w] = "new"]
        <4> SUFFICES ASSUME NEW s \in Unsent' PROVE s \in Unsent
          OBVIOUS
        <4>1. s \in InFlight /\ s # task[w] /\ s \notin Sent'
          BY <3>1, FinishInFlight DEF TypeOK, Unsent
        <4>2. \A v \in Worker : v # w => task'[v] = task[v] /\ stage'[v] = stage[v]
          BY <3>1 DEF Finish, TypeOK, FirehoseTypeOK
        <4>3. s \notin Sent
          BY <4>1, <4>2 DEF Sent
        <4> QED
          BY <4>1, <4>3 DEF Unsent
      <3>2. CASE /\ stage[w] = "published" /\ stage' = [stage EXCEPT ![w] = "flushed"]
                 /\ UNCHANGED fhVars
        <4>1. UNCHANGED <<task, InFlight>>
          BY <3>2, InFlightUnchanged DEF fhVars, scheduler
        <4>2. \A v \in Worker : stage[v] # "new" => stage'[v] # "new"
          BY <3>2 DEF TypeOK
        <4> QED
          BY <4>1, <4>2 DEF Unsent, Sent
      <3> QED
        BY <1>4, <3>1, <3>2 DEF HandleCommit, SkipTooBig, PublishFails, Flush,
           FlushFails, Confirm, Return
    <2> QED
      BY <1>1, <1>2, <2>2, <2>3, WayShrinks
  <1> QED
    BY <1>1, <1>3, <1>4

(* The broker sends the oldest message it gets to the worker, or to nobody. *)
LEMMA BrokerMoves ==
    ASSUME IndInv, AllRead, WayInOrder, NEW c \in Consumer, Consumer = {c},
           Deliver(c) \/ NobodyListens
    PROVE  /\ WayInOrder' /\ Coming' \subseteq Coming
           /\ UNCHANGED <<log, origin, pos, procVars, inbox, job, consumed>>
  <1> USE DEF IndInv
  <1> DEFINE t == Head(outbox)
  <1>1. /\ outbox # <<>> /\ outbox' = Tail(outbox)
        /\ outbox \in Seq(1..Len(log)) /\ Len(log) \in Nat
        /\ UNCHANGED <<log, origin, pos, procVars, inbox, job, consumed, fhVars, stage>>
    <2>1. /\ outbox # <<>> /\ outbox' = Tail(outbox)
          /\ UNCHANGED <<fhVars, stage, procVars, inbox, job, consumed>>
      BY DEF Deliver, NobodyListens, tables, workers
    <2> QED
      BY <2>1 DEF fhVars, stream, ghosts, TypeOK, FirehoseTypeOK
  <1>2. UNCHANGED Unsent
    <2>1. UNCHANGED <<task, InFlight>>
      BY <1>1, InFlightUnchanged DEF fhVars, scheduler
    <2> QED
      BY <1>1, <2>1 DEF Unsent, Sent
  <1>3. \A x : x \in InOutbox <=> x = t \/ x \in InOutbox'
    <2> DEFINE S == 1..Len(log)
    <2>1. outbox \in Seq(S) /\ outbox # <<>> /\ outbox' = Tail(outbox)
      BY <1>1
    <2> HIDE DEF S
    <2>2. \A x : (\E i \in 1..Len(outbox) : x = outbox[i])
              <=> x = t \/ \E i \in 1..Len(outbox') : x = outbox'[i]
      BY <2>1, TailMembers
    <2> QED
      BY <2>2 DEF InOutbox
  <1>4. Sorted(Tail(outbox)) /\ \A i \in 1..Len(Tail(outbox)) :
            RepoOf(t) = RepoOf(Tail(outbox)[i]) => t < Tail(outbox)[i]
    BY <1>1, TailSorted DEF WayInOrder
  <1>5. Sorted(outbox)' /\ \A s \in InOutbox' : RepoOf(t) = RepoOf(s) => t < s
    BY <1>1, <1>4 DEF Sorted, InOutbox, RepoOf
  <1>6. /\ \A b \in Consumer : Sorted(wire[b])'
        /\ Wires' \subseteq Wires \cup {t}
    <2>1. CASE UNCHANGED wire
      BY <1>1, <2>1 DEF WayInOrder, Sorted, RepoOf, Wires, InWire
    <2>2. CASE wire' = [wire EXCEPT ![c] = Append(@, t)]
      <3> DEFINE q == wire[c]
      <3>1. /\ q \in Seq(1..Len(log)) /\ t \in 1..Len(log)
            /\ wire'[c] = Append(q, t) /\ Sorted(q)
        <4>1. t \in 1..Len(log)
          BY <1>1, HeadTailProperties
        <4> QED
          BY <2>2, <4>1 DEF TypeOK, WayInOrder
      <3>2. \A i \in 1..Len(q) : RepoOf(q[i]) = RepoOf(t) => q[i] < t
        <4>1. t \in InOutbox
          BY <1>3
        <4> QED
          BY <4>1 DEF WayInOrder, Ahead, Wires, InWire
      <3>3. InWire(c)' = InWire(c) \cup {t}
        <4> DEFINE S == 1..Len(log)
        <4>1. q \in Seq(S) /\ t \in S
          BY <3>1
        <4> HIDE DEF S, t
        <4>2. \A x : (\E i \in 1..Len(wire'[c]) : x = wire'[c][i])
                         <=> x = t \/ \E i \in 1..Len(q) : x = q[i]
          BY <3>1, <4>1, AppendMembers
        <4> QED
          BY <4>2 DEF InWire
      <3> HIDE DEF t, q
      <3>4. Sorted(Append(q, t))
        BY <1>1, <3>1, <3>2, AppendSorted
      <3> QED
        BY <1>1, <3>1, <3>3, <3>4, OneWorker DEF Sorted, RepoOf
    <2> QED
      BY <2>1, <2>2 DEF Deliver, NobodyListens, workers
  <1>7. t \in InOutbox /\ InOutbox' \subseteq InOutbox
    BY <1>3
  <1> HIDE DEF t
  <1> QED
    BY <1>1, <1>2, <1>5, <1>6, <1>7, DeliveryKeepsOrder

(* What the publisher's client had buffered may be lost all at once. *)
LEMMA LosingMoves ==
    ASSUME IndInv, AllRead, WayInOrder, LoseOutbox
    PROVE  /\ WayInOrder' /\ Coming' \subseteq Coming
           /\ UNCHANGED <<log, origin, pos, procVars, workers>>
  <1>1. /\ outbox' = <<>>
        /\ UNCHANGED <<log, origin, pos, procVars, workers, stage, fhVars>>
    BY DEF LoseOutbox, fhVars, stream, ghosts, tables
  <1>2. UNCHANGED <<task, InFlight>>
    BY <1>1, InFlightUnchanged DEF fhVars, scheduler
  <1>3. UNCHANGED <<Unsent, consumed, Jobs, Inboxes, Wires>> /\ InOutbox' = {}
    BY <1>1, <1>2 DEF Unsent, Sent, workers, Jobs, Inboxes, InInbox, Wires, InWire,
       InOutbox
  <1>4. /\ Sorted(outbox)'
        /\ \A c \in Consumer : Sorted(wire[c])' /\ Sorted(inbox[c])'
    BY <1>1 DEF WayInOrder, Sorted, RepoOf, workers
  <1> QED
    BY <1>1, <1>3, <1>4, WayShrinks

(* The worker gets a message, takes it, ends with it, or ends altogether. *)
LEMMA WorkerMoves ==
    ASSUME IndInv, AllRead, WayInOrder, NEW c \in Consumer, Consumer = {c},
           job[c] = Nothing => at[c] = Start,
           \/ Join(c) \/ Arrive(c) \/ Take(c) \/ StopWorker(c) \/ ExitWorker(c)
           \/ Detach(c) \/ Attach(c) \/ \E ok \in BOOLEAN : Consume(c, ok)
    PROVE  /\ WayInOrder' /\ Coming' \subseteq Coming
           /\ UNCHANGED <<log, origin, pos, posts, failed>>
           /\ \A s \in consumed' \ consumed :
                  s = job[c] /\ s \in Coming /\ Processed(c, log[s])
           /\ \/ job'[c] = job[c] /\ at'[c] = at[c]
              \/ job'[c] = Nothing \/ at'[c] = Start
  <1> USE DEF IndInv
  <1>1. /\ UNCHANGED <<log, origin, pos, posts, failed, outbox, stage, fhVars>>
        /\ log \in Seq(Commit) /\ Len(log) \in Nat
    BY DEF Join, Arrive, Take, StopWorker, ExitWorker, Detach, Attach, Consume, publisher,
           fhVars, stream, ghosts, tables, procVars, TypeOK, FirehoseTypeOK
  <1>2. UNCHANGED <<Unsent, InOutbox>> /\ Sorted(outbox)'
    <2>1. UNCHANGED <<task, InFlight>>
      BY <1>1, InFlightUnchanged DEF fhVars, scheduler
    <2> QED
      BY <1>1, <2>1 DEF Unsent, Sent, InOutbox, WayInOrder, Sorted, RepoOf
  <1>3. CASE Take(c)
    <2> DEFINE q == inbox[c]
               t == Head(q)
    <2>1. /\ job[c] = Nothing /\ q # <<>> /\ q \in Seq(1..Len(log))
          /\ job'[c] = t /\ inbox'[c] = Tail(q) /\ UNCHANGED <<consumed, at, wire>>
      BY <1>3 DEF Take, TypeOK, tables, procVars
    <2>2. \A x : x \in Inboxes <=> x = t \/ x \in Inboxes'
      <3> DEFINE S == 1..Len(log)
      <3>1. q \in Seq(S) /\ q # <<>> /\ inbox'[c] = Tail(q)
        BY <2>1
      <3> HIDE DEF S
      <3>2. \A x : (\E i \in 1..Len(q) : x = q[i])
                <=> x = t \/ \E i \in 1..Len(inbox'[c]) : x = inbox'[c][i]
        BY <3>1, TailMembers
      <3>3. \A x : x \in InInbox(c) <=> x = t \/ x \in InInbox(c)'
        BY <3>2 DEF InInbox
      <3>4. Inboxes = InInbox(c) /\ Inboxes' = InInbox(c)'
        BY OneWorker
      <3> QED
        BY <3>3, <3>4
    <2>3. Sorted(Tail(q)) /\ \A i \in 1..Len(Tail(q)) :
              RepoOf(t) = RepoOf(Tail(q)[i]) => t < Tail(q)[i]
      BY <1>1, <2>1, TailSorted DEF WayInOrder
    <2>4. /\ \A b \in Consumer : Sorted(inbox[b])'
          /\ \A s \in Inboxes' : RepoOf(t) = RepoOf(s) => t < s
      <3>1. Inboxes' = InInbox(c)'
        BY OneWorker
      <3>2. \A s \in InInbox(c)' : RepoOf(t) = RepoOf(s) => t < s
        BY <2>1, <2>3 DEF InInbox
      <3>3. Sorted(inbox[c])'
        BY <1>1, <2>1, <2>3 DEF Sorted, RepoOf
      <3> QED
        BY <3>1, <3>2, <3>3
    <2>5. Jobs' \subseteq {t} /\ t \in Inboxes /\ Inboxes' \subseteq Inboxes
      BY <2>1, <2>2, OneWorker
    <2> HIDE DEF t, q
    <2>6. WayInOrder' /\ Coming' \subseteq Coming
      BY <1>1, <1>2, <2>1, <2>4, <2>5, TakingKeepsOrder
    <2> QED
      BY <1>1, <2>1, <2>6
  <1>4. ASSUME NEW ok \in BOOLEAN, Consume(c, ok)
        PROVE  /\ WayInOrder' /\ Coming' \subseteq Coming
               /\ consumed' = consumed \cup {job[c]} /\ job[c] \in Coming
               /\ Processed(c, log[job[c]]) /\ job'[c] = Nothing
    <2>1. /\ job[c] # Nothing /\ Processed(c, log[job[c]])
          /\ job'[c] = Nothing /\ UNCHANGED <<wire, inbox>>
          /\ consumed' = consumed \cup {job[c]}
      BY <1>4 DEF Consume, TypeOK
    <2>2. job[c] \in Jobs /\ Jobs' = {}
      BY <2>1, OneWorker
    <2>3. WayInOrder' /\ Coming' \subseteq Coming
      BY <1>1, <1>2, <2>1, <2>2, ConsumingKeepsOrder
    <2> QED
      BY <2>1, <2>2, <2>3 DEF Coming
  <1>5. CASE Join(c) \/ StopWorker(c) \/ ExitWorker(c) \/ Detach(c) \/ Attach(c)
    <2>1. /\ UNCHANGED consumed
          /\ \/ UNCHANGED <<job, at>> \/ job'[c] = Nothing
          /\ inbox'[c] = inbox[c] \/ inbox'[c] = <<>>
          /\ wire'[c] = wire[c] \/ wire'[c] = <<>>
      BY <1>5 DEF Join, StopWorker, ExitWorker, Detach, Attach, workers, TypeOK,
                  tables, procVars
    <2>2. Jobs' \subseteq Jobs
      BY <2>1, OneWorker
    <2>3. Inboxes' \subseteq Inboxes /\ Wires' \subseteq Wires
      <3>1. InInbox(c)' \subseteq InInbox(c)
        BY <2>1 DEF InInbox
      <3>2. InWire(c)' \subseteq InWire(c)
        BY <2>1 DEF InWire
      <3>3. /\ Inboxes = InInbox(c) /\ Inboxes' = InInbox(c)'
            /\ Wires = InWire(c) /\ Wires' = InWire(c)'
        BY OneWorker
      <3> QED
        BY <3>1, <3>2, <3>3
    <2>4. \A b \in Consumer : Sorted(wire[b])' /\ Sorted(inbox[b])'
      <3>1. Sorted(wire'[c])
        BY <2>1 DEF WayInOrder, Sorted
      <3>2. Sorted(inbox'[c])
        BY <2>1 DEF WayInOrder, Sorted
      <3> QED
        BY <1>1, <3>1, <3>2 DEF Sorted, RepoOf
    <2>5. WayInOrder' /\ Coming' \subseteq Coming
      BY <1>1, <1>2, <2>1, <2>2, <2>3, <2>4, WayShrinks
    <2> QED
      BY <1>1, <2>1, <2>5
  <1>6. CASE Arrive(c)
    <2> DEFINE q == wire[c]
               t == Head(q)
               r == inbox[c]
    <2>1. /\ q # <<>> /\ q \in Seq(1..Len(log)) /\ r \in Seq(1..Len(log))
          /\ wire'[c] = Tail(q) /\ UNCHANGED <<consumed, at, job, outbox>>
          /\ inbox'[c] = r \/ inbox'[c] = Append(r, t)
          /\ Sorted(q) /\ Sorted(r)
      BY <1>6 DEF Arrive, TypeOK, tables, procVars, publisher, WayInOrder
    <2>2. \A x : x \in Wires <=> x = t \/ x \in Wires'
      <3> DEFINE S == 1..Len(log)
      <3>1. q \in Seq(S) /\ q # <<>> /\ wire'[c] = Tail(q)
        BY <2>1
      <3> HIDE DEF S
      <3>2. \A x : (\E i \in 1..Len(q) : x = q[i])
                <=> x = t \/ \E i \in 1..Len(wire'[c]) : x = wire'[c][i]
        BY <3>1, TailMembers
      <3>3. \A x : x \in InWire(c) <=> x = t \/ x \in InWire(c)'
        BY <3>2 DEF InWire
      <3> QED
        BY <3>3, OneWorker
    <2>3. Sorted(Tail(q)) /\ \A i \in 1..Len(Tail(q)) :
              RepoOf(t) = RepoOf(Tail(q)[i]) => t < Tail(q)[i]
      BY <1>1, <2>1, TailSorted
    <2>4. \A s \in Wires' : RepoOf(t) = RepoOf(s) => t < s
      <3>1. \A s \in InWire(c)' : RepoOf(t) = RepoOf(s) => t < s
        BY <2>1, <2>3 DEF InWire
      <3> QED
        BY <3>1, OneWorker
    <2>5. t \in Wires /\ Wires' \subseteq Wires
      BY <2>2
    <2>6. t \in 1..Len(log)
      BY <2>1, HeadTailProperties
    <2>7. Inboxes' \subseteq Inboxes \cup {t}
      <3> DEFINE S == 1..Len(log)
      <3>1. r \in Seq(S) /\ t \in S
        BY <2>1, <2>6
      <3> HIDE DEF S, t
      <3>2. Members(Append(r, t)) = Members(r) \cup {t}
        BY <3>1, AppendSet
      <3>3. InInbox(c)' = Members(r) \/ InInbox(c)' = Members(Append(r, t))
        BY <2>1 DEF InInbox, Members
      <3> QED
        BY <3>2, <3>3, OneWorker DEF InInbox, Members
    <2>8. \A b \in Consumer : Sorted(wire[b])' /\ Sorted(inbox[b])'
      <3>1. \A i \in 1..Len(r) : RepoOf(r[i]) = RepoOf(t) => r[i] < t
        BY <2>5, OneWorker DEF WayInOrder, Ahead, InInbox
      <3> HIDE DEF t, q, r
      <3>2. Sorted(Append(r, t))
        BY <1>1, <2>1, <2>6, <3>1, AppendSorted
      <3>3. Sorted(wire'[c]) /\ Sorted(inbox'[c])
        BY <2>1, <2>3, <3>2
      <3> QED
        BY <1>1, <3>3 DEF Sorted, RepoOf
    <2> HIDE DEF t, q, r
    <2>9. WayInOrder' /\ Coming' \subseteq Coming
      BY <1>1, <1>2, <2>1, <2>4, <2>5, <2>7, <2>8, ArrivalKeepsOrder
    <2> QED
      BY <1>1, <2>1, <2>9
  <1> QED
    BY <1>1, <1>3, <1>4, <1>5, <1>6

(* A commit that is read comes last, and nothing else moves. *)
LEMMA ReadMoves ==
    ASSUME IndInv, AllRead, WayInOrder, ReadCommit
    PROVE  /\ WayInOrder' /\ Coming' \subseteq Coming \cup {pos'}
           /\ pos' = pos + 1 /\ pos' \in Coming'
           /\ UNCHANGED <<log, origin, procVars, workers>>
  <1> USE DEF IndInv
  <1>1. /\ pos' = pos + 1 /\ pos' <= Len(log) /\ pos' \in 1..Len(log)
        /\ UNCHANGED <<log, origin, procVars, workers, task, stage, outbox>>
        /\ pos \in Nat
    BY DEF ReadCommit, Read, others, tables, TypeOK, FirehoseTypeOK
  <1>2. InFlight' = InFlight \cup {pos'} /\ Sent' = Sent
    <2>1. InFlight' = InFlight \cup {pos'}
      BY ReadInFlight DEF ReadCommit, TypeOK
    <2> QED
      BY <1>1, <2>1 DEF Sent
  <1>3. pos' \notin Sent
    BY <1>1 DEF Sent, SchedulerInv, AlreadyRead, TypeOK, FirehoseTypeOK
  <1>4. Unsent' = Unsent \cup {pos'}
    BY <1>2, <1>3 DEF Unsent
  <1>5. /\ UNCHANGED <<Jobs, Inboxes, Wires, InOutbox>> /\ Sorted(outbox)'
        /\ \A c \in Consumer : Sorted(wire[c])' /\ Sorted(inbox[c])'
    <2>1. UNCHANGED <<log, wire, inbox, job, outbox>>
      BY <1>1 DEF workers
    <2>2. UNCHANGED <<Jobs, Inboxes, Wires, InOutbox>>
      BY <2>1 DEF Jobs, Inboxes, InInbox, Wires, InWire, InOutbox
    <2> QED
      BY <2>1, <2>2 DEF WayInOrder, Sorted, RepoOf
  <1>6. Coming' = Coming \cup {pos'} /\ consumed' = consumed
    BY <1>1, <1>4, <1>5 DEF Coming, workers
  <1>7. \A x \in consumed \cup Coming : x < pos'
    BY <1>1, ComingRead
  <1>8. Ahead(consumed, Coming)'
    BY <1>1, <1>6, <1>7 DEF WayInOrder, Ahead, RepoOf
  <1>9. Ahead(Jobs, Inboxes \cup Wires \cup InOutbox \cup Unsent)'
    BY <1>1, <1>4, <1>5, <1>7 DEF WayInOrder, Ahead, RepoOf, Coming
  <1>10. Ahead(Inboxes, Wires \cup InOutbox \cup Unsent)'
    BY <1>1, <1>4, <1>5, <1>7 DEF WayInOrder, Ahead, RepoOf, Coming
  <1>11. Ahead(Wires, InOutbox \cup Unsent)' /\ Ahead(InOutbox, Unsent)'
    BY <1>1, <1>4, <1>5, <1>7 DEF WayInOrder, Ahead, RepoOf, Coming
  <1> QED
    BY <1>1, <1>5, <1>6, <1>8, <1>9, <1>10, <1>11 DEF WayInOrder

(* A free goroutine takes the commit, or the connection starts to drain. *)
LEMMA StartMoves ==
    ASSUME IndInv, Sending, AllRead, WayInOrder,
           Disconnect \/ \E w \in Worker : StartCommit(w)
    PROVE  /\ WayInOrder' /\ Coming' \subseteq Coming
           /\ UNCHANGED <<log, origin, pos, procVars, workers>>
  <1> USE DEF IndInv
  <1>1. UNCHANGED <<log, origin, pos, procVars, workers, stage, outbox>>
    BY DEF Disconnect, Drop, StartCommit, Dispatch, others, tables, stream, ghosts
  <1>2. InFlight' = InFlight
    <2>1. CASE Disconnect
      BY <2>1, InFlightUnchanged DEF Disconnect, Drop, scheduler
    <2>2. CASE \E w \in Worker : StartCommit(w)
      BY <2>2, DispatchInFlight DEF StartCommit, TypeOK
    <2> QED
      BY <2>1, <2>2
  <1>3. Sent' = Sent
    <2>1. \A w \in Worker : stage[w] # "new" => task'[w] = task[w]
      BY DEF Disconnect, Drop, scheduler, StartCommit, Dispatch, Sending, TypeOK,
             FirehoseTypeOK
    <2> QED
      BY <1>1, <2>1 DEF Sent
  <1>4. UNCHANGED <<consumed, Jobs, Inboxes, Wires, InOutbox, Unsent>>
    BY <1>1, <1>2, <1>3 DEF Jobs, Inboxes, InInbox, Wires, InWire, InOutbox, Unsent,
       workers
  <1>5. /\ Sorted(outbox)'
        /\ \A c \in Consumer : Sorted(wire[c])' /\ Sorted(inbox[c])'
    BY <1>1 DEF WayInOrder, Sorted, RepoOf, workers
  <1> QED
    BY <1>1, <1>4, <1>5, WayShrinks

(* A new commit of the network is left for every row. *)
LEMMA RelayKeepsRows ==
    ASSUME IndInv, AllRead, WayInOrder, RowsOnTrack, Relay
    PROVE  AllRead' /\ WayInOrder' /\ RowsOnTrack'
  <1> USE DEF IndInv
  <1> DEFINE n == Len(log) + 1
  <1>1. PICK d \in Commit : Emit(d) /\ UNCHANGED <<others, accidents>>
    BY DEF Relay
  <1>2. UNCHANGED <<pos, origin, task, stage, outbox, wire, inbox, job, consumed,
                    posts, at, failed>>
    BY <1>1 DEF Emit, stream, scheduler, ghosts, others, tables, workers, procVars
  <1>3. InFlight' = InFlight
    BY <1>1, EmitInFlight DEF TypeOK
  <1>4. /\ log' \in Seq(Commit) /\ Len(log') = n /\ n \in Nat
        /\ \A s \in 1..Len(log) : log'[s] = log[s]
    BY <1>1, EmitAppends DEF TypeOK
  <1>5. UNCHANGED <<Jobs, Inboxes, Wires, InOutbox, Unsent, Coming>>
    <2>1. UNCHANGED <<Jobs, Inboxes, Wires, InOutbox, Unsent>>
      BY <1>2, <1>3 DEF Jobs, Inboxes, InInbox, Wires, InWire, InOutbox, Unsent, Sent
    <2> QED
      BY <2>1 DEF Coming
  <1>6. /\ pos \in Nat /\ pos <= Len(log) /\ Len(log) \in Nat
        /\ consumed \cup Coming \subseteq 1..Len(log)
    BY ComingRead
  <1>7. AllRead'
    BY <1>2, <1>5 DEF AllRead
  <1>8. \A s \in 1..Len(log) : RepoOf(s)' = RepoOf(s)
    BY <1>4 DEF RepoOf
  <1>9. WayInOrder'
    <2>1. /\ Jobs \subseteq 1..Len(log) /\ Inboxes \cup Wires \subseteq 1..Len(log)
          /\ InOutbox \subseteq 1..Len(log) /\ Unsent \subseteq 1..Len(log)
      BY <1>6 DEF Coming
    <2>2. Ahead(consumed, Coming)'
      <3>1. \A x \in consumed : \A y \in Coming : RepoOf(x)' = RepoOf(y)' => x < y
        BY <1>6, <1>8 DEF WayInOrder, Ahead
      <3> QED
        BY <1>2, <1>5, <3>1 DEF Ahead
    <2>3. Ahead(Jobs, Inboxes \cup Wires \cup InOutbox \cup Unsent)'
      <3>1. \A x \in Jobs : \A y \in Inboxes \cup Wires \cup InOutbox \cup Unsent :
                RepoOf(x)' = RepoOf(y)' => x < y
        BY <1>8, <2>1 DEF WayInOrder, Ahead
      <3>2. /\ Jobs' = Jobs
            /\ (Inboxes \cup Wires \cup InOutbox \cup Unsent)' =
                   Inboxes \cup Wires \cup InOutbox \cup Unsent
        BY <1>5
      <3> QED
        BY <3>1, <3>2 DEF Ahead
    <2>4. Ahead(Inboxes, Wires \cup InOutbox \cup Unsent)'
      <3>1. \A x \in Inboxes : \A y \in Wires \cup InOutbox \cup Unsent :
                RepoOf(x)' = RepoOf(y)' => x < y
        BY <1>8, <2>1 DEF WayInOrder, Ahead
      <3>2. (Wires \cup InOutbox \cup Unsent)' = Wires \cup InOutbox \cup Unsent
        BY <1>5
      <3> QED
        BY <1>5, <3>1, <3>2 DEF Ahead
    <2>5. Ahead(Wires, InOutbox \cup Unsent)' /\ Ahead(InOutbox, Unsent)'
      BY <1>5, <1>8, <2>1 DEF WayInOrder, Ahead
    <2>6. Sorted(outbox)'
      <3>1. \A i \in 1..Len(outbox) : outbox[i] \in 1..Len(log)
        BY <2>1 DEF InOutbox
      <3> QED
        BY <1>2, <1>8, <3>1 DEF WayInOrder, Sorted
    <2>7. \A c \in Consumer : Sorted(wire[c])' /\ Sorted(inbox[c])'
      <3>1. \A c \in Consumer : \A i \in 1..Len(inbox[c]) : inbox[c][i] \in 1..Len(log)
        BY <2>1 DEF Inboxes, InInbox
      <3>2. \A c \in Consumer : \A i \in 1..Len(wire[c]) : wire[c][i] \in 1..Len(log)
        BY <2>1 DEF Wires, InWire
      <3>3. \A c \in Consumer : Sorted(inbox[c])'
        BY <1>2, <1>8, <3>1 DEF WayInOrder, Sorted
      <3>4. \A c \in Consumer : Sorted(wire[c])'
        BY <1>2, <1>8, <3>2 DEF WayInOrder, Sorted
      <3> QED
        BY <3>3, <3>4
    <2> QED
      BY <2>2, <2>3, <2>4, <2>5, <2>6, <2>7 DEF WayInOrder
  <1>10. GivenUp' = GivenUp
    BY <1>2, <1>4, <1>5, <1>6 DEF GivenUp
  <1>11. RowsOnTrack'
    <2> SUFFICES ASSUME NEW uri \in Uri
                 PROVE  OnTrack(posts[uri], log', uri, origin,
                                Left', GivenUp' \cup failed)
      BY <1>2 DEF RowsOnTrack
    <2>1. OnTrack(posts[uri], log, uri, origin, Left, GivenUp \cup failed)
      BY DEF RowsOnTrack
    <2>2. log \in Seq(Commit)
      BY DEF TypeOK, FirehoseTypeOK
    <2>3. ASSUME NEW p \in Effective(log, uri, origin) \cap Left PROVE p \in Left'
      <3>1. p \in PlacesOf(log, uri) /\ p[1] \in 1..Len(log)
        BY EffectivePlace DEF Effective, TypeOK
      <3>2. /\ p \in PlacesOf(log', uri)
            /\ OpAt(log', p) = OpAt(log, p) /\ SelectingAt(log', p) = SelectingAt(log, p)
        <4>1. /\ PlacesOf(log, uri) \subseteq PlacesOf(log', uri)
              /\ \A q \in PlacesOf(log', uri) \ PlacesOf(log, uri) :
                     q[1] = Len(log) + 1
              /\ \A q \in PlacesOf(log, uri) :
                     /\ OpAt(log', q) = OpAt(log, q)
                     /\ SelectingAt(log', q) = SelectingAt(log, q)
                     /\ q \in Effective(log', uri, origin)
                            <=> q \in Effective(log, uri, origin)
          BY <1>4, <2>2, GrownPlaces
        <4> QED
          BY <3>1, <4>1
      <3>3. \A c \in Consumer : Passed(at[c], log', p) <=> Passed(at[c], log, p)
        BY <3>2 DEF Passed
      <3>4. p \in Places(log')
        BY <3>2 DEF PlacesOf
      <3> QED
        BY <1>2, <1>5, <3>3, <3>4 DEF Left
    <2>4. ASSUME NEW p \in Effective(log', uri, origin), p[1] = n
          PROVE  p \in Left' \/ p[1] \in GivenUp' \cup failed
      <3>1. p \in Places(log')
        BY DEF Effective, PlacesOf
      <3> QED
        BY <1>2, <1>6, <2>4, <3>1 DEF Left
    <2>5. GivenUp \cup failed \subseteq GivenUp' \cup failed
      BY <1>10
    <2> QED
      BY <1>4, <2>1, <2>2, <2>3, <2>4, <2>5, GrownOnTrack
  <1> QED
    BY <1>7, <1>9, <1>11

(* The first connection finds nothing done and nothing to do. *)
LEMMA FirstConnection ==
    ASSUME IndInv, Untouched, Subscribe, ~reconnected',
           origin = Never => \A uri \in Uri : posts[uri] = NoRow
    PROVE  AllRead' /\ WayInOrder' /\ RowsOnTrack'
  <1> USE DEF IndInv
  <1>1. origin = Never /\ ~Connected
    BY DEF Subscribe, Connect, Connected
  <1>2. cursor = NoCursor /\ outbox = <<>> /\ Delivered = {}
    BY <1>1 DEF Untouched
  <1>3. /\ pos' = Len(log) /\ origin' = Len(log) /\ Len(log) \in Nat
        /\ UNCHANGED <<log, held, waiting, task, stage, outbox, wire, inbox, job, consumed,
                       posts, at, failed>>
    BY <1>1, <1>2 DEF Subscribe, Connect, NoCursor, others, tables, workers, scheduler,
       procVars, TypeOK, FirehoseTypeOK
  <1>4. consumed' = {} /\ Coming' = {}
    <2>1. InFlight' = {}
      BY <1>1, <1>3, NothingInFlight, InFlightUnchanged
    <2>2. Unsent' = {} /\ InOutbox' = {}
      BY <1>2, <1>3, <2>1 DEF Unsent, InOutbox
    <2>3. consumed = {} /\ Jobs = {} /\ Inboxes = {} /\ Wires = {}
      <3>1. \A c \in Consumer : InWire(c) = {} /\ InInbox(c) = {} /\ job[c] = Nothing
        BY <1>2, DeliveredIn DEF Hands
      <3>2. consumed = {}
        BY <1>2 DEF Delivered, TypeOK
      <3> QED
        BY <3>1, <3>2 DEF Jobs, Inboxes, Wires
    <2>4. UNCHANGED <<Jobs, Inboxes, Wires>>
      BY <1>3 DEF Jobs, Inboxes, InInbox, Wires, InWire
    <2> QED
      BY <1>3, <2>2, <2>3, <2>4 DEF Coming
  <1>5. AllRead'
    BY <1>3, <1>4 DEF AllRead
  <1>6. WayInOrder'
    <2>1. /\ Jobs' = {} /\ Inboxes' = {} /\ Wires' = {}
          /\ InOutbox' = {} /\ Unsent' = {}
      BY <1>4 DEF Coming
    <2>2. Sorted(outbox)'
      BY <1>2, <1>3 DEF Sorted
    <2>3. \A c \in Consumer : Sorted(wire[c])' /\ Sorted(inbox[c])'
      <3>1. \A c \in Consumer :
                /\ \A i \in 1..Len(inbox'[c]) : inbox'[c][i] \in Inboxes'
                /\ \A i \in 1..Len(wire'[c]) : wire'[c][i] \in Wires'
        BY DEF Inboxes, InInbox, Wires, InWire
      <3> QED
        BY <2>1, <3>1 DEF Sorted
    <2> QED
      BY <1>4, <2>1, <2>2, <2>3 DEF WayInOrder, Ahead
  <1>7. RowsOnTrack'
    <2> SUFFICES ASSUME NEW uri \in Uri
                 PROVE  OnTrack(posts[uri], log, uri, Len(log), Left', GivenUp' \cup failed)
      BY <1>3 DEF RowsOnTrack
    <2>1. Effective(log, uri, Len(log)) = {}
      <3>1. \A p \in PlacesOf(log, uri) : p[1] \in 1..Len(log)
        BY PlacesOfPost DEF TypeOK, FirehoseTypeOK
      <3> QED
        BY <1>3, <3>1 DEF Effective
    <2>2. Kept(log, uri, Len(log)) = {}
      BY <2>1 DEF Kept
    <2> QED
      BY <1>1, <2>2 DEF OnTrack
  <1> QED
    BY <1>5, <1>6, <1>7

(* A step of ProcessEvent: the callback's commit is next for its repo. *)
LEMMA CallbackKeepsRows ==
    ASSUME IndInv, AllRead, WayInOrder, RowsOnTrack,
           NEW c \in Consumer, Consumer = {c},
           NEW ok \in BOOLEAN, ProcessEvent(c, ok)
    PROVE  AllRead' /\ WayInOrder' /\ RowsOnTrack'
  <1> USE DEF IndInv
  <1> DEFINE s == job[c]
  <1>1. /\ s # Nothing /\ ProcessStep(c, s, log[s], ok)
        /\ UNCHANGED <<log, pos, origin, held, waiting, task, stage, outbox, wire, inbox,
                       job, consumed>>
    BY DEF ProcessEvent, publisher, fhVars, stream, scheduler, ghosts, workers
  <1>2. /\ pos \in Nat /\ Coming \subseteq 1..pos /\ consumed \subseteq 1..pos
        /\ s \in Coming /\ s \in 1..Len(log) /\ s <= pos /\ s > origin
    <2>1. /\ pos \in Nat /\ Coming \subseteq 1..pos /\ consumed \subseteq 1..pos
          /\ s \in Coming /\ pos <= Len(log) /\ Len(log) \in Nat /\ origin < s
      BY <1>1, ComingRead
    <2> HIDE DEF s
    <2>2. s \in 1..pos
      BY <2>1
    <2>3. s \in 1..Len(log) /\ s <= pos /\ s > origin
      BY <2>1, <2>2, ComingRead
    <2> QED
      BY <2>1, <2>3
  <1>3. UNCHANGED <<Jobs, Inboxes, Wires, InOutbox, Unsent, Coming>>
    <2>1. InFlight' = InFlight
      BY <1>1, InFlightUnchanged
    <2>2. UNCHANGED <<Jobs, Inboxes, Wires, InOutbox, Unsent>>
      BY <1>1, <2>1 DEF Jobs, Inboxes, InInbox, Wires, InWire, InOutbox, Unsent, Sent
    <2> QED
      BY <2>2 DEF Coming
  <1>4. GivenUp' = GivenUp
    BY <1>1, <1>3 DEF GivenUp
  <1>5. AllRead'
    BY <1>1, <1>3 DEF AllRead
  <1>6. WayInOrder'
    BY <1>1, <1>3 DEF WayInOrder, Ahead, Sorted, RepoOf
  <1>7. failed \subseteq failed'
    BY <1>1 DEF ProcessStep, SkipOp, HandleDelete, HandleCreate
  <1>8. Left \subseteq Places(log) /\ \A p \in Left : p[1] # s => p \in Left'
    BY <1>1, <1>3 DEF Left
  <1>9. ASSUME NEW p \in Places(log), p[1] = s
        PROVE  /\ p \in Left <=> ~Passed(at[c], log, p)
               /\ p \in Left' <=> ~Passed(at'[c], log, p)
    <2>1. ~(p[1] > pos) /\ p[1] \in Coming
      BY <1>2, <1>9
    <2> QED
      BY <1>1, <1>3, <1>9, <2>1 DEF Left
  <1>10. RowsOnTrack'
    <2> SUFFICES ASSUME NEW uri \in Uri
                 PROVE  OnTrack(posts'[uri], log, uri, origin,
                                Left', GivenUp \cup failed')
      BY <1>1, <1>4 DEF RowsOnTrack
    <2>1. OnTrack(posts[uri], log, uri, origin, Left, GivenUp \cup failed)
      BY DEF RowsOnTrack
    <2>2. \A p \in Effective(log, uri, origin) : p \in Left \/ p[1] = s =>
              Followed(log, uri, origin, p, Left, GivenUp \cup failed)
      <3>1. GivenUp \subseteq GivenUp \cup failed
        OBVIOUS
      <3> QED
        BY <3>1, PlacesFollow
    <2>3. ASSUME log[s].repo = uri[1], NEW p \in Effective(log, uri, origin),
                 p[1] < s, p \in Left
          PROVE  FALSE
      <3>1. p[1] \in 1..Len(log) /\ RepoOf(p[1]) = RepoOf(s)
        BY <2>3, EffectivePlace DEF RepoOf, TypeOK
      <3>2. p[1] \in Coming
        BY <1>2, <2>3, <3>1 DEF Left
      <3>3. s <= p[1]
        BY <1>1, <3>1, <3>2, ComingInOrder
      <3> QED
        BY <1>2, <2>3, <3>1, <3>3
    <2>4. log[s].repo = uri[1] => \A p \in Effective(log, uri, origin) :
              p[1] < s => p \notin Left \/ p[1] \in GivenUp \cup failed
      BY <2>3
    <2>5. log \in Seq(Commit) /\ ProcessorTypeOK(Consumer)
      BY DEF TypeOK, FirehoseTypeOK
    <2>6. Passes(at[c], at'[c], log, s, Left, Left')
      BY <1>8, <1>9 DEF Passes
    <2>7. InTurn(log, s, uri, origin, Left, GivenUp \cup failed)
      BY <2>2, <2>4 DEF InTurn
    <2>8. /\ GivenUp \cup failed \subseteq GivenUp \cup failed'
          /\ failed' \subseteq GivenUp \cup failed'
      BY <1>7
    <2>9. /\ ProcessStep(c, s, log[s], ok)
          /\ s \in 1..Len(log) /\ s > origin
      BY <1>1, <1>2
    <2> HIDE DEF s, IndInv
    <2> QED
      BY <2>1, <2>5, <2>6, <2>7, <2>8, <2>9, ProcessOnTrack
  <1> QED
    BY <1>5, <1>6, <1>10

(* A callback starts at the beginning, and before it no row is made. *)
LEMMA AtStart ==
    ASSUME IndInv, Untouched, [Next]_vars,
           \A c \in Consumer : job[c] = Nothing => at[c] = Start,
           origin = Never => \A uri \in Uri : posts[uri] = NoRow
    PROVE  /\ \A c \in Consumer : job'[c] = Nothing => at'[c] = Start
           /\ origin' = Never => \A uri \in Uri : posts'[uri] = NoRow
  <1> USE DEF IndInv
  <1>1. CASE \E c \in Consumer, ok \in BOOLEAN : ProcessEvent(c, ok)
    <2>1. PICK c \in Consumer, ok \in BOOLEAN : ProcessEvent(c, ok)
      BY <1>1
    <2>2. job[c] # Nothing /\ UNCHANGED <<job, origin>>
      BY <2>1 DEF ProcessEvent, publisher, fhVars, ghosts, workers
    <2>3. \A x \in Consumer : x # c => at'[x] = at[x]
      BY <2>1 DEF ProcessEvent, ProcessStep, SkipOp, HandleDelete, HandleCreate,
         NextPipeline, NextOp, TypeOK, ProcessorTypeOK
    <2>4. origin # Never
      BY <2>2, DeliveredIn DEF Untouched, Hands
    <2> QED
      BY <2>2, <2>3, <2>4
  <1>2. CASE ~ \E c \in Consumer, ok \in BOOLEAN : ProcessEvent(c, ok)
    <2>1. UNCHANGED posts
      BY <1>2 DEF Next, vars, publisher, tables, procVars, others, Relay, Subscribe,
         SubscribeFails, Reconnect, ReadCommit, Disconnect, Shutdown, PublisherCrash,
         LoseOutbox, StartCommit, HandleCommit, SkipTooBig, Publish, PublishFails,
         Flush, FlushFails, Confirm, Deliver, Detach, Attach, NobodyListens, WorkerStep,
         Join, Arrive, Take, Consume, StopWorker, ExitWorker
    <2>2. origin' = Never => origin = Never
      <3>1. Subscribe => origin' # Never \/ origin = Never
        BY DEF Subscribe, Connect
      <3>2. ~Subscribe => origin' = origin
        BY DEF Next, vars, publisher, fhVars, ghosts, Relay, SubscribeFails,
         Reconnect, ReadCommit, Disconnect, Shutdown, PublisherCrash, LoseOutbox, StartCommit,
         HandleCommit, SkipTooBig, Publish, PublishFails, Flush, FlushFails, Confirm,
         Return, Deliver, Detach, Attach, NobodyListens, WorkerStep, Join, Arrive, Take,
         ProcessEvent, Consume, StopWorker, ExitWorker, Emit, ConnectFails,
         BackoffOver, Read, Drop, Drained, Restart, Dispatch, Finish
      <3> QED
        BY <3>1, <3>2
    <2>3. \/ UNCHANGED <<job, at>>
          \/ \E c \in Consumer : Take(c) /\ UNCHANGED at
          \/ \E c \in Consumer : /\ job' = [job EXCEPT ![c] = Nothing]
                                 /\ at' = [at EXCEPT ![c] = Start]
      BY <1>2 DEF Next, vars, publisher, tables, procVars, others, workers, Relay,
         Subscribe, SubscribeFails, Reconnect, ReadCommit, Disconnect, Shutdown,
         PublisherCrash, LoseOutbox, StartCommit, HandleCommit, SkipTooBig, Publish, PublishFails,
         Flush, FlushFails, Confirm, Deliver, Detach, Attach, NobodyListens,
         WorkerStep, Join, Arrive, Take, Consume, StopWorker, ExitWorker
    <2>4. \A c \in Consumer : Take(c) => job'[c] # Nothing /\ \A x \in Consumer :
                                             x # c => job'[x] = job[x]
      <3> SUFFICES ASSUME NEW c \in Consumer, Take(c)
                   PROVE  job'[c] # Nothing /\ \A x \in Consumer :
                              x # c => job'[x] = job[x]
        OBVIOUS
      <3>1. inbox[c] # <<>> /\ inbox[c] \in Seq(1..Len(log))
        BY DEF Take, TypeOK
      <3>2. Head(inbox[c]) \in 1..Len(log)
        BY <3>1, HeadTailProperties
      <3> QED
        BY <3>2 DEF Take, TypeOK, Nothing
    <2> QED
      BY <2>1, <2>2, <2>3, <2>4 DEF TypeOK, ProcessorTypeOK
  <1> QED
    BY <1>1, <1>2

(* Every step keeps ConvergenceInv. *)
LEMMA NextConvergence ==
    IndInv /\ LossInv /\ ConvergenceInv /\ [Next]_vars => ConvergenceInv'
  <1> SUFFICES ASSUME IndInv, LossInv, ConvergenceInv, [Next]_vars, OneConnection'
               PROVE  (AllRead /\ WayInOrder /\ RowsOnTrack)'
    BY AtStart DEF ConvergenceInv, LossInv
  <1>1. OneConnection \/ Subscribe
    <2>1. reconnected' = reconnected \/ Subscribe
      BY DEF Next, vars, accidents, mishaps, Hit, Relay, SubscribeFails, Reconnect,
         ReadCommit, Disconnect, Shutdown, PublisherCrash, LoseOutbox, StartCommit,
         HandleCommit, SkipTooBig, Publish, PublishFails, Flush, FlushFails, Confirm,
         Deliver, Detach, Attach, NobodyListens, WorkerStep, Join, Arrive, Take,
         ProcessEvent, Consume, StopWorker, ExitWorker
    <2>2. Connected \/ Subscribe
      BY DEF OneConnection, Connected, Next, vars, publisher, fhVars, stream, Relay,
         SubscribeFails, Reconnect, ReadCommit, Disconnect, Shutdown, PublisherCrash,
         LoseOutbox, StartCommit, HandleCommit, SkipTooBig, Publish, PublishFails,
         Flush, FlushFails, Confirm, Return, Deliver, Detach, Attach, NobodyListens,
         WorkerStep, Join, Arrive, Take, ProcessEvent, Consume, StopWorker, ExitWorker, Emit,
         ConnectFails, BackoffOver, Read, Drop, Drained, Restart, Dispatch, Finish
    <2> QED
      BY <2>1, <2>2 DEF OneConnection
  <1>2. CASE Subscribe
    BY <1>2, FirstConnection DEF ConvergenceInv, LossInv, OneConnection
  <1>3. CASE ~Subscribe
    <2>1. AllRead /\ WayInOrder /\ RowsOnTrack
      BY <1>1, <1>3 DEF ConvergenceInv
    <2>2. PICK c \in Consumer : Consumer = {c}
      BY NatsAssumption, FS_Singleton DEF OneConnection
    <2>3. ~(SubscribeFails \/ Reconnect \/ Shutdown \/ PublisherCrash)
      BY DEF SubscribeFails, ConnectFails, Reconnect, BackoffOver, Shutdown, Drained,
         PublisherCrash, Restart, OneConnection, Connected
    <2>4. CASE Relay
      BY <2>1, <2>4, RelayKeepsRows
    <2>5. CASE \E ok \in BOOLEAN : ProcessEvent(c, ok)
      BY <2>1, <2>2, <2>5, CallbackKeepsRows
    <2>6. job[c] = Nothing => at[c] = Start
      BY DEF ConvergenceInv
    <2>7. ASSUME WayInOrder', Coming' \subseteq Coming,
                 UNCHANGED <<log, origin, pos, posts, failed>>,
                 \A s \in consumed' \ consumed :
                     s = job[c] /\ s \in Coming /\ Processed(c, log[s]),
                 \/ job'[c] = job[c] /\ at'[c] = at[c]
                 \/ job'[c] = Nothing \/ at'[c] = Start
          PROVE  (AllRead /\ WayInOrder /\ RowsOnTrack)'
      BY <2>1, <2>2, <2>7, CommitsMoved
    <2>8. ASSUME NEW w \in Worker, HandleCommit(w)
          PROVE  (AllRead /\ WayInOrder /\ RowsOnTrack)'
      <3>1. /\ WayInOrder' /\ Coming' \subseteq Coming
            /\ UNCHANGED <<log, origin, pos, procVars, workers>>
        BY <2>1, <2>8, HandlerMoves DEF LossInv
      <3> QED
        BY <2>7, <3>1 DEF procVars, workers
    <2>9. CASE Deliver(c) \/ NobodyListens
      <3>1. /\ WayInOrder' /\ Coming' \subseteq Coming
            /\ UNCHANGED <<log, origin, pos, procVars, inbox, job, consumed>>
        BY <2>1, <2>2, <2>9, BrokerMoves
      <3> QED
        BY <2>7, <3>1 DEF procVars
    <2>10. CASE \/ Join(c) \/ Arrive(c) \/ Take(c) \/ StopWorker(c) \/ ExitWorker(c)
                \/ Detach(c) \/ Attach(c) \/ \E ok \in BOOLEAN : Consume(c, ok)
      BY <2>1, <2>2, <2>6, <2>7, <2>10, WorkerMoves
    <2>11. CASE Disconnect \/ LoseOutbox \/ \E w \in Worker : StartCommit(w)
      <3>1. /\ WayInOrder' /\ Coming' \subseteq Coming
            /\ UNCHANGED <<log, origin, pos, procVars, workers>>
        BY <2>1, <2>11, StartMoves, LosingMoves DEF LossInv
      <3> QED
        BY <2>7, <3>1 DEF procVars, workers
    <2>12. CASE ReadCommit
      <3>1. /\ WayInOrder' /\ Coming' \subseteq Coming \cup {pos'}
            /\ pos' = pos + 1 /\ pos' \in Coming'
            /\ UNCHANGED <<log, origin, procVars, workers>>
        BY <2>1, <2>12, ReadMoves
      <3> QED
        BY <2>1, <2>2, <3>1, CommitsMoved DEF procVars, workers
    <2>13. CASE UNCHANGED vars
      <3>1. /\ UNCHANGED <<log, origin, pos, posts, failed, at, stage, task, outbox,
                           wire, inbox, job, consumed, held, waiting>>
        BY <2>13 DEF vars, publisher, fhVars, stream, scheduler, ghosts, tables,
           procVars, workers
      <3>2. InFlight' = InFlight
        BY <3>1, InFlightUnchanged
      <3>3. UNCHANGED <<Jobs, Inboxes, Wires, InOutbox, Unsent>>
        BY <3>1, <3>2 DEF Jobs, Inboxes, InInbox, Wires, InWire, InOutbox, Unsent, Sent
      <3>4. UNCHANGED Coming
        BY <3>3 DEF Coming
      <3>5. WayInOrder'
        BY <2>1, <3>1, <3>3, <3>4 DEF WayInOrder, Ahead, Sorted, RepoOf
      <3> QED
        BY <2>7, <3>1, <3>4, <3>5
    <2> QED
      BY <1>3, <2>2, <2>3, <2>4, <2>5, <2>8, <2>9, <2>10, <2>11, <2>12, <2>13
      DEF Next, WorkerStep
  <1> QED
    BY <1>2, <1>3

(* Before anything happened there are no rows. *)
LEMMA InitConvergence == Init => ConvergenceInv
  BY DEF Init, FirehoseInit, ProcessorInit, ConvergenceInv, OneConnection, Connected

(***************************************************************************)
(* With one worker, and until the publisher connects again, a repo of      *)
(* which nothing is on its way has the rows its log calls for, but for     *)
(* posts of missed or failed commits, whatever was lost of other repos.    *)
(***************************************************************************)
THEOREM ConvergedWithOneWorkerHolds == Spec => []ConvergedWithOneWorker
  <1>1. Spec => []ConvergenceInv
    BY InitConvergence, NextConvergence, SpecIndInv, SpecLossInv, PTL DEF Spec
  <1>2. IndInv /\ ConvergenceInv => ConvergedWithOneWorker
    <2> SUFFICES ASSUME IndInv, ConvergenceInv, OneConnection, session = "streaming",
                        pos = Len(log), NEW uri \in Uri,
                        \A s \in UnderWay \ {Nothing} : RepoOf(s) # uri[1]
                 PROVE  Spoilt(uri) \/ posts[uri] = Expected(log, uri, origin)
      BY DEF ConvergedWithOneWorker, OneConnection, Connected
    <2>1. AllRead /\ RowsOnTrack
      BY DEF ConvergenceInv
    <2>2. /\ pos \in Nat /\ Coming \subseteq 1..pos
      BY <2>1, ComingRead DEF IndInv
    <2>3. Coming \subseteq UnderWay \ {Nothing}
      BY <2>2 DEF Coming, Jobs, Inboxes, Wires, Unsent, UnderWay, Nothing
    <2>4. OnTrack(posts[uri], log, uri, origin, Left, GivenUp \cup failed)
      BY <2>1 DEF RowsOnTrack
    <2>5. ASSUME NEW p \in Effective(log, uri, origin) \cap Left PROVE FALSE
      <3>1. p[1] \in 1..Len(log) /\ RepoOf(p[1]) = uri[1]
        BY EffectivePlace DEF IndInv, TypeOK
      <3>2. p[1] \notin Coming /\ ~(p[1] > pos)
        BY <2>2, <2>3, <3>1
      <3> QED
        BY <3>2 DEF Left
    <2>6. log \in Seq(Commit)
      BY DEF IndInv, TypeOK, FirehoseTypeOK
    <2>7. \/ SpoiltBy(log, uri, origin, GivenUp \cup failed)
          \/ posts[uri] = Expected(log, uri, origin)
      BY <2>4, <2>5, <2>6, TrackEnds
    <2>8. ASSUME NEW s \in GivenUp, RepoOf(s) = uri[1] PROVE s \in Missed
      <3>1. Frontier = pos
        BY DEF Frontier, OneConnection
      <3>2. s \notin UnderWay
        BY <2>2, <2>8 DEF GivenUp, Nothing
      <3> QED
        BY <3>1, <3>2 DEF GivenUp, Missed
    <2>9. SpoiltBy(log, uri, origin, GivenUp \cup failed) => Spoilt(uri)
      <3> SUFFICES ASSUME NEW p \in PlacesOf(log, uri), p[1] \in GivenUp \cup failed,
                          \A d \in Deletions(log, uri, origin) :
                              Before(p, d) => d[1] \in GivenUp \cup failed
                   PROVE  SpoiltBy(log, uri, origin, Missed \cup failed)
        BY DEF SpoiltBy, Spoilt
      <3>1. \A q \in PlacesOf(log, uri) : RepoOf(q[1]) = uri[1]
        BY DEF PlacesOf, BuildURI, RepoOf
      <3>2. Deletions(log, uri, origin) \subseteq PlacesOf(log, uri)
        BY DEF Deletions, Effective
      <3> QED
        BY <2>8, <3>1, <3>2 DEF SpoiltBy
    <2> QED
      BY <2>7, <2>9
  <1> QED
    BY <1>1, <1>2, SpecIndInv, PTL
-----------------------------------------------------------------------------
(***************************************************************************)
(* Copies.  A commit's copies are counted by station: places in the        *)
(* publisher's buffer, on the way to the workers, in their buffers, and    *)
(* callbacks.                                                              *)
(***************************************************************************)
Spots(q, s) == {i \in DOMAIN q : q[i] = s}

Busy(j, s) == {c \in Consumer : j[c] = s}

One(b) == IF b THEN 1 ELSE 0

(* What one worker has, and no other, becomes this: a buffer, a callback. *)
Refilled(box, limit, new, c, q) ==
    /\ box \in [Consumer -> Seq(Nat)] /\ c \in Consumer /\ q \in Seq(Nat)
    /\ limit \in Nat /\ Len(box[c]) <= limit /\ Len(q) <= limit
    /\ new = [box EXCEPT ![c] = q]

Reassigned(j, new, c, t) ==
    j \in [Consumer -> Nat] /\ c \in Consumer /\ new = [j EXCEPT ![c] = t]

(* Finitely many places of a sequence hold s. *)
LEMMA SpotsFinite ==
    ASSUME NEW S, NEW q \in Seq(S), NEW s
    PROVE  IsFiniteSet(Spots(q, s)) /\ Cardinality(Spots(q, s)) \in Nat
  <1>1. Len(q) \in Nat /\ DOMAIN q = 1..Len(q)
    OBVIOUS
  <1>2. IsFiniteSet(1..Len(q))
    BY <1>1, FS_Interval
  <1>3. Spots(q, s) \in SUBSET (1..Len(q))
    BY <1>1 DEF Spots
  <1> QED
    BY <1>2, <1>3, FS_Subset, FS_CardinalityType

(* What is appended has one place more. *)
LEMMA SpotsAppend ==
    ASSUME NEW S, NEW q \in Seq(S), NEW e \in S, NEW s
    PROVE  Cardinality(Spots(Append(q, e), s)) =
               Cardinality(Spots(q, s)) + One(e = s)
  <1> DEFINE p == Append(q, e)
             n == Len(q) + 1
  <1>1. /\ DOMAIN q = 1..Len(q) /\ DOMAIN p = 1..n /\ Len(q) \in Nat
        /\ p[n] = e /\ \A i \in 1..Len(q) : p[i] = q[i]
    BY AppendProperties, LenProperties
  <1>2. 1..n = 1..Len(q) \cup {n} /\ n \notin 1..Len(q)
    BY <1>1
  <1>3. CASE e = s
    <2>1. Spots(p, s) = Spots(q, s) \cup {n} /\ n \notin Spots(q, s)
      BY <1>1, <1>2, <1>3 DEF Spots
    <2>2. Cardinality(Spots(q, s) \cup {n}) = Cardinality(Spots(q, s)) + 1
      BY <2>1, SpotsFinite, FS_AddElement
    <2> QED
      BY <1>3, <2>1, <2>2 DEF One
  <1>4. CASE e # s
    <2>1. Spots(p, s) = Spots(q, s)
      BY <1>1, <1>2, <1>4 DEF Spots
    <2> QED
      BY <1>4, <2>1, SpotsFinite DEF One
  <1> QED
    BY <1>3, <1>4

(* What is taken off had one place more. *)
LEMMA SpotsTail ==
    ASSUME NEW S, NEW q \in Seq(S), q # <<>>, NEW s
    PROVE  Cardinality(Spots(q, s)) =
               Cardinality(Spots(Tail(q), s)) + One(Head(q) = s)
  <1> DEFINE n == Len(q) - 1
             Behind == {i \in 2..Len(q) : q[i] = s}
             shift == [i \in Spots(Tail(q), s) |-> i + 1]
  <1>1. /\ n \in Nat /\ Len(q) = n + 1 /\ Head(q) = q[1]
        /\ DOMAIN q = 1..n + 1 /\ DOMAIN Tail(q) = 1..n /\ Tail(q) \in Seq(S)
        /\ \A i \in 1..n : Tail(q)[i] = q[i + 1]
    BY HeadTailProperties, LenProperties, EmptySeq
  <1>2. shift \in Bijection(Spots(Tail(q), s), Behind)
    <2>1. shift \in [Spots(Tail(q), s) -> Behind]
      BY <1>1 DEF Spots
    <2>2. \A i, j \in Spots(Tail(q), s) : shift[i] = shift[j] => i = j
      BY <1>1 DEF Spots
    <2>3. ASSUME NEW k \in Behind
          PROVE  \E i \in Spots(Tail(q), s) : shift[i] = k
      <3>1. k - 1 \in Spots(Tail(q), s)
        BY <1>1 DEF Spots
      <3> QED
        BY <3>1
    <2> QED
      BY <2>1, <2>2, <2>3 DEF Bijection, Injection, Surjection, IsInjective
  <1>3. IsFiniteSet(Behind) /\ Cardinality(Behind) = Cardinality(Spots(Tail(q), s))
    <2>1. IsFiniteSet(Spots(Tail(q), s))
      BY <1>1, SpotsFinite
    <2>2. ExistsBijection(Spots(Tail(q), s), Behind)
      BY <1>2 DEF ExistsBijection
    <2> QED
      BY <2>1, <2>2, FS_Bijection
  <1>4. Cardinality(Spots(Tail(q), s)) \in Nat
    BY <1>1, SpotsFinite
  <1>5. CASE Head(q) = s
    <2>1. Spots(q, s) = Behind \cup {1} /\ 1 \notin Behind
      BY <1>1, <1>5 DEF Spots
    <2>2. Cardinality(Behind \cup {1}) = Cardinality(Behind) + 1
      BY <1>3, <2>1, FS_AddElement
    <2> QED
      BY <1>3, <1>5, <2>1, <2>2 DEF One
  <1>6. CASE Head(q) # s
    <2>1. Spots(q, s) = Behind
      BY <1>1, <1>6 DEF Spots
    <2> QED
      BY <1>3, <1>4, <1>6, <2>1 DEF One
  <1> QED
    BY <1>5, <1>6

(* No place of an empty sequence holds anything. *)
LEMMA NoSpots == \A s : Cardinality(Spots(<<>>, s)) = 0
  <1>1. \A s : Spots(<<>>, s) = {}
    BY DEF Spots
  <1> QED
    BY <1>1, FS_EmptySet

(* Finitely many messages are on the way to workers, or in their buffers. *)
LEMMA HeldFinite ==
    ASSUME NEW box, NEW limit \in Nat, NEW s
    PROVE  IsFiniteSet(Held(box, limit, s)) /\ Cardinality(Held(box, limit, s)) \in Nat
  <1>1. IsFiniteSet(1..limit)
    BY FS_Interval
  <1>2. IsFiniteSet(Consumer \X (1..limit))
    BY <1>1, FS_Product, NatsAssumption
  <1> QED
    BY <1>2, FS_Subset, FS_CardinalityType DEF Held

(* One worker's buffer and those of the others. *)
LEMMA BoxesApart ==
    ASSUME NEW S, NEW box \in [Consumer -> Seq(S)], NEW c \in Consumer,
           NEW limit \in Nat, Len(box[c]) <= limit, NEW s
    PROVE  LET Rest == {x \in Held(box, limit, s) : x[1] # c}
           IN  /\ IsFiniteSet(Rest) /\ Cardinality(Rest) \in Nat
               /\ Cardinality(Held(box, limit, s)) =
                      Cardinality(Rest) + Cardinality(Spots(box[c], s))
  <1> DEFINE Rest == {x \in Held(box, limit, s) : x[1] # c}
             Mine == {c} \X Spots(box[c], s)
  <1>1. /\ box[c] \in Seq(S) /\ Len(box[c]) \in Nat
        /\ DOMAIN box[c] = 1..Len(box[c])
    OBVIOUS
  <1>2. IsFiniteSet(Held(box, limit, s))
    BY HeldFinite
  <1>3. IsFiniteSet(Rest) /\ Cardinality(Rest) \in Nat
    BY <1>2, FS_Subset, FS_CardinalityType
  <1>4. IsFiniteSet(Mine) /\ Cardinality(Mine) = Cardinality(Spots(box[c], s))
    <2>1. IsFiniteSet({c}) /\ Cardinality({c}) = 1
      BY FS_Singleton
    <2>2. /\ IsFiniteSet(Spots(box[c], s))
          /\ Cardinality(Spots(box[c], s)) \in Nat
      BY <1>1, SpotsFinite
    <2>3. /\ IsFiniteSet(Mine)
          /\ Cardinality(Mine) = 1 * Cardinality(Spots(box[c], s))
      BY <2>1, <2>2, FS_Product
    <2> QED
      BY <2>2, <2>3
  <1>5. Held(box, limit, s) = Rest \cup Mine /\ Rest \cap Mine = {}
    <2>1. \A i : i \in Spots(box[c], s) <=> <<c, i>> \in Held(box, limit, s)
      BY <1>1 DEF Held, Spots
    <2>2. \A x \in Held(box, limit, s) : x = <<x[1], x[2]>>
      BY DEF Held
    <2>3. \A x : x \in Mine <=> x \in Held(box, limit, s) /\ x[1] = c
      BY <2>1, <2>2
    <2>4. \A x : x \in Rest <=> x \in Held(box, limit, s) /\ x[1] # c
      OBVIOUS
    <2> HIDE DEF Rest, Mine
    <2>5. \A x : x \in Held(box, limit, s) <=> x \in Rest \cup Mine
      BY <2>3, <2>4
    <2>6. \A x : x \notin Rest \/ x \notin Mine
      BY <2>3, <2>4
    <2> QED
      BY <2>5, <2>6
  <1>6. Cardinality(Rest \cup Mine) = Cardinality(Rest) + Cardinality(Mine) - 0
    <2> HIDE DEF Rest, Mine
    <2>1. Cardinality(Rest \cup Mine) =
              Cardinality(Rest) + Cardinality(Mine) - Cardinality(Rest \cap Mine)
      BY <1>3, <1>4, FS_Union
    <2>2. Cardinality(Rest \cap Mine) = 0
      BY <1>5, FS_EmptySet
    <2> QED
      BY <2>1, <2>2
  <1>7. Cardinality(Spots(box[c], s)) \in Nat
    BY <1>1, SpotsFinite
  <1>8. Cardinality(Held(box, limit, s)) =
            Cardinality(Rest) + Cardinality(Spots(box[c], s))
    <2> HIDE DEF Rest, Mine
    <2> QED
      BY <1>3, <1>4, <1>5, <1>6, <1>7
  <1> QED
    BY <1>3, <1>8

(* What a worker's buffer gains or loses, the buffers do. *)
LEMMA BoxChanged ==
    ASSUME NEW box, NEW limit, NEW new, NEW c, NEW q,
           Refilled(box, limit, new, c, q), NEW s
    PROVE  Cardinality(Held(new, limit, s)) + Cardinality(Spots(box[c], s)) =
           Cardinality(Held(box, limit, s)) + Cardinality(Spots(q, s))
  <1> DEFINE Old == {x \in Held(box, limit, s) : x[1] # c}
             New == {x \in Held(new, limit, s) : x[1] # c}
  <1>1. /\ new \in [Consumer -> Seq(Nat)] /\ new[c] = q /\ c \in Consumer
        /\ box \in [Consumer -> Seq(Nat)] /\ q \in Seq(Nat)
        /\ limit \in Nat /\ Len(box[c]) <= limit /\ Len(q) <= limit
        /\ \A d \in Consumer : d # c => new[d] = box[d]
    BY DEF Refilled
  <1>2. Old = New
    BY <1>1 DEF Held
  <1>3. /\ Cardinality(Old) \in Nat
        /\ Cardinality(Held(box, limit, s)) =
               Cardinality(Old) + Cardinality(Spots(box[c], s))
    BY <1>1, BoxesApart
  <1>4. Cardinality(Held(new, limit, s)) = Cardinality(New) + Cardinality(Spots(new[c], s))
    BY <1>1, BoxesApart
  <1>5. Cardinality(Spots(box[c], s)) \in Nat /\ Cardinality(Spots(q, s)) \in Nat
    BY <1>1, SpotsFinite
  <1> HIDE DEF Old, New
  <1> QED
    BY <1>1, <1>2, <1>3, <1>4, <1>5

(* So: a buffer that gets a message has one more, if the message is s. *)
LEMMA BoxAppended ==
    ASSUME NEW box, NEW limit, NEW new, NEW c, NEW e \in Nat, NEW s,
           Refilled(box, limit, new, c, Append(box[c], e))
    PROVE  Cardinality(Held(new, limit, s)) =
               Cardinality(Held(box, limit, s)) + One(e = s)
  <1>1. box[c] \in Seq(Nat) /\ limit \in Nat
    BY DEF Refilled
  <1>2. Cardinality(Held(new, limit, s)) + Cardinality(Spots(box[c], s)) =
        Cardinality(Held(box, limit, s)) + Cardinality(Spots(Append(box[c], e), s))
    BY BoxChanged
  <1>3. Cardinality(Spots(Append(box[c], e), s)) =
            Cardinality(Spots(box[c], s)) + One(e = s)
    BY <1>1, SpotsAppend
  <1>4. Cardinality(Held(new, limit, s)) \in Nat /\ Cardinality(Held(box, limit, s)) \in Nat
    BY <1>1, HeldFinite
  <1>5. Cardinality(Spots(box[c], s)) \in Nat /\ One(e = s) \in Nat
    BY <1>1, SpotsFinite DEF One
  <1> QED
    BY <1>2, <1>3, <1>4, <1>5

(* One that gives its oldest had one more of that. *)
Shifted(box, limit, new, c) ==
    box[c] # <<>> /\ Refilled(box, limit, new, c, Tail(box[c]))

LEMMA BoxTaken ==
    ASSUME NEW box, NEW limit, NEW new, NEW c, NEW s, Shifted(box, limit, new, c)
    PROVE  Cardinality(Held(box, limit, s)) =
               Cardinality(Held(new, limit, s)) + One(Head(box[c]) = s)
  <1>1. /\ box[c] \in Seq(Nat) /\ Tail(box[c]) \in Seq(Nat) /\ limit \in Nat
        /\ box[c] # <<>>
    BY DEF Shifted, Refilled
  <1>2. Cardinality(Held(new, limit, s)) + Cardinality(Spots(box[c], s)) =
        Cardinality(Held(box, limit, s)) + Cardinality(Spots(Tail(box[c]), s))
    BY BoxChanged DEF Shifted
  <1>3. Cardinality(Spots(box[c], s)) =
            Cardinality(Spots(Tail(box[c]), s)) + One(Head(box[c]) = s)
    BY <1>1, SpotsTail
  <1>4. Cardinality(Held(new, limit, s)) \in Nat /\ Cardinality(Held(box, limit, s)) \in Nat
    BY <1>1, HeldFinite
  <1>5. Cardinality(Spots(Tail(box[c]), s)) \in Nat /\ One(Head(box[c]) = s) \in Nat
    BY <1>1, SpotsFinite DEF One
  <1> QED
    BY <1>2, <1>3, <1>4, <1>5

(* And one that is emptied has less. *)
LEMMA BoxEmptied ==
    ASSUME NEW box, NEW limit, NEW new, NEW c, NEW s,
           Refilled(box, limit, new, c, <<>>)
    PROVE  Cardinality(Held(new, limit, s)) <= Cardinality(Held(box, limit, s))
  <1>1. box[c] \in Seq(Nat) /\ limit \in Nat
    BY DEF Refilled
  <1>2. Cardinality(Held(new, limit, s)) + Cardinality(Spots(box[c], s)) =
        Cardinality(Held(box, limit, s)) + Cardinality(Spots(<<>>, s))
    BY BoxChanged
  <1>3. Cardinality(Spots(<<>>, s)) = 0
    BY NoSpots
  <1>4. Cardinality(Held(new, limit, s)) \in Nat /\ Cardinality(Held(box, limit, s)) \in Nat
    BY <1>1, HeldFinite
  <1>5. Cardinality(Spots(box[c], s)) \in Nat
    BY <1>1, SpotsFinite
  <1> QED
    BY <1>2, <1>3, <1>4, <1>5

(* Finitely many callbacks have a commit. *)
LEMMA BusyFinite ==
    ASSUME NEW j, NEW s
    PROVE  IsFiniteSet(Busy(j, s)) /\ Cardinality(Busy(j, s)) \in Nat
  BY FS_Subset, FS_CardinalityType, NatsAssumption DEF Busy

(* And callbacks: one more of what it takes, one less of what it had. *)
LEMMA BusyChanged ==
    ASSUME NEW j, NEW new, NEW c, NEW t, Reassigned(j, new, c, t), NEW s
    PROVE  Cardinality(Busy(new, s)) + One(j[c] = s) =
               Cardinality(Busy(j, s)) + One(t = s)
  <1> DEFINE Rest == {d \in Consumer \ {c} : j[d] = s}
  <1>1. /\ new[c] = t /\ c \in Consumer
        /\ \A d \in Consumer : d # c => new[d] = j[d]
    BY DEF Reassigned
  <1>2. IsFiniteSet(Rest) /\ Cardinality(Rest) \in Nat
    BY FS_Subset, FS_CardinalityType, NatsAssumption
  <1>3. Cardinality(Busy(j, s)) \in Nat
    BY BusyFinite
  <1>4. Cardinality(Rest \cup {c}) = Cardinality(Rest) + 1
    BY <1>2, FS_AddElement
  <1>5. Cardinality(Busy(j, s)) = Cardinality(Rest) + One(j[c] = s)
    <2>1. Busy(j, s) = IF j[c] = s THEN Rest \cup {c} ELSE Rest
      BY <1>1 DEF Busy
    <2> QED
      BY <1>2, <1>4, <2>1 DEF One
  <1>6. Cardinality(Busy(new, s)) = Cardinality(Rest) + One(t = s)
    <2>1. Busy(new, s) = IF t = s THEN Rest \cup {c} ELSE Rest
      BY <1>1 DEF Busy
    <2> QED
      BY <1>2, <1>4, <2>1 DEF One
  <1> HIDE DEF Rest
  <1>7. One(j[c] = s) \in Nat /\ One(t = s) \in Nat
    BY DEF One
  <1> QED
    BY <1>2, <1>5, <1>6, <1>7

-----------------------------------------------------------------------------
(* How the stations pass copies on. *)

(* What the bounds of the model and of the clients' buffers leave room for. *)
Bounded ==
    /\ Len(log) <= MaxLog
    /\ \A c \in Consumer : Len(wire[c]) <= WireLimit /\ Len(inbox[c]) <= InboxLimit

Total(q, way, box, j, s) ==
    Cardinality(Spots(q, s)) + Cardinality(Held(way, WireLimit, s))
        + Cardinality(Held(box, InboxLimit, s)) + Cardinality(Busy(j, s))

(* Copies are counted by station. *)
LEMMA CopiesByStation ==
    /\ \A s : Copies(s) = Total(outbox, wire, inbox, job, s)
    /\ \A s : Copies(s)' = Total(outbox', wire', inbox', job', s)
  BY DEF Copies, Total, Spots, Busy

(* There are finitely many at each. *)
LEMMA TotalFinite ==
    ASSUME NEW S, NEW q \in Seq(S), NEW way, NEW box, NEW j, NEW s
    PROVE  /\ Cardinality(Spots(q, s)) \in Nat
           /\ Cardinality(Held(way, WireLimit, s)) \in Nat
           /\ Cardinality(Held(box, InboxLimit, s)) \in Nat
           /\ Cardinality(Busy(j, s)) \in Nat
           /\ Total(q, way, box, j, s) \in Nat
  <1>1. Cardinality(Spots(q, s)) \in Nat
    BY SpotsFinite
  <1>2. /\ Cardinality(Held(way, WireLimit, s)) \in Nat
        /\ Cardinality(Held(box, InboxLimit, s)) \in Nat
    BY HeldFinite, NatsAssumption
  <1>3. Cardinality(Busy(j, s)) \in Nat
    BY BusyFinite
  <1> QED
    BY <1>1, <1>2, <1>3 DEF Total

(* Before a step and after it. *)
LEMMA StationTypes ==
    ASSUME IndInv, [Next]_vars, NEW s
    PROVE  /\ Cardinality(Spots(outbox, s)) \in Nat
           /\ Cardinality(Spots(outbox', s)) \in Nat
           /\ Cardinality(Held(wire, WireLimit, s)) \in Nat
           /\ Cardinality(Held(wire', WireLimit, s)) \in Nat
           /\ Cardinality(Held(inbox, InboxLimit, s)) \in Nat
           /\ Cardinality(Held(inbox', InboxLimit, s)) \in Nat
           /\ Cardinality(Busy(job, s)) \in Nat
           /\ Cardinality(Busy(job', s)) \in Nat
           /\ Copies(s) \in Nat /\ Copies(s)' \in Nat
  <1>1. outbox \in Seq(1..Len(log)) /\ outbox' \in Seq(1..Len(log'))
    BY NextIndInv DEF IndInv, TypeOK
  <1> QED
    BY <1>1, TotalFinite, CopiesByStation

(* The bounds are kept. *)
LEMMA BoundedKept ==
    ASSUME TypeOK, Bounded, [Next]_vars
    PROVE  Bounded'
  <1>1. Len(log') <= MaxLog
    <2>1. CASE Relay
      BY <2>1, EmitAppends, FirehoseAssumption DEF Relay, Emit, TypeOK, FirehoseTypeOK
    <2> QED
      BY <2>1, LogKept DEF Bounded
  <1>2. \A c \in Consumer : Len(wire'[c]) <= WireLimit
    <2> SUFFICES ASSUME NEW c \in Consumer PROVE Len(wire'[c]) <= WireLimit
      OBVIOUS
    <2>1. \/ wire'[c] = wire[c] \/ wire'[c] = <<>>
          \/ wire[c] # <<>> /\ wire'[c] = Tail(wire[c])
          \/ /\ Len(wire[c]) < WireLimit /\ outbox # <<>>
             /\ wire'[c] = Append(wire[c], Head(outbox))
      BY DEF TypeOK, Next, vars, workers, others, Relay, Subscribe, SubscribeFails,
         Reconnect, ReadCommit, Disconnect, Shutdown, PublisherCrash, LoseOutbox,
         StartCommit, HandleCommit, SkipTooBig, Publish, PublishFails, Flush,
         FlushFails, Confirm, Deliver, Detach, Attach, NobodyListens, WorkerStep,
         Join, Arrive, Take, ProcessEvent, Consume, StopWorker, ExitWorker
    <2>2. /\ wire[c] \in Seq(1..Len(log)) /\ WireLimit \in Nat
          /\ outbox # <<>> => Head(outbox) \in 1..Len(log)
      BY NatsAssumption, HeadTailProperties DEF TypeOK
    <2>3. Len(wire[c]) <= WireLimit
      BY DEF Bounded
    <2> DEFINE q == wire[c]
               M == 1..Len(log)
    <2>4. Len(q) \in Nat /\ q \in Seq(M) /\ WireLimit \in Nat
      BY <2>2
    <2>5. ASSUME q # <<>> PROVE Len(Tail(q)) <= WireLimit
      <3>1. Len(Tail(q)) = Len(q) - 1
        BY <2>4, <2>5, HeadTailProperties
      <3> QED
        BY <2>3, <2>4, <3>1
    <2>6. ASSUME Len(q) < WireLimit, outbox # <<>>
          PROVE  Len(Append(q, Head(outbox))) <= WireLimit
      <3>1. Len(Append(q, Head(outbox))) = Len(q) + 1
        BY <2>2, <2>4, <2>6, AppendProperties
      <3> QED
        BY <2>4, <2>6, <3>1
    <2>7. Len(<<>>) <= WireLimit
      BY <2>4
    <2> QED
      BY <2>1, <2>3, <2>5, <2>6, <2>7
  <1>3. \A c \in Consumer : Len(inbox'[c]) <= InboxLimit
    <2> SUFFICES ASSUME NEW c \in Consumer PROVE Len(inbox'[c]) <= InboxLimit
      OBVIOUS
    <2>1. \/ inbox'[c] = inbox[c] \/ inbox'[c] = <<>>
          \/ inbox[c] # <<>> /\ inbox'[c] = Tail(inbox[c])
          \/ /\ Len(inbox[c]) < InboxLimit /\ wire[c] # <<>>
             /\ inbox'[c] = Append(inbox[c], Head(wire[c]))
      <3>1. CASE \E d \in Consumer : Arrive(d)
        BY <3>1 DEF Arrive, TypeOK
      <3>2. CASE \E d \in Consumer : Take(d) \/ StopWorker(d) \/ ExitWorker(d)
        BY <3>2 DEF Take, StopWorker, ExitWorker, TypeOK
      <3>3. CASE inbox' = inbox
        BY <3>3
      <3> QED
        BY <3>1, <3>2, <3>3
        DEF Next, vars, workers, others, Relay, Subscribe, SubscribeFails, Reconnect,
            ReadCommit, Disconnect, Shutdown, PublisherCrash, LoseOutbox, StartCommit,
            HandleCommit, SkipTooBig, Publish, PublishFails, Flush, FlushFails, Confirm,
            Deliver, Detach, Attach, NobodyListens, WorkerStep, Join, ProcessEvent,
            Consume
    <2>2. /\ inbox[c] \in Seq(1..Len(log)) /\ InboxLimit \in Nat
          /\ wire[c] # <<>> => Head(wire[c]) \in 1..Len(log)
      BY NatsAssumption, HeadTailProperties DEF TypeOK
    <2>3. Len(inbox[c]) <= InboxLimit
      BY DEF Bounded
    <2> DEFINE q == inbox[c]
               M == 1..Len(log)
    <2>4. Len(q) \in Nat /\ q \in Seq(M) /\ InboxLimit \in Nat
      BY <2>2
    <2>5. ASSUME q # <<>> PROVE Len(Tail(q)) <= InboxLimit
      <3>1. Len(Tail(q)) = Len(q) - 1
        BY <2>4, <2>5, HeadTailProperties
      <3> QED
        BY <2>3, <2>4, <3>1
    <2>6. ASSUME Len(q) < InboxLimit, wire[c] # <<>>
          PROVE  Len(Append(q, Head(wire[c]))) <= InboxLimit
      <3>1. Len(Append(q, Head(wire[c]))) = Len(q) + 1
        BY <2>2, <2>4, <2>6, AppendProperties
      <3> QED
        BY <2>4, <2>6, <3>1
    <2>7. Len(<<>>) <= InboxLimit
      BY <2>4
    <2> QED
      BY <2>1, <2>3, <2>5, <2>6, <2>7
  <1> QED
    BY <1>1, <1>2, <1>3 DEF Bounded

(* The broker sends on what the publisher's client sent. *)
LEMMA DeliverCopies ==
    ASSUME IndInv, Bounded, Bounded', NEW c \in Consumer, Deliver(c), NEW s
    PROVE  Copies(s)' = Copies(s)
  <1> USE DEF IndInv
  <1> DEFINE h == Head(outbox)
  <1>1. /\ outbox \in Seq(1..Len(log)) /\ outbox # <<>> /\ outbox' = Tail(outbox)
        /\ UNCHANGED <<inbox, job>> /\ wire \in [Consumer -> Seq(1..Len(log))]
        /\ wire' = [wire EXCEPT ![c] = Append(wire[c], h)]
    BY DEF Deliver, TypeOK
  <1>2. h \in 1..Len(log) /\ wire'[c] = Append(wire[c], h)
    BY <1>1, HeadTailProperties
  <1>3. Refilled(wire, WireLimit, wire', c, Append(wire[c], h))
    <2>1. Append(wire[c], h) \in Seq(Nat) /\ wire \in [Consumer -> Seq(Nat)]
      BY <1>1, <1>2
    <2> QED
      BY <1>1, <1>2, <2>1, NatsAssumption DEF Refilled, Bounded
  <1>4. Cardinality(Held(wire', WireLimit, s)) =
            Cardinality(Held(wire, WireLimit, s)) + One(h = s)
    BY <1>2, <1>3, BoxAppended
  <1>5. Cardinality(Spots(outbox, s)) = Cardinality(Spots(outbox', s)) + One(h = s)
    BY <1>1, SpotsTail
  <1>6. One(h = s) \in Nat
    BY DEF One
  <1>7. [Next]_vars
    BY DEF Next
  <1> HIDE DEF IndInv
  <1> DEFINE sent == Cardinality(Spots(outbox, s))
             sent2 == Cardinality(Spots(outbox', s))
             way == Cardinality(Held(wire, WireLimit, s))
             way2 == Cardinality(Held(wire', WireLimit, s))
             box == Cardinality(Held(inbox, InboxLimit, s))
             box2 == Cardinality(Held(inbox', InboxLimit, s))
             busy == Cardinality(Busy(job, s))
             busy2 == Cardinality(Busy(job', s))
  <1>8. /\ Copies(s) = sent + way + box + busy
        /\ Copies(s)' = sent2 + way2 + box2 + busy2
    BY CopiesByStation DEF Total
  <1>9. /\ sent \in Nat /\ way \in Nat /\ box \in Nat /\ busy \in Nat
        /\ sent2 \in Nat /\ way2 \in Nat /\ box2 \in Nat /\ busy2 \in Nat
    BY <1>7, StationTypes
  <1>10. box2 = box /\ busy2 = busy
    BY <1>1
  <1> HIDE DEF h
  <1> QED
    BY <1>4, <1>5, <1>6, <1>8, <1>9, <1>10

(* A client gets a message, or drops it. *)
LEMMA ArriveCopies ==
    ASSUME IndInv, Bounded, Bounded', NEW c \in Consumer, Arrive(c), NEW s
    PROVE  Copies(s)' \in 0..Copies(s)
  <1> USE DEF IndInv
  <1> DEFINE h == Head(wire[c])
  <1>1. /\ wire \in [Consumer -> Seq(1..Len(log))] /\ wire[c] # <<>>
        /\ inbox \in [Consumer -> Seq(1..Len(log))]
        /\ UNCHANGED <<outbox, job>> /\ wire' = [wire EXCEPT ![c] = Tail(wire[c])]
    BY DEF Arrive, TypeOK, publisher
  <1>2. h \in 1..Len(log) /\ Tail(wire[c]) \in Seq(1..Len(log))
        /\ wire'[c] = Tail(wire[c])
    BY <1>1, HeadTailProperties
  <1>3. Shifted(wire, WireLimit, wire', c)
    <2>1. Tail(wire[c]) \in Seq(Nat) /\ wire \in [Consumer -> Seq(Nat)]
      BY <1>1, <1>2
    <2>2. Len(wire[c]) <= WireLimit /\ Len(Tail(wire[c])) <= WireLimit
      BY <1>2 DEF Bounded
    <2>3. wire' = [wire EXCEPT ![c] = Tail(wire[c])] /\ WireLimit \in Nat
      BY <1>1, NatsAssumption
    <2> QED
      BY <1>1, <2>1, <2>2, <2>3 DEF Refilled, Shifted
  <1>4. Cardinality(Held(wire, WireLimit, s)) =
            Cardinality(Held(wire', WireLimit, s)) + One(h = s)
    BY <1>3, BoxTaken
  <1>5. \/ Cardinality(Held(inbox', InboxLimit, s)) = Cardinality(Held(inbox, InboxLimit, s))
        \/ Cardinality(Held(inbox', InboxLimit, s)) =
               Cardinality(Held(inbox, InboxLimit, s)) + One(h = s)
    <2>1. CASE inbox' = inbox
      BY <2>1
    <2>2. CASE inbox' = [inbox EXCEPT ![c] = Append(inbox[c], h)]
      <3>1. /\ Append(inbox[c], h) \in Seq(Nat) /\ inbox \in [Consumer -> Seq(Nat)]
            /\ inbox'[c] = Append(inbox[c], h)
        BY <1>1, <1>2, <2>2
      <3>2. Len(inbox[c]) <= InboxLimit /\ Len(Append(inbox[c], h)) <= InboxLimit
        BY <3>1 DEF Bounded
      <3>3. Refilled(inbox, InboxLimit, inbox', c, Append(inbox[c], h))
        <4>1. InboxLimit \in Nat
          BY NatsAssumption
        <4> HIDE DEF h
        <4> QED
          BY <2>2, <3>1, <3>2, <4>1 DEF Refilled
      <3> QED
        <4>1. h \in Nat
          BY <1>2
        <4> HIDE DEF h
        <4> QED
          BY <3>3, <4>1, BoxAppended
    <2> QED
      BY <2>1, <2>2 DEF Arrive
  <1>6. One(h = s) \in Nat
    BY DEF One
  <1>7. [Next]_vars
    BY DEF Next, WorkerStep
  <1> HIDE DEF IndInv
  <1> DEFINE sent == Cardinality(Spots(outbox, s))
             sent2 == Cardinality(Spots(outbox', s))
             way == Cardinality(Held(wire, WireLimit, s))
             way2 == Cardinality(Held(wire', WireLimit, s))
             box == Cardinality(Held(inbox, InboxLimit, s))
             box2 == Cardinality(Held(inbox', InboxLimit, s))
             busy == Cardinality(Busy(job, s))
             busy2 == Cardinality(Busy(job', s))
  <1>8. /\ Copies(s) = sent + way + box + busy
        /\ Copies(s)' = sent2 + way2 + box2 + busy2
    BY CopiesByStation DEF Total
  <1>9. /\ sent \in Nat /\ way \in Nat /\ box \in Nat /\ busy \in Nat
        /\ sent2 \in Nat /\ way2 \in Nat /\ box2 \in Nat /\ busy2 \in Nat
    BY <1>7, StationTypes
  <1>10. sent2 = sent /\ busy2 = busy
    BY <1>1
  <1> HIDE DEF h
  <1> QED
    BY <1>4, <1>5, <1>6, <1>8, <1>9, <1>10

(* The callback is given the oldest message of its buffer. *)
LEMMA TakeCopies ==
    ASSUME IndInv, Bounded, Bounded', NEW c \in Consumer, Take(c), NEW s, s # Nothing
    PROVE  Copies(s)' = Copies(s)
  <1> USE DEF IndInv
  <1> DEFINE h == Head(inbox[c])
  <1>1. /\ inbox \in [Consumer -> Seq(1..Len(log))] /\ inbox[c] # <<>>
        /\ job \in [Consumer -> 0..Len(log)] /\ job[c] = Nothing
        /\ UNCHANGED <<outbox, wire>> /\ job' = [job EXCEPT ![c] = h]
        /\ inbox' = [inbox EXCEPT ![c] = Tail(inbox[c])]
    BY DEF Take, TypeOK, publisher
  <1>2. Tail(inbox[c]) \in Seq(1..Len(log)) /\ inbox'[c] = Tail(inbox[c])
    BY <1>1, HeadTailProperties
  <1>3. Shifted(inbox, InboxLimit, inbox', c)
    <2>1. Tail(inbox[c]) \in Seq(Nat) /\ inbox \in [Consumer -> Seq(Nat)]
      BY <1>1, <1>2
    <2>2. Len(inbox[c]) <= InboxLimit /\ Len(Tail(inbox[c])) <= InboxLimit
      BY <1>2 DEF Bounded
    <2>3. inbox' = [inbox EXCEPT ![c] = Tail(inbox[c])] /\ InboxLimit \in Nat
      BY <1>1, NatsAssumption
    <2> QED
      BY <1>1, <2>1, <2>2, <2>3 DEF Refilled, Shifted
  <1>4. Cardinality(Held(inbox, InboxLimit, s)) =
            Cardinality(Held(inbox', InboxLimit, s)) + One(h = s)
    BY <1>3, BoxTaken
  <1>5. Cardinality(Busy(job', s)) + One(job[c] = s) =
            Cardinality(Busy(job, s)) + One(h = s)
    <2>1. Reassigned(job, job', c, h)
      BY <1>1 DEF Reassigned
    <2> QED
      BY <2>1, BusyChanged
  <1>6. One(job[c] = s) = 0 /\ One(h = s) \in Nat
    BY <1>1 DEF One
  <1>7. [Next]_vars
    BY DEF Next, WorkerStep
  <1> HIDE DEF IndInv
  <1> DEFINE sent == Cardinality(Spots(outbox, s))
             sent2 == Cardinality(Spots(outbox', s))
             way == Cardinality(Held(wire, WireLimit, s))
             way2 == Cardinality(Held(wire', WireLimit, s))
             box == Cardinality(Held(inbox, InboxLimit, s))
             box2 == Cardinality(Held(inbox', InboxLimit, s))
             busy == Cardinality(Busy(job, s))
             busy2 == Cardinality(Busy(job', s))
  <1>8. /\ Copies(s) = sent + way + box + busy
        /\ Copies(s)' = sent2 + way2 + box2 + busy2
    BY CopiesByStation DEF Total
  <1>9. /\ sent \in Nat /\ way \in Nat /\ box \in Nat /\ busy \in Nat
        /\ sent2 \in Nat /\ way2 \in Nat /\ box2 \in Nat /\ busy2 \in Nat
    BY <1>7, StationTypes
  <1>10. sent2 = sent /\ way2 = way
    BY <1>1
  <1> HIDE DEF h
  <1> QED
    BY <1>4, <1>5, <1>6, <1>8, <1>9, <1>10

(* The callback ends with its commit. *)
LEMMA ConsumeCopies ==
    ASSUME IndInv, NEW c \in Consumer, NEW ok \in BOOLEAN, Consume(c, ok),
           NEW s, s # Nothing
    PROVE  Copies(s) = Copies(s)' + One(job[c] = s)
  <1>1. UNCHANGED <<outbox, wire, inbox>> /\ job' = [job EXCEPT ![c] = Nothing]
    BY DEF Consume, publisher
  <1>2. Reassigned(job, job', c, Nothing)
    BY <1>1 DEF Reassigned, IndInv, TypeOK
  <1>3. Cardinality(Busy(job', s)) + One(job[c] = s) =
            Cardinality(Busy(job, s)) + One(Nothing = s)
    BY <1>2, BusyChanged
  <1>4. One(Nothing = s) = 0 /\ One(job[c] = s) \in Nat
    BY DEF One
  <1>5. [Next]_vars
    BY DEF Next, WorkerStep
  <1> DEFINE sent == Cardinality(Spots(outbox, s))
             sent2 == Cardinality(Spots(outbox', s))
             way == Cardinality(Held(wire, WireLimit, s))
             way2 == Cardinality(Held(wire', WireLimit, s))
             box == Cardinality(Held(inbox, InboxLimit, s))
             box2 == Cardinality(Held(inbox', InboxLimit, s))
             busy == Cardinality(Busy(job, s))
             busy2 == Cardinality(Busy(job', s))
  <1>6. /\ Copies(s) = sent + way + box + busy
        /\ Copies(s)' = sent2 + way2 + box2 + busy2
    BY CopiesByStation DEF Total
  <1>7. /\ sent \in Nat /\ way \in Nat /\ box \in Nat /\ busy \in Nat
        /\ sent2 \in Nat /\ way2 \in Nat /\ box2 \in Nat /\ busy2 \in Nat
    BY <1>5, StationTypes
  <1>8. sent2 = sent /\ way2 = way /\ box2 = box
    BY <1>1
  <1> QED
    BY <1>3, <1>4, <1>6, <1>7, <1>8

(***************************************************************************)
(* A client that closes, a connection that breaks or a process that ends   *)
(* drops what it holds.                                                    *)
(***************************************************************************)
LEMMA StopCopies ==
    ASSUME IndInv, Bounded, NEW c \in Consumer,
           Detach(c) \/ StopWorker(c) \/ ExitWorker(c), NEW s, s # Nothing
    PROVE  Copies(s)' \in 0..Copies(s)
  <1> USE DEF IndInv
  <1>1. /\ outbox' = outbox /\ wire' = [wire EXCEPT ![c] = <<>>]
        /\ inbox' = inbox \/ inbox' = [inbox EXCEPT ![c] = <<>>]
        /\ job' = job \/ job' = [job EXCEPT ![c] = Nothing]
    BY DEF Detach, StopWorker, ExitWorker, publisher
  <1>2. [Next]_vars
    BY DEF Next, WorkerStep
  <1>3. /\ wire \in [Consumer -> Seq(Nat)] /\ inbox \in [Consumer -> Seq(Nat)]
        /\ <<>> \in Seq(Nat) /\ Len(<<>>) <= WireLimit /\ Len(<<>>) <= InboxLimit
    BY NatsAssumption DEF TypeOK
  <1>4. Cardinality(Held(wire', WireLimit, s)) <= Cardinality(Held(wire, WireLimit, s))
    <2>1. Refilled(wire, WireLimit, wire', c, <<>>)
      BY <1>1, <1>3, NatsAssumption DEF Refilled, Bounded
    <2> QED
      BY <2>1, BoxEmptied
  <1>5. Cardinality(Held(inbox', InboxLimit, s)) <= Cardinality(Held(inbox, InboxLimit, s))
    <2>1. CASE inbox' = inbox
      BY <1>2, <2>1, StationTypes
    <2>2. CASE inbox' = [inbox EXCEPT ![c] = <<>>]
      <3>1. Refilled(inbox, InboxLimit, inbox', c, <<>>)
        BY <1>3, <2>2, NatsAssumption DEF Refilled, Bounded
      <3> QED
        BY <3>1, BoxEmptied
    <2> QED
      BY <1>1, <2>1, <2>2
  <1>6. Cardinality(Busy(job', s)) <= Cardinality(Busy(job, s))
    <2>1. CASE job' = job
      BY <1>2, <2>1, StationTypes
    <2>2. CASE job' = [job EXCEPT ![c] = Nothing]
      <3>1. Reassigned(job, job', c, Nothing)
        BY <2>2 DEF Reassigned, TypeOK
      <3>2. Cardinality(Busy(job', s)) + One(job[c] = s) =
                Cardinality(Busy(job, s)) + One(Nothing = s)
        BY <3>1, BusyChanged
      <3>3. One(Nothing = s) = 0 /\ One(job[c] = s) \in Nat
        BY DEF One
      <3> HIDE DEF IndInv
      <3> QED
        BY <1>2, <3>2, <3>3, StationTypes
    <2> QED
      BY <1>1, <2>1, <2>2
  <1> HIDE DEF IndInv
  <1> DEFINE sent == Cardinality(Spots(outbox, s))
             sent2 == Cardinality(Spots(outbox', s))
             way == Cardinality(Held(wire, WireLimit, s))
             way2 == Cardinality(Held(wire', WireLimit, s))
             box == Cardinality(Held(inbox, InboxLimit, s))
             box2 == Cardinality(Held(inbox', InboxLimit, s))
             busy == Cardinality(Busy(job, s))
             busy2 == Cardinality(Busy(job', s))
  <1>7. /\ Copies(s) = sent + way + box + busy
        /\ Copies(s)' = sent2 + way2 + box2 + busy2
    BY CopiesByStation DEF Total
  <1>8. /\ sent \in Nat /\ way \in Nat /\ box \in Nat /\ busy \in Nat
        /\ sent2 \in Nat /\ way2 \in Nat /\ box2 \in Nat /\ busy2 \in Nat
    BY <1>2, StationTypes
  <1>9. sent2 = sent
    BY <1>1
  <1> QED
    BY <1>4, <1>5, <1>6, <1>7, <1>8, <1>9

(* The publisher's buffer loses its oldest, or everything. *)
LEMMA LossCopies ==
    ASSUME IndInv, LoseOutbox \/ NobodyListens \/ PublisherCrash, NEW s
    PROVE  Copies(s)' \in 0..Copies(s)
  <1> USE DEF IndInv
  <1>1. /\ UNCHANGED <<wire, inbox, job>>
        /\ \/ outbox' = <<>>
           \/ outbox # <<>> /\ outbox' = Tail(outbox)
    BY DEF LoseOutbox, NobodyListens, PublisherCrash, workers
  <1>2. [Next]_vars
    BY DEF Next
  <1>3. Cardinality(Spots(outbox', s)) <= Cardinality(Spots(outbox, s))
    <2>1. CASE outbox' = <<>>
      <3> HIDE DEF IndInv
      <3> QED
        BY <1>2, <2>1, NoSpots, StationTypes
    <2>2. CASE outbox # <<>> /\ outbox' = Tail(outbox)
      <3>1. outbox \in Seq(1..Len(log))
        BY DEF TypeOK
      <3>2. Cardinality(Spots(outbox, s)) =
                Cardinality(Spots(outbox', s)) + One(Head(outbox) = s)
        BY <2>2, <3>1, SpotsTail
      <3>3. One(Head(outbox) = s) \in Nat
        BY DEF One
      <3> HIDE DEF IndInv
      <3> QED
        BY <1>2, <3>2, <3>3, StationTypes
    <2> QED
      BY <1>1, <2>1, <2>2
  <1> HIDE DEF IndInv
  <1> DEFINE sent == Cardinality(Spots(outbox, s))
             sent2 == Cardinality(Spots(outbox', s))
             way == Cardinality(Held(wire, WireLimit, s))
             way2 == Cardinality(Held(wire', WireLimit, s))
             box == Cardinality(Held(inbox, InboxLimit, s))
             box2 == Cardinality(Held(inbox', InboxLimit, s))
             busy == Cardinality(Busy(job, s))
             busy2 == Cardinality(Busy(job', s))
  <1>4. /\ Copies(s) = sent + way + box + busy
        /\ Copies(s)' = sent2 + way2 + box2 + busy2
    BY CopiesByStation DEF Total
  <1>5. /\ sent \in Nat /\ way \in Nat /\ box \in Nat /\ busy \in Nat
        /\ sent2 \in Nat /\ way2 \in Nat /\ box2 \in Nat /\ busy2 \in Nat
    BY <1>2, StationTypes
  <1>6. way2 = way /\ box2 = box /\ busy2 = busy
    BY <1>1
  <1> QED
    BY <1>3, <1>4, <1>5, <1>6

(* Nothing else touches the copies but a handler that publishes. *)
LEMMA SameCopies ==
    ASSUME UNCHANGED <<outbox, wire, inbox, job>>, NEW s
    PROVE  Copies(s)' = Copies(s)
  BY CopiesByStation

-----------------------------------------------------------------------------
(* Steps of the promise. *)

(* What has not been published, and who publishes. *)
LEMMA UnsentTask ==
    ASSUME IndInv, NEW w \in Worker, task[w] # Nothing
    PROVE  /\ task[w] \in InFlight /\ task[w] \in 1..Len(log)
           /\ task[w] \in Unsent <=> stage[w] = "new"
           /\ \A v \in Worker : v # w => task[v] # task[w]
  <1>1. task[w] \in InFlight /\ task[w] \in 1..Len(log)
    BY FlightRead DEF IndInv, TypeOK, InFlight
  <1>2. \A v \in Worker : v # w => task[v] # task[w]
    BY OnePlace DEF IndInv, TypeOK
  <1> QED
    BY <1>1, <1>2 DEF Unsent, Sent

(* A handler that returns leaves nothing of its commit unsent. *)
LEMMA ReturnUnsent ==
    ASSUME IndInv, NEW w \in Worker, Return(w)
    PROVE  Unsent' = Unsent \ {task[w]}
  <1> USE DEF IndInv
  <1> DEFINE t == task[w]
  <1>1. /\ Finish(w) /\ t # Nothing /\ stage'[w] = "new"
        /\ \A v \in Worker : v # w => task'[v] = task[v] /\ stage'[v] = stage[v]
    BY DEF Return, Finish, TypeOK, FirehoseTypeOK
  <1>2. InFlight' = InFlight \ {t}
    BY <1>1, FinishInFlight DEF TypeOK
  <1>3. Sent \ {t} = Sent'
    <2>1. \A v \in Worker : v # w => task[v] # t
      BY <1>1, UnsentTask
    <2> QED
      BY <1>1, <2>1 DEF Sent
  <1> QED
    BY <1>2, <1>3 DEF Unsent

(* Nothing is published, only lost, if anything. *)
LEMMA LoseStep ==
    ASSUME Unsent' \subseteq Unsent, UNCHANGED <<pos, consumed>>,
           \A s \in 1..MaxLog : Copies(s)' \in 0..Copies(s)
    PROVE  OneCopy!Next
  BY DEF OneCopy!Next, OneCopy!Lose, OneCopy!Fewer

LEMMA PublishStep ==
    ASSUME NEW t \in 1..MaxLog, t \in Unsent, Unsent' = Unsent \ {t},
           UNCHANGED <<pos, consumed>>,
           \A s \in 1..MaxLog : Copies(s)' = Copies(s) + One(t = s),
           \A s \in 1..MaxLog : Copies(s) \in Nat
    PROVE  OneCopy!Next
  <1>1. [s \in 1..MaxLog |-> Copies(s)]' =
            [[s \in 1..MaxLog |-> Copies(s)] EXCEPT ![t] = @ + 1]
    <2>1. \A s \in 1..MaxLog :
              Copies(s)' = IF s = t THEN Copies(t) + 1 ELSE Copies(s)
      BY DEF One
    <2> QED
      BY <2>1
  <1> QED
    BY <1>1 DEF OneCopy!Next, OneCopy!Publish

LEMMA ConsumeStep ==
    ASSUME NEW t \in 1..MaxLog, UNCHANGED <<pos, Unsent>>,
           consumed' = consumed \cup {t},
           \A s \in 1..MaxLog : Copies(s) = Copies(s)' + One(t = s),
           \A s \in 1..MaxLog : Copies(s)' \in Nat
    PROVE  OneCopy!Next
  <1>1. [s \in 1..MaxLog |-> Copies(s)]' =
            [[s \in 1..MaxLog |-> Copies(s)] EXCEPT ![t] = @ - 1]
    <2>1. \A s \in 1..MaxLog :
              Copies(s)' = IF s = t THEN Copies(t) - 1 ELSE Copies(s)
      BY DEF One
    <2> QED
      BY <2>1
  <1>2. Copies(t) > 0
    BY DEF One
  <1> QED
    BY <1>1, <1>2 DEF OneCopy!Next, OneCopy!Consume

(* The relay, the connection and the scheduler publish nothing. *)
LEMMA ConnectionOnce ==
    ASSUME IndInv, Sending, Bounded,
           \/ Relay \/ Subscribe \/ SubscribeFails \/ Reconnect \/ ReadCommit
           \/ Disconnect \/ Shutdown \/ \E w \in Worker : StartCommit(w)
    PROVE  [OneCopy!Next]_(OneCopy!vars)
  <1> USE DEF IndInv
  <1>1. UNCHANGED <<stage, outbox, wire, inbox, job, consumed>>
    BY DEF Relay, Subscribe, SubscribeFails, Reconnect, ReadCommit, Disconnect,
           Shutdown, StartCommit, others, workers
  <1>2. \A s \in 1..MaxLog : Copies(s)' = Copies(s)
    BY <1>1, SameCopies
  <1>3. [s \in 1..MaxLog |-> Copies(s)]' = [s \in 1..MaxLog |-> Copies(s)]
    BY <1>2
  <1>4. CASE Relay \/ SubscribeFails \/ Reconnect \/ Disconnect \/ Shutdown
             \/ \E w \in Worker : StartCommit(w)
    <2>1. pos' = pos
      BY <1>4 DEF Relay, Emit, SubscribeFails, ConnectFails, Reconnect, BackoffOver,
                  Disconnect, Drop, Shutdown, Drained, StartCommit, Dispatch, stream
    <2>2. InFlight' = InFlight
      <3>1. CASE Relay
        BY <3>1, EmitInFlight DEF Relay, TypeOK
      <3>2. CASE \E w \in Worker : StartCommit(w)
        BY <3>2, DispatchInFlight DEF StartCommit, TypeOK
      <3> QED
        BY <1>4, <3>1, <3>2, InFlightUnchanged
        DEF SubscribeFails, ConnectFails, Reconnect, BackoffOver, Disconnect, Drop,
            Shutdown, Drained, scheduler
    <2>3. \A w \in Worker : stage[w] # "new" => task'[w] = task[w]
      BY <1>4 DEF Relay, Emit, SubscribeFails, ConnectFails, Reconnect, BackoffOver,
                  Disconnect, Drop, Shutdown, Drained, StartCommit, Dispatch, scheduler,
                  Sending, TypeOK, FirehoseTypeOK
    <2>4. Sent' = Sent
      BY <1>1, <2>3 DEF Sent
    <2> QED
      BY <1>1, <1>3, <2>1, <2>2, <2>4 DEF Unsent, OneCopy!vars
  <1>5. CASE Subscribe
    <2>1. InFlight = {} /\ InFlight' = {}
      BY <1>5, NothingInFlight, InFlightUnchanged
      DEF Subscribe, Connect, Connected, scheduler
    <2>2. pos' \in 1..MaxLog \cup {0}
      <3>1. cursor \in 0..Len(log) /\ Len(log) \in Nat /\ Len(log) <= MaxLog
        BY DEF TypeOK, FirehoseTypeOK, Bounded
      <3>2. pos' = IF cursor > 0 THEN cursor ELSE Len(log)
        BY <1>5 DEF Subscribe, Connect
      <3> QED
        BY <3>1, <3>2, FirehoseAssumption
    <2>3. OneCopy!Join
      BY <1>1, <1>3, <2>1, <2>2 DEF OneCopy!Join, Unsent
    <2> QED
      BY <2>3 DEF OneCopy!Next
  <1>6. CASE ReadCommit
    <2>1. pos' = pos + 1 /\ task' = task /\ InFlight' = InFlight \cup {pos'}
      BY <1>6, ReadInFlight DEF ReadCommit, Read, TypeOK
    <2>2. Sent' = Sent /\ pos' \notin Sent
      <3>1. \A w \in Worker : task[w] \in Nat /\ task[w] <= pos /\ pos \in Nat
        BY DEF SchedulerInv, AlreadyRead, TypeOK, FirehoseTypeOK
      <3> QED
        BY <1>1, <2>1, <3>1 DEF Sent
    <2>3. Unsent' = Unsent \cup {pos'}
      BY <2>1, <2>2 DEF Unsent
    <2>4. OneCopy!Read
      BY <1>1, <1>3, <2>1, <2>3 DEF OneCopy!Read
    <2> QED
      BY <2>4 DEF OneCopy!Next
  <1> QED
    BY <1>4, <1>5, <1>6

(* A publisher that ends loses what it had. *)
LEMMA CrashOnce ==
    ASSUME IndInv, PublisherCrash
    PROVE  OneCopy!Next
  <1> USE DEF IndInv
  <1>1. /\ pos' = 0 /\ UNCHANGED consumed
        /\ held' = Nothing /\ waiting' = [r \in Repo |-> <<>>]
        /\ task' = [w \in Worker |-> Nothing]
    BY DEF PublisherCrash, Restart, workers
  <1>2. Unsent' = {}
    BY <1>1 DEF InFlight, Unsent, Nothing
  <1>3. \A s \in 1..MaxLog : Copies(s)' \in 0..Copies(s)
    BY LossCopies
  <1>4. OneCopy!Crash
    BY <1>1, <1>2, <1>3 DEF OneCopy!Crash, OneCopy!Fewer
  <1> QED
    BY <1>4 DEF OneCopy!Next

(* A handler publishes its commit once, or gives it up. *)
LEMMA HandlerOnce ==
    ASSUME IndInv, Sending, Bounded, NEW w \in Worker, HandleCommit(w)
    PROVE  OneCopy!Next
  <1> USE DEF IndInv
  <1> DEFINE t == task[w]
  <1>1. UNCHANGED <<pos, wire, inbox, job, consumed>> /\ t # Nothing
    BY DEF HandleCommit, SkipTooBig, Publish, PublishFails, Flush, FlushFails, Confirm,
           Return, Finish, fhVars, stream, workers, Sending
  <1>2. /\ t \in 1..Len(log) /\ \A v \in Worker : v # w => task[v] # t
        /\ t \in InFlight /\ (t \in Unsent <=> stage[w] = "new")
    BY <1>1, UnsentTask
  <1>3. [Next]_vars /\ \A s \in 1..MaxLog : Copies(s) \in Nat
    BY StationTypes DEF Next
  <1>4. CASE Publish(w)
    <2>1. /\ stage[w] = "new" /\ stage'[w] = "published"
          /\ \A v \in Worker : v # w => stage'[v] = stage[v]
          /\ UNCHANGED <<task, InFlight>> /\ outbox' = Append(outbox, t)
      BY <1>4, InFlightUnchanged DEF Publish, TypeOK, fhVars, scheduler
    <2>2. Sent' = Sent \cup {t}
      BY <2>1 DEF Sent
    <2>3. t \in Unsent /\ Unsent' = Unsent \ {t}
      BY <1>2, <2>1, <2>2 DEF Unsent
    <2>4. t \in 1..MaxLog
      BY <1>2, FirehoseAssumption DEF Bounded, TypeOK, FirehoseTypeOK
    <2>5. ASSUME NEW s \in 1..MaxLog PROVE Copies(s)' = Copies(s) + One(t = s)
      <3> DEFINE x == Cardinality(Spots(outbox, s))
                 y == Cardinality(Held(wire, WireLimit, s))
                          + Cardinality(Held(inbox, InboxLimit, s))
                 z == Cardinality(Busy(job, s))
      <3>1. Cardinality(Spots(outbox', s)) = x + One(t = s)
        <4> DEFINE M == 1..Len(log)
        <4>1. outbox \in Seq(M) /\ t \in M /\ outbox' = Append(outbox, t)
          BY <1>2, <2>1 DEF TypeOK
        <4> HIDE DEF M, t
        <4> QED
          BY <4>1, SpotsAppend
      <3>2. x \in Nat /\ y \in Nat /\ z \in Nat /\ One(t = s) \in Nat
        BY <1>3, StationTypes DEF One
      <3>3. /\ Copies(s) = x + y + z
            /\ Copies(s)' = Cardinality(Spots(outbox', s)) + y + z
        BY <1>1, <1>3, StationTypes, CopiesByStation DEF Total
      <3> HIDE DEF t, x, y, z
      <3> QED
        BY <3>1, <3>2, <3>3
    <2> HIDE DEF t
    <2> QED
      BY <1>1, <1>3, <2>3, <2>4, <2>5, PublishStep
  <1>5. CASE ~Publish(w)
    <2>1. outbox' = outbox
      BY <1>5 DEF HandleCommit, SkipTooBig, PublishFails, Flush, FlushFails, Confirm
    <2>2. \A s \in 1..MaxLog : Copies(s)' \in 0..Copies(s)
      BY <1>1, <1>3, <2>1, SameCopies
    <2>3. Unsent' \subseteq Unsent
      <3>1. CASE Return(w)
        BY <3>1, ReturnUnsent
      <3>2. CASE Flush(w)
        <4>1. UNCHANGED <<task, InFlight>>
          BY <3>2, InFlightUnchanged DEF Flush, fhVars, scheduler
        <4>2. \A v \in Worker : stage[v] # "new" => stage'[v] # "new"
          BY <3>2 DEF Flush, TypeOK
        <4> QED
          BY <4>1, <4>2 DEF Unsent, Sent
      <3> QED
        BY <1>5, <3>1, <3>2
        DEF HandleCommit, SkipTooBig, PublishFails, FlushFails, Confirm
    <2> QED
      BY <1>1, <2>2, <2>3, LoseStep
  <1> QED
    BY <1>4, <1>5

(* The broker and the workers publish nothing, and copy nothing. *)
LEMMA DeliveryOnce ==
    ASSUME IndInv, Bounded,
           \/ LoseOutbox \/ NobodyListens
           \/ \E c \in Consumer : \/ Deliver(c) \/ Detach(c) \/ Attach(c)
                                  \/ WorkerStep(c)
    PROVE  OneCopy!Next
  <1> USE DEF IndInv
  <1>1. UNCHANGED fhVars /\ UNCHANGED stage
    BY DEF LoseOutbox, NobodyListens, Deliver, Detach, Attach, WorkerStep, Join, Arrive,
           Take, ProcessEvent, Consume, StopWorker, ExitWorker, publisher
  <1>2. UNCHANGED <<pos, task, InFlight>>
    BY <1>1, InFlightUnchanged DEF fhVars, stream, scheduler
  <1>3. UNCHANGED <<pos, Unsent>>
    BY <1>1, <1>2 DEF Unsent, Sent
  <1>4. /\ [Next]_vars /\ Bounded'
        /\ \A s \in 1..MaxLog : s # Nothing /\ Copies(s) \in Nat /\ Copies(s)' \in Nat
    <2>1. [Next]_vars
      BY DEF Next
    <2> QED
      BY <2>1, BoundedKept, StationTypes DEF Nothing
  <1>5. CASE LoseOutbox \/ NobodyListens
    <2>1. consumed' = consumed
      BY <1>5 DEF LoseOutbox, NobodyListens, workers
    <2>2. \A s \in 1..MaxLog : Copies(s)' \in 0..Copies(s)
      BY <1>5, LossCopies
    <2> QED
      BY <1>3, <2>1, <2>2, LoseStep
  <1>6. ASSUME NEW c \in Consumer,
               \/ Deliver(c) \/ Detach(c) \/ Arrive(c) \/ Take(c)
               \/ StopWorker(c) \/ ExitWorker(c)
        PROVE  OneCopy!Next
    <2>1. consumed' = consumed
      BY <1>6 DEF Deliver, Detach, Arrive, Take, StopWorker, ExitWorker
    <2>2. ASSUME NEW s \in 1..MaxLog PROVE Copies(s)' \in 0..Copies(s)
      BY <1>4, <1>6, <2>2, DeliverCopies, ArriveCopies, TakeCopies, StopCopies
    <2> QED
      BY <1>3, <2>1, <2>2, LoseStep
  <1>7. ASSUME NEW c \in Consumer, NEW ok \in BOOLEAN, Consume(c, ok)
        PROVE  OneCopy!Next
    <2>1. /\ job[c] \in 1..Len(log) /\ consumed' = consumed \cup {job[c]}
      BY <1>7 DEF Consume, TypeOK, Nothing
    <2>2. job[c] \in 1..MaxLog
      BY <2>1, FirehoseAssumption DEF Bounded, TypeOK, FirehoseTypeOK
    <2>3. \A s \in 1..MaxLog : Copies(s) = Copies(s)' + One(job[c] = s)
      BY <1>4, <1>7, ConsumeCopies
    <2> QED
      BY <1>3, <1>4, <2>1, <2>2, <2>3, ConsumeStep
  <1>8. ASSUME NEW c \in Consumer, NEW ok \in BOOLEAN,
               Attach(c) \/ Join(c) \/ ProcessEvent(c, ok)
        PROVE  OneCopy!Next
    <2>1. UNCHANGED <<outbox, wire, inbox, job, consumed>>
      BY <1>8 DEF Attach, Join, ProcessEvent, publisher, workers
    <2>2. \A s \in 1..MaxLog : Copies(s)' \in 0..Copies(s)
      BY <1>4, <2>1, SameCopies
    <2> QED
      BY <1>3, <2>1, <2>2, LoseStep
  <1> QED
    BY <1>5, <1>6, <1>7, <1>8 DEF WorkerStep

(***************************************************************************)
(* However many handlers and workers there are, whatever fails and however *)
(* often they come and go, a commit is handled at most once each time it   *)
(* was read: every step is one AtMostOnce allows.                          *)
(***************************************************************************)
THEOREM HandledAtMostOnceHolds == Spec => HandledAtMostOnce
  <1>1. Init => Bounded /\ OneCopy!Init
    <2> SUFFICES ASSUME Init PROVE Bounded /\ OneCopy!Init
      OBVIOUS
    <2>1. /\ log = <<>> /\ pos = 0 /\ outbox = <<>> /\ consumed = {}
          /\ wire = [c \in Consumer |-> <<>>] /\ inbox = [c \in Consumer |-> <<>>]
          /\ job = [c \in Consumer |-> Nothing]
      BY DEF Init, FirehoseInit
    <2>2. Bounded
      BY <2>1, FirehoseAssumption, NatsAssumption DEF Bounded
    <2>3. InFlight = {}
      BY <2>1 DEF InFlight
    <2>4. ASSUME NEW s \in 1..MaxLog PROVE Copies(s) = 0
      <3>1. /\ Held(wire, WireLimit, s) = {} /\ Held(inbox, InboxLimit, s) = {}
            /\ Busy(job, s) = {}
        BY <2>1, NatsAssumption DEF Held, Busy, Nothing
      <3>2. /\ Cardinality(Held(wire, WireLimit, s)) = 0
            /\ Cardinality(Held(inbox, InboxLimit, s)) = 0
            /\ Cardinality(Busy(job, s)) = 0
        BY <3>1, FS_EmptySet
      <3>3. Copies(s) = Cardinality(Spots(outbox, s)) + 0 + 0 + 0
        BY <3>2, CopiesByStation DEF Total
      <3> QED
        BY <2>1, <3>2, <3>3, NoSpots
    <2> QED
      BY <2>1, <2>2, <2>3, <2>4 DEF OneCopy!Init, Unsent
  <1>2. IndInv /\ Sending /\ Bounded /\ [Next]_vars
            => [OneCopy!Next]_(OneCopy!vars)
    <2> SUFFICES ASSUME IndInv, Sending, Bounded, [Next]_vars
                 PROVE  [OneCopy!Next]_(OneCopy!vars)
      OBVIOUS
    <2>1. CASE UNCHANGED vars
      <3>1. UNCHANGED <<log, held, waiting, task, pos, stage, outbox, wire, inbox, job,
                       consumed>>
        BY <2>1 DEF vars, publisher, fhVars, stream, scheduler, workers
      <3>2. UNCHANGED Unsent
        BY <3>1, InFlightUnchanged DEF Unsent, Sent
      <3>3. \A s \in 1..MaxLog : Copies(s)' = Copies(s)
        BY <3>1, SameCopies
      <3> QED
        BY <3>1, <3>2, <3>3 DEF OneCopy!vars
    <2>2. ASSUME NEW w \in Worker, HandleCommit(w) PROVE OneCopy!Next
      BY <2>2, HandlerOnce
    <2>3. CASE PublisherCrash
      BY <2>3, CrashOnce
    <2> QED
      BY <2>1, <2>2, <2>3, ConnectionOnce, DeliveryOnce DEF Next
  <1>3. IndInv /\ Bounded /\ [Next]_vars => Bounded'
    BY BoundedKept DEF IndInv
  <1>4. LossInv => Sending
    BY DEF LossInv
  <1> QED
    BY <1>1, <1>2, <1>3, <1>4, SpecIndInv, SpecLossInv, PTL
    DEF Spec, HandledAtMostOnce, OneCopy!Spec
=============================================================================
