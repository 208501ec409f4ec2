--------------------------- MODULE IngestionProofs ---------------------------
(***************************************************************************)
(* What the connection, the scheduler and the event processor guarantee    *)
(* whoever runs them: lemmas on the actions of Firehose and Processor, for *)
(* the deployments to use.                                                 *)
(***************************************************************************)
EXTENDS Firehose, Processor, TLAPS

(* A step of the relay, the connection or the scheduler. *)
FirehoseStep ==
    \/ \E c \in Commit : Emit(c)
    \/ \E cursor \in 0..Len(log) : Connect(cursor)
    \/ ConnectFails
    \/ BackoffOver
    \/ Read
    \/ Drop
    \/ Drained
    \/ Restart
    \/ \E w \in Worker : Dispatch(w)
    \/ \E w \in Worker : Finish(w)

(* Every commit of the log names a repo. *)
LEMMA RepoOfType ==
    ASSUME FirehoseTypeOK, NEW s \in 1..Len(log)
    PROVE  RepoOf(s) \in Repo
  <1>1. log[s] \in Commit
    BY DEF FirehoseTypeOK
  <1>2. log[s] \in CommitRecord
    BY <1>1, NetworkAssumption
  <1> QED
    BY <1>2 DEF RepoOf, CommitRecord

(* The scheduler starts empty. *)
LEMMA FirehoseInitType ==
    FirehoseInit => FirehoseTypeOK
  BY DEF FirehoseInit, FirehoseTypeOK, NewScheduler, Nothing, Never

(* The relay only appends: what was in the log stays where it was. *)
LEMMA EmitAppends ==
    ASSUME FirehoseTypeOK, NEW c \in Commit, Emit(c)
    PROVE  /\ log' \in Seq(Commit)
           /\ Len(log') = Len(log) + 1
           /\ \A s \in 1..Len(log) : log'[s] = log[s]
  BY DEF FirehoseTypeOK, Emit

(***************************************************************************)
(* Every step of the connection and the scheduler keeps the types, as long *)
(* as what is in the scheduler was read from the log.                      *)
(***************************************************************************)
LEMMA FirehoseTypeStep ==
    ASSUME FirehoseTypeOK, AlreadyRead, FirehoseStep
    PROVE  FirehoseTypeOK'
  <1> USE DEF stream, scheduler, ghosts, Nothing, Never
  <1>1. ASSUME NEW c \in Commit, Emit(c) PROVE FirehoseTypeOK'
    BY <1>1, EmitAppends DEF Emit, FirehoseTypeOK
  <1>2. ASSUME NEW cursor \in 0..Len(log), Connect(cursor) PROVE FirehoseTypeOK'
    <2>1. pos' \in 0..Len(log) /\ 1..pos' \subseteq Nat
      BY <1>2 DEF Connect, FirehoseTypeOK
    <2>2. excused' \subseteq Nat
      BY <1>2, <2>1 DEF Connect, FirehoseTypeOK
    <2> QED
      BY <1>2, <2>1, <2>2 DEF Connect, FirehoseTypeOK
  <1>3. ASSUME ConnectFails \/ BackoffOver \/ Drop \/ Drained PROVE FirehoseTypeOK'
    BY <1>3 DEF ConnectFails, BackoffOver, Drop, Drained, FirehoseTypeOK
  <1>4. ASSUME Read PROVE FirehoseTypeOK'
    <2>1. pos' \in 1..Len(log) /\ RepoOf(pos') \in Repo
      BY <1>4, RepoOfType DEF Read, FirehoseTypeOK
    <2>2. waiting' \in [Repo -> Seq(Nat \ {0})]
      <3>1. waiting[RepoOf(pos')] \in Seq(Nat \ {0})
        BY <2>1 DEF FirehoseTypeOK
      <3>2. Append(waiting[RepoOf(pos')], pos') \in Seq(Nat \ {0})
        BY <2>1, <3>1
      <3> QED
        BY <1>4, <2>1, <3>2 DEF Read, FirehoseTypeOK
    <2>3. held' \in Nat /\ present' \subseteq Repo
      BY <1>4, <2>1 DEF Read, FirehoseTypeOK
    <2> QED
      BY <1>4, <2>1, <2>2, <2>3 DEF Read, FirehoseTypeOK
  <1>5. ASSUME Restart PROVE FirehoseTypeOK'
    <2>1. InFlight \subseteq Nat
      BY DEF InFlight, FirehoseTypeOK
    <2>2. excused' \subseteq Nat
      BY <1>5, <2>1 DEF Restart, FirehoseTypeOK
    <2> QED
      BY <1>5, <2>2 DEF Restart, FirehoseTypeOK
  <1>6. ASSUME NEW w \in Worker, Dispatch(w) PROVE FirehoseTypeOK'
    BY <1>6 DEF Dispatch, FirehoseTypeOK
  <1>7. ASSUME NEW w \in Worker, Finish(w) PROVE FirehoseTypeOK'
    <2> DEFINE r == RepoOf(task[w])
    <2>1. task[w] \in 1..Len(log)
      BY <1>7 DEF Finish, AlreadyRead, FirehoseTypeOK
    <2>2. r \in Repo
      BY <2>1, RepoOfType
    <2>3. CASE waiting[r] # <<>>
      <3>1. Head(waiting[r]) \in Nat /\ Tail(waiting[r]) \in Seq(Nat \ {0})
        BY <2>2, <2>3 DEF FirehoseTypeOK
      <3>2. task' \in [Worker -> Nat] /\ waiting' \in [Repo -> Seq(Nat \ {0})]
        BY <1>7, <2>3, <3>1 DEF Finish, FirehoseTypeOK
      <3> QED
        BY <1>7, <2>1, <2>3, <3>1, <3>2 DEF Finish, FirehoseTypeOK
    <2>4. CASE waiting[r] = <<>>
      <3>1. task' \in [Worker -> Nat] /\ present' \subseteq Repo
        BY <1>7, <2>4 DEF Finish, FirehoseTypeOK
      <3> QED
        BY <1>7, <2>1, <2>4, <3>1 DEF Finish, FirehoseTypeOK
    <2> QED
      BY <2>3, <2>4
  <1> QED
    BY <1>1, <1>2, <1>3, <1>4, <1>5, <1>6, <1>7 DEF FirehoseStep

-----------------------------------------------------------------------------
(* A scheduler with nothing in it satisfies the invariant. *)
LEMMA EmptyScheduler ==
    NewScheduler /\ pos \in Nat => SchedulerInv
  <1> SUFFICES ASSUME NewScheduler, pos \in Nat PROVE SchedulerInv
    OBVIOUS
  <1> USE DEF NewScheduler
  <1>1. \A r \in Repo : waiting[r] = <<>> /\ Len(waiting[r]) = 0
    OBVIOUS
  <1>2. \A w \in Worker : task[w] = 0
    BY DEF Nothing
  <1>3. EntriesInHand /\ HeldIsNewest
    BY <1>2 DEF EntriesInHand, InHand, HeldIsNewest, Nothing
  <1>4. AlreadyRead
    BY <1>1, <1>2 DEF AlreadyRead
  <1>5. EmptyUnlessConnected
    BY <1>1, <1>2 DEF EmptyUnlessConnected, SchedulerEmpty, Nothing
  <1>6. RepoOrder
    BY <1>1, <1>2 DEF RepoOrder, Nothing
  <1>7. NoOrphan
    BY <1>1 DEF NoOrphan
  <1> QED
    BY <1>3, <1>4, <1>5, <1>6, <1>7 DEF SchedulerInv

(* What is in the scheduler is a place of the log. *)
LEMMA InTheLog ==
    ASSUME FirehoseTypeOK, SchedulerInv
    PROVE  /\ held # Nothing => held \in 1..Len(log)
           /\ \A w \in Worker : task[w] # Nothing => task[w] \in 1..Len(log)
           /\ \A r \in Repo : \A i \in 1..Len(waiting[r]) :
                  waiting[r][i] \in 1..Len(log)
  BY DEF FirehoseTypeOK, SchedulerInv, HeldIsNewest, AlreadyRead, Nothing

(* A longer log changes nothing for what is in the scheduler. *)
LEMMA EmitSchedulerInv ==
    ASSUME FirehoseTypeOK, SchedulerInv, NEW c \in Commit, Emit(c)
    PROVE  SchedulerInv'
  <1> USE DEF Emit, stream, scheduler, ghosts, Nothing
  <1>0. /\ UNCHANGED <<session, pos, held, present, waiting, task>>
        /\ Connected' <=> Connected
        /\ SchedulerEmpty' <=> SchedulerEmpty
    BY DEF Connected, SchedulerEmpty
  <1>1. \A s \in 1..Len(log) : RepoOf(s)' = RepoOf(s)
    BY EmitAppends DEF RepoOf
  <1>2. held # Nothing => RepoOf(held)' = RepoOf(held)
    BY <1>0, <1>1, InTheLog DEF RepoOf
  <1>3. \A w \in Worker : task[w] # Nothing => RepoOf(task[w])' = RepoOf(task[w])
    BY <1>0, <1>1, InTheLog DEF RepoOf
  <1>4. \A r \in Repo : \A i \in 1..Len(waiting[r]) :
            RepoOf(waiting[r][i])' = RepoOf(waiting[r][i])
    BY <1>0, <1>1, InTheLog DEF RepoOf
  <1>5. \A r \in Repo : InHand(r)' <=> InHand(r)
    BY <1>0, <1>2, <1>3 DEF InHand
  <1>6. EntriesInHand'
    BY <1>0, <1>5 DEF SchedulerInv, EntriesInHand
  <1>7. HeldIsNewest'
    BY <1>0, <1>2 DEF SchedulerInv, HeldIsNewest
  <1>8. AlreadyRead' /\ EmptyUnlessConnected'
    BY <1>0 DEF SchedulerInv, AlreadyRead, EmptyUnlessConnected
  <1>9. RepoOrder'
    <2>1. RepoOrder
      BY DEF SchedulerInv
    <2>2. \A v, w \in Worker :
              task'[v] # 0 /\ task'[w] # 0 /\ RepoOf(task[v])' = RepoOf(task[w])' => v = w
      BY <1>0, <1>3, <2>1 DEF RepoOrder
    <2>3. held' # 0 => \A w \in Worker :
              task'[w] # 0 => RepoOf(task[w])' # RepoOf(held)'
      BY <1>0, <1>2, <1>3, <2>1 DEF RepoOrder
    <2>4. \A r \in Repo : \A i, j \in 1..Len(waiting'[r]) :
              /\ RepoOf(waiting[r][i])' = r
              /\ i < j => waiting'[r][i] < waiting'[r][j]
      BY <1>0, <1>4, <2>1 DEF RepoOrder
    <2>5. \A w \in Worker : task'[w] # 0 =>
              \A i \in 1..Len(waiting'[RepoOf(task[w])']) :
                  task'[w] < waiting'[RepoOf(task[w])'][i]
      BY <1>0, <1>3, <2>1 DEF RepoOrder
    <2> QED
      BY <2>2, <2>3, <2>4, <2>5 DEF RepoOrder
  <1>10. NoOrphan'
    BY <1>0, <1>3 DEF SchedulerInv, NoOrphan
  <1> QED
    BY <1>6, <1>7, <1>8, <1>9, <1>10 DEF SchedulerInv
(***************************************************************************)
(* Connecting finds the scheduler empty, losing the connection leaves it   *)
(* to drain, and Run only returns once it is empty: then no commit is      *)
(* waiting, for want of a worker that would come back to it.               *)
(***************************************************************************)
LEMMA ConnectionSchedulerInv ==
    ASSUME FirehoseTypeOK, SchedulerInv,
           \/ \E cursor \in 0..Len(log) : Connect(cursor)
           \/ ConnectFails \/ BackoffOver \/ Drop \/ Drained
    PROVE  SchedulerInv'
  <1> USE DEF stream, scheduler, ghosts, Nothing
  <1>1. UNCHANGED <<log, held, present, waiting, task>>
    BY DEF Connect, ConnectFails, BackoffOver, Drop, Drained
  <1>2. \/ pos' = pos
        \/ SchedulerEmpty /\ (\A r \in Repo : waiting[r] = <<>>) /\ pos' \in Nat
    BY DEF Connect, ConnectFails, BackoffOver, Drop, Drained, SchedulerInv,
           EmptyUnlessConnected, Connected, FirehoseTypeOK
  <1>3. EntriesInHand' /\ NoOrphan' /\ RepoOrder'
    <2>1. \A s : RepoOf(s)' = RepoOf(s)
      BY <1>1 DEF RepoOf
    <2>2. \A r \in Repo : InHand(r)' <=> InHand(r)
      BY <1>1 DEF InHand, RepoOf
    <2>3. EntriesInHand'
      BY <1>1, <2>2 DEF SchedulerInv, EntriesInHand
    <2>4. NoOrphan'
      BY <1>1 DEF SchedulerInv, NoOrphan, RepoOf
    <2>5. RepoOrder'
      BY <1>1 DEF SchedulerInv, RepoOrder, RepoOf
    <2> QED
      BY <2>3, <2>4, <2>5
  <1>4. HeldIsNewest'
    BY <1>1, <1>2 DEF SchedulerInv, HeldIsNewest, SchedulerEmpty, RepoOf
  <1>5. AlreadyRead'
    BY <1>1, <1>2 DEF SchedulerInv, AlreadyRead, SchedulerEmpty
  <1>6. EmptyUnlessConnected'
    <2>1. SUFFICES ASSUME ~Connected'
                   PROVE  SchedulerEmpty /\ \A r \in Repo : waiting[r] = <<>>
      BY <1>1 DEF EmptyUnlessConnected, SchedulerEmpty
    <2>2. CASE ~Connected
      BY <2>2 DEF SchedulerInv, EmptyUnlessConnected
    <2>3. CASE Connected
      <3>1. Drained
        BY <2>1, <2>3 DEF Connect, ConnectFails, BackoffOver, Drop, Connected
      <3> QED
        BY <3>1 DEF Drained, SchedulerInv, NoOrphan, SchedulerEmpty
    <2> QED
      BY <2>2, <2>3
  <1> QED
    BY <1>3, <1>4, <1>5, <1>6 DEF SchedulerInv

(***************************************************************************)
(* Reading: the new commit is later than all in the scheduler, and goes    *)
(* behind those of its repo or, if there are none, to the reader's hand.   *)
(***************************************************************************)
LEMMA ReadSchedulerInv ==
    ASSUME FirehoseTypeOK, SchedulerInv, Read
    PROVE  SchedulerInv'
  <1> USE DEF Nothing
  <1> DEFINE n == pos + 1
             r == RepoOf(n)
  <1>1. /\ n \in 1..Len(log) /\ pos' = n /\ n > pos
        /\ held = 0 /\ session = "streaming"
        /\ UNCHANGED <<log, session, task>>
    BY DEF Read, FirehoseTypeOK
  <1>2. r \in Repo
    BY <1>1, RepoOfType
  <1>3. Connected'
    BY <1>1 DEF Connected
  <1>4. \A s : RepoOf(s)' = RepoOf(s)
    BY <1>1 DEF RepoOf
  <1>5. EmptyUnlessConnected'
    BY <1>3 DEF EmptyUnlessConnected
  <1>6. CASE r \in present
    <2>1. /\ held' = 0 /\ present' = present
          /\ waiting' = [waiting EXCEPT ![r] = Append(@, n)]
      BY <1>1, <1>6 DEF Read
    <2>2. \A q \in Repo : q # r => waiting'[q] = waiting[q]
      BY <2>1 DEF FirehoseTypeOK
    <2>3. /\ Len(waiting'[r]) = Len(waiting[r]) + 1
          /\ waiting'[r][Len(waiting[r]) + 1] = n
          /\ \A i \in 1..Len(waiting[r]) : waiting'[r][i] = waiting[r][i]
          /\ Len(waiting[r]) \in Nat
      <3>1. waiting[r] \in Seq(Nat \ {0}) /\ waiting'[r] = Append(waiting[r], n)
        BY <1>2, <2>1 DEF FirehoseTypeOK
      <3> QED
        BY <3>1
    <2>4. EntriesInHand'
      BY <1>1, <2>1 DEF SchedulerInv, EntriesInHand, InHand, RepoOf
    <2>5. HeldIsNewest'
      BY <2>1 DEF HeldIsNewest
    <2>6. AlreadyRead'
      <3>1. \A w \in Worker : task[w] <= n
        BY <1>1 DEF SchedulerInv, AlreadyRead, FirehoseTypeOK
      <3>2. ASSUME NEW q \in Repo, NEW i \in 1..Len(waiting'[q])
            PROVE  waiting'[q][i] <= n
        <4>1. CASE q # r
          BY <1>1, <2>2, <4>1 DEF SchedulerInv, AlreadyRead, FirehoseTypeOK
        <4>2. CASE q = r /\ i # Len(waiting[r]) + 1
          <5>1. i \in 1..Len(waiting[r]) /\ waiting'[r][i] = waiting[r][i]
            BY <2>3, <4>2
          <5>2. waiting[r][i] \in Nat /\ waiting[r][i] <= pos
            BY <1>2, <5>1 DEF SchedulerInv, AlreadyRead, FirehoseTypeOK
          <5> QED
            BY <1>1, <4>2, <5>1, <5>2 DEF FirehoseTypeOK
        <4>3. CASE q = r /\ i = Len(waiting[r]) + 1
          BY <1>1, <2>3, <4>3
        <4> QED
          BY <4>1, <4>2, <4>3
      <3> QED
        BY <1>1, <3>1, <3>2 DEF AlreadyRead
    <2>7. NoOrphan'
      <3>1. \E w \in Worker : task[w] # 0 /\ RepoOf(task[w]) = r
        BY <1>1, <1>2, <1>6 DEF SchedulerInv, EntriesInHand, InHand
      <3>2. ASSUME NEW q \in Repo, waiting'[q] # <<>>
            PROVE  \E w \in Worker : task[w] # 0 /\ RepoOf(task[w]) = q
        BY <2>2, <3>1, <3>2 DEF SchedulerInv, NoOrphan
      <3> QED
        BY <1>1, <3>2 DEF NoOrphan, RepoOf
    <2>8. RepoOrder'
      <3>1. ASSUME NEW q \in Repo, NEW i \in 1..Len(waiting'[q])
            PROVE  RepoOf(waiting'[q][i]) = q
        BY <2>2, <2>3 DEF SchedulerInv, RepoOrder
      <3>2. ASSUME NEW q \in Repo, NEW i \in 1..Len(waiting'[q]),
                   NEW j \in 1..Len(waiting'[q]), i < j
            PROVE  waiting'[q][i] < waiting'[q][j]
        <4>1. CASE q # r
          BY <2>2, <3>2, <4>1 DEF SchedulerInv, RepoOrder
        <4>2. CASE q = r
          <5>1. i \in 1..Len(waiting[r]) /\ waiting'[r][i] = waiting[r][i]
            BY <2>3, <3>2, <4>2
          <5>2. waiting[r][i] \in Nat /\ waiting[r][i] <= pos
            BY <1>2, <5>1 DEF SchedulerInv, AlreadyRead, FirehoseTypeOK
          <5>3. CASE j = Len(waiting[r]) + 1
            BY <1>1, <2>3, <4>2, <5>1, <5>2, <5>3 DEF FirehoseTypeOK
          <5>4. CASE j # Len(waiting[r]) + 1
            <6>1. j \in 1..Len(waiting[r]) /\ waiting'[r][j] = waiting[r][j]
              BY <2>3, <4>2, <5>4
            <6> QED
              BY <1>2, <3>2, <4>2, <5>1, <6>1 DEF SchedulerInv, RepoOrder
          <5> QED
            BY <5>3, <5>4
        <4> QED
          BY <4>1, <4>2
      <3>3. ASSUME NEW w \in Worker, task[w] # 0,
                   NEW i \in 1..Len(waiting'[RepoOf(task[w])])
            PROVE  task[w] < waiting'[RepoOf(task[w])][i]
        <4>1. task[w] \in Nat /\ task[w] <= pos /\ RepoOf(task[w]) \in Repo
          BY <3>3, InTheLog, RepoOfType DEF SchedulerInv, AlreadyRead, FirehoseTypeOK
        <4>2. CASE RepoOf(task[w]) # r
          BY <2>2, <3>3, <4>1, <4>2 DEF SchedulerInv, RepoOrder
        <4>3. CASE RepoOf(task[w]) = r /\ i = Len(waiting[r]) + 1
          BY <1>1, <2>3, <4>1, <4>3 DEF FirehoseTypeOK
        <4>4. CASE RepoOf(task[w]) = r /\ i # Len(waiting[r]) + 1
          <5>1. i \in 1..Len(waiting[r]) /\ waiting'[r][i] = waiting[r][i]
            BY <2>3, <4>4
          <5> QED
            BY <3>3, <4>4, <5>1 DEF SchedulerInv, RepoOrder
        <4> QED
          BY <4>2, <4>3, <4>4
      <3>4. \A v, w \in Worker :
                task[v] # 0 /\ task[w] # 0 /\ RepoOf(task[v]) = RepoOf(task[w])
                    => v = w
        BY DEF SchedulerInv, RepoOrder
      <3> QED
        BY <1>1, <2>1, <3>1, <3>2, <3>3, <3>4 DEF RepoOrder, RepoOf
    <2> QED
      BY <1>5, <2>4, <2>5, <2>6, <2>7, <2>8 DEF SchedulerInv
  <1>7. CASE r \notin present
    <2>1. /\ held' = n /\ present' = present \cup {r}
          /\ waiting' = waiting
      BY <1>1, <1>7 DEF Read
    <2>2. waiting[r] = <<>> /\ \A w \in Worker : task[w] # 0 => RepoOf(task[w]) # r
      BY <1>2, <1>7 DEF SchedulerInv, EntriesInHand, InHand, NoOrphan
    <2>3. EntriesInHand'
      <3>1. \A q \in Repo : InHand(q)' <=> (q = r \/ InHand(q))
        BY <1>1, <2>1 DEF InHand, RepoOf
      <3> QED
        BY <2>1, <3>1 DEF SchedulerInv, EntriesInHand
    <2>4. HeldIsNewest'
      BY <1>1, <2>1, <2>2 DEF HeldIsNewest, RepoOf
    <2>5. AlreadyRead'
      BY <1>1, <2>1 DEF SchedulerInv, AlreadyRead, FirehoseTypeOK
    <2>6. NoOrphan'
      BY <1>1, <2>1 DEF SchedulerInv, NoOrphan, RepoOf
    <2>7. RepoOrder'
      BY <1>1, <2>1, <2>2 DEF SchedulerInv, RepoOrder, RepoOf
    <2> QED
      BY <1>5, <2>3, <2>4, <2>5, <2>6, <2>7 DEF SchedulerInv
  <1> QED
    BY <1>6, <1>7
(* A worker that takes the commit in the reader's hand is the only one of its repo. *)
LEMMA DispatchSchedulerInv ==
    ASSUME FirehoseTypeOK, SchedulerInv, NEW w \in Worker, Dispatch(w)
    PROVE  SchedulerInv'
  <1> USE DEF Nothing
  <1>1. /\ held # 0 /\ held = pos /\ task[w] = 0
        /\ task' = [task EXCEPT ![w] = held]
        /\ held' = 0
        /\ UNCHANGED <<log, session, pos, present, waiting>>
    BY DEF Dispatch, stream, SchedulerInv, HeldIsNewest
  <1>2. /\ task'[w] = held
        /\ \A v \in Worker : v # w => task'[v] = task[v]
    BY <1>1 DEF FirehoseTypeOK
  <1>3. waiting[RepoOf(held)] = <<>>
    BY <1>1 DEF SchedulerInv, HeldIsNewest
  <1>4. \A r \in Repo : InHand(r)' <=> InHand(r)
    <2>1. ASSUME NEW r \in Repo, InHand(r) PROVE InHand(r)'
      BY <1>1, <1>2, <2>1 DEF InHand, RepoOf
    <2>2. ASSUME NEW r \in Repo, InHand(r)' PROVE InHand(r)
      BY <1>1, <1>2, <2>2 DEF InHand, RepoOf
    <2> QED
      BY <2>1, <2>2
  <1>5. EntriesInHand'
    BY <1>1, <1>4 DEF SchedulerInv, EntriesInHand
  <1>6. HeldIsNewest'
    BY <1>1 DEF HeldIsNewest
  <1>7. AlreadyRead'
    BY <1>1, <1>2 DEF SchedulerInv, AlreadyRead, FirehoseTypeOK
  <1>8. EmptyUnlessConnected'
    BY <1>1 DEF SchedulerInv, EmptyUnlessConnected, SchedulerEmpty, Connected
  <1>9. NoOrphan'
    <2>1. ASSUME NEW r \in Repo, waiting[r] # <<>>
          PROVE  \E v \in Worker : task'[v] # 0 /\ RepoOf(task'[v]) = r
      BY <1>1, <1>2, <2>1 DEF SchedulerInv, NoOrphan
    <2> QED
      BY <1>1, <2>1 DEF NoOrphan, RepoOf
  <1>10. RepoOrder'
    <2>1. \A u, v \in Worker :
              task'[u] # 0 /\ task'[v] # 0 /\ RepoOf(task'[u]) = RepoOf(task'[v])
                  => u = v
      BY <1>1, <1>2 DEF SchedulerInv, RepoOrder
    <2>2. \A v \in Worker : task'[v] # 0 =>
              \A i \in 1..Len(waiting[RepoOf(task'[v])]) :
                  task'[v] < waiting[RepoOf(task'[v])][i]
      <3>1. 1..Len(waiting[RepoOf(held)]) = {}
        BY <1>3
      <3> QED
        BY <1>1, <1>2, <3>1 DEF SchedulerInv, RepoOrder
    <2> QED
      BY <1>1, <2>1, <2>2 DEF SchedulerInv, RepoOrder, RepoOf
  <1> QED
    BY <1>5, <1>6, <1>7, <1>8, <1>9, <1>10 DEF SchedulerInv

(***************************************************************************)
(* A worker that has finished takes the oldest commit behind, or leaves    *)
(* nothing of its repo in the scheduler and no entry either.               *)
(***************************************************************************)
LEMMA FinishSchedulerInv ==
    ASSUME FirehoseTypeOK, SchedulerInv, NEW w \in Worker, Finish(w)
    PROVE  SchedulerInv'
  <1> USE DEF Nothing
  <1> DEFINE r == RepoOf(task[w])
             q == waiting[r]
  <1>1. /\ task[w] # 0 /\ task[w] \in 1..Len(log) /\ r \in Repo
        /\ UNCHANGED <<log, session, pos, held>>
    BY InTheLog, RepoOfType DEF Finish, stream
  <1>2. /\ \A v \in Worker : v # w /\ task[v] # 0 => RepoOf(task[v]) # r
        /\ held # 0 => RepoOf(held) # r
    BY <1>1 DEF SchedulerInv, RepoOrder
  <1>3. Connected
    BY <1>1 DEF SchedulerInv, EmptyUnlessConnected, SchedulerEmpty
  <1>4. EmptyUnlessConnected'
    BY <1>1, <1>3 DEF EmptyUnlessConnected, Connected
  <1>5. CASE q # <<>>
    <2>1. /\ task' = [task EXCEPT ![w] = Head(q)]
          /\ waiting' = [waiting EXCEPT ![r] = Tail(q)]
          /\ present' = present
      BY <1>5 DEF Finish
    <2>2. /\ q \in Seq(Nat \ {0}) /\ Len(q) > 0
          /\ Head(q) = q[1] /\ Len(Tail(q)) = Len(q) - 1
          /\ \A i \in 1..Len(Tail(q)) : Tail(q)[i] = q[i + 1]
      BY <1>1, <1>5 DEF FirehoseTypeOK
    <2>3. /\ task'[w] = q[1] /\ waiting'[r] = Tail(q)
          /\ \A v \in Worker : v # w => task'[v] = task[v]
          /\ \A s \in Repo : s # r => waiting'[s] = waiting[s]
      BY <1>1, <2>1, <2>2 DEF FirehoseTypeOK
    <2>4. /\ 1 \in 1..Len(q) /\ q[1] # 0 /\ q[1] \in Nat
          /\ \A i \in 1..Len(Tail(q)) : i + 1 \in 1..Len(q) /\ 1 < i + 1
      BY <2>2
    <2>5. /\ RepoOf(q[1]) = r
          /\ \A i \in 1..Len(Tail(q)) : RepoOf(Tail(q)[i]) = r /\ q[1] < Tail(q)[i]
      BY <1>1, <2>2, <2>4 DEF SchedulerInv, RepoOrder
    <2>6. EntriesInHand'
      <3>1. \A s \in Repo : InHand(s)' <=> InHand(s)
        <4>1. ASSUME NEW s \in Repo, InHand(s) PROVE InHand(s)'
          BY <1>1, <2>3, <2>4, <2>5, <4>1 DEF InHand, RepoOf
        <4>2. ASSUME NEW s \in Repo, InHand(s)' PROVE InHand(s)
          <5>1. CASE s = r
            BY <1>1, <5>1 DEF InHand
          <5>2. CASE s # r
            BY <1>1, <2>3, <2>4, <2>5, <4>2, <5>2 DEF InHand, RepoOf
          <5> QED
            BY <5>1, <5>2
        <4> QED
          BY <4>1, <4>2
      <3> QED
        BY <2>1, <3>1 DEF SchedulerInv, EntriesInHand
    <2>7. HeldIsNewest'
      <3>1. held # 0 => RepoOf(held) \in Repo
        BY InTheLog, RepoOfType
      <3> QED
        BY <1>1, <1>2, <2>3, <3>1 DEF SchedulerInv, HeldIsNewest, RepoOf
    <2>8. AlreadyRead'
      <3>1. \A v \in Worker : task'[v] <= pos
        BY <1>1, <2>3, <2>4 DEF SchedulerInv, AlreadyRead
      <3>2. \A i \in 1..Len(Tail(q)) : Tail(q)[i] <= pos
        BY <1>1, <2>2, <2>4 DEF SchedulerInv, AlreadyRead
      <3>3. \A s \in Repo : \A i \in 1..Len(waiting'[s]) : waiting'[s][i] <= pos
        BY <2>3, <3>2 DEF SchedulerInv, AlreadyRead
      <3> QED
        BY <1>1, <3>1, <3>3 DEF AlreadyRead
    <2>9. NoOrphan'
      <3>1. ASSUME NEW s \in Repo, waiting'[s] # <<>>
            PROVE  \E v \in Worker : task'[v] # 0 /\ RepoOf(task'[v]) = s
        <4>1. CASE s = r
          BY <2>3, <2>4, <2>5, <4>1
        <4>2. CASE s # r
          <5>1. PICK v \in Worker : task[v] # 0 /\ RepoOf(task[v]) = s
            BY <2>3, <3>1, <4>2 DEF SchedulerInv, NoOrphan
          <5>2. v # w
            BY <4>2, <5>1
          <5> QED
            BY <2>3, <5>1, <5>2
        <4> QED
          BY <4>1, <4>2
      <3> QED
        BY <1>1, <3>1 DEF NoOrphan, RepoOf
    <2>10. RepoOrder'
      <3>1. \A u, v \in Worker :
                task'[u] # 0 /\ task'[v] # 0 /\ RepoOf(task'[u]) = RepoOf(task'[v])
                    => u = v
        BY <1>2, <2>3, <2>5 DEF SchedulerInv, RepoOrder
      <3>2. held # 0 => \A v \in Worker :
                task'[v] # 0 => RepoOf(task'[v]) # RepoOf(held)
        BY <1>2, <2>3, <2>5 DEF SchedulerInv, RepoOrder
      <3>3. ASSUME NEW s \in Repo, NEW i \in 1..Len(waiting'[s]),
                   NEW j \in 1..Len(waiting'[s])
            PROVE  /\ RepoOf(waiting'[s][i]) = s
                   /\ i < j => waiting'[s][i] < waiting'[s][j]
        <4>1. CASE s = r
          <5>1. /\ i + 1 \in 1..Len(q) /\ j + 1 \in 1..Len(q)
                /\ i < j => i + 1 < j + 1
                /\ waiting'[s][i] = q[i + 1] /\ waiting'[s][j] = q[j + 1]
            <6>1. i \in 1..Len(Tail(q)) /\ j \in 1..Len(Tail(q))
              BY <2>3, <4>1
            <6>2. waiting'[s][i] = q[i + 1] /\ waiting'[s][j] = q[j + 1]
              BY <2>2, <2>3, <4>1, <6>1
            <6> QED
              BY <2>4, <6>1, <6>2
          <5> QED
            BY <1>1, <4>1, <5>1 DEF SchedulerInv, RepoOrder
        <4>2. CASE s # r
          BY <2>3, <4>2 DEF SchedulerInv, RepoOrder
        <4> QED
          BY <4>1, <4>2
      <3>4. ASSUME NEW v \in Worker, task'[v] # 0,
                   NEW i \in 1..Len(waiting'[RepoOf(task'[v])])
            PROVE  task'[v] < waiting'[RepoOf(task'[v])][i]
        <4>1. CASE v = w
          BY <2>3, <2>5, <3>4, <4>1
        <4>2. CASE v # w
          <5>1. task'[v] = task[v] /\ RepoOf(task[v]) # r /\ RepoOf(task[v]) \in Repo
            BY <1>2, <2>3, <3>4, <4>2, InTheLog, RepoOfType
          <5> QED
            BY <2>3, <3>4, <5>1 DEF SchedulerInv, RepoOrder
        <4> QED
          BY <4>1, <4>2
      <3> QED
        BY <1>1, <3>1, <3>2, <3>3, <3>4 DEF RepoOrder, RepoOf
    <2> QED
      BY <1>4, <2>6, <2>7, <2>8, <2>9, <2>10 DEF SchedulerInv
  <1>6. CASE q = <<>>
    <2>1. /\ task' = [task EXCEPT ![w] = 0]
          /\ present' = present \ {r}
          /\ waiting' = waiting
      BY <1>6 DEF Finish
    <2>2. /\ task'[w] = 0
          /\ \A v \in Worker : v # w => task'[v] = task[v]
      BY <2>1 DEF FirehoseTypeOK
    <2>3. EntriesInHand'
      <3>1. \A s \in Repo : InHand(s)' <=> (InHand(s) /\ s # r)
        BY <1>1, <1>2, <2>2 DEF InHand, RepoOf
      <3> QED
        BY <2>1, <3>1 DEF SchedulerInv, EntriesInHand
    <2>4. HeldIsNewest'
      BY <1>1, <2>1 DEF SchedulerInv, HeldIsNewest, RepoOf
    <2>5. AlreadyRead'
      BY <1>1, <2>1, <2>2 DEF SchedulerInv, AlreadyRead, FirehoseTypeOK
    <2>6. NoOrphan'
      <3>1. ASSUME NEW s \in Repo, waiting[s] # <<>>
            PROVE  \E v \in Worker : task'[v] # 0 /\ RepoOf(task'[v]) = s
        <4>1. PICK v \in Worker : task[v] # 0 /\ RepoOf(task[v]) = s
          BY <3>1 DEF SchedulerInv, NoOrphan
        <4>2. v # w
          BY <1>6, <3>1, <4>1
        <4> QED
          BY <2>2, <4>1, <4>2
      <3> QED
        BY <1>1, <2>1, <3>1 DEF NoOrphan, RepoOf
    <2>7. RepoOrder'
      BY <1>1, <2>1, <2>2 DEF SchedulerInv, RepoOrder, RepoOf
    <2> QED
      BY <1>4, <2>3, <2>4, <2>5, <2>6, <2>7 DEF SchedulerInv
  <1> QED
    BY <1>5, <1>6

(* A new process starts with an empty scheduler. *)
LEMMA RestartSchedulerInv ==
    ASSUME Restart
    PROVE  SchedulerInv'
  <1>1. (NewScheduler /\ pos \in Nat)'
    BY DEF Restart, NewScheduler
  <1>2. (NewScheduler /\ pos \in Nat => SchedulerInv)'
    BY EmptyScheduler, PTL
  <1> QED
    BY <1>1, <1>2

(* Every step of the connection and the scheduler keeps the invariant. *)
LEMMA SchedulerInvStep ==
    ASSUME FirehoseTypeOK, SchedulerInv, FirehoseStep
    PROVE  SchedulerInv'
  <1> QED
    BY RestartSchedulerInv, EmitSchedulerInv, ConnectionSchedulerInv, ReadSchedulerInv,
       DispatchSchedulerInv, FinishSchedulerInv DEF FirehoseStep

(* A step that leaves the connection and the scheduler alone does too. *)
LEMMA FirehoseStutter ==
    ASSUME FirehoseTypeOK, SchedulerInv, UNCHANGED fhVars
    PROVE  FirehoseTypeOK' /\ SchedulerInv'
  <1> USE DEF fhVars, stream, scheduler, ghosts
  <1>1. FirehoseTypeOK'
    BY DEF FirehoseTypeOK
  <1>2. SchedulerInv'
    BY DEF SchedulerInv, EntriesInHand, InHand, HeldIsNewest, AlreadyRead,
           EmptyUnlessConnected, SchedulerEmpty, Connected, RepoOrder,
           NoOrphan, RepoOf
  <1> QED
    BY <1>1, <1>2
-----------------------------------------------------------------------------
(* What enters and leaves the scheduler. *)

(* The set of what is in flight only depends on the scheduler. *)
LEMMA InFlightUnchanged ==
    ASSUME UNCHANGED <<log, held, waiting, task>>
    PROVE  InFlight' = InFlight
  BY DEF InFlight

(* A new commit of the network is not in flight before it is read. *)
LEMMA EmitInFlight ==
    ASSUME FirehoseTypeOK, SchedulerInv, NEW c \in Commit, Emit(c)
    PROVE  InFlight' = InFlight
  <1>1. Len(log') = Len(log) + 1 /\ Len(log) \in Nat
    BY EmitAppends DEF FirehoseTypeOK
  <1>2. UNCHANGED <<held, waiting, task>>
    BY DEF Emit, scheduler
  <1> QED
    BY <1>1, <1>2, InTheLog DEF InFlight, Nothing

(* Without a connection Run has returned, and the scheduler was emptied. *)
LEMMA NothingInFlight ==
    ASSUME SchedulerInv, ~Connected
    PROVE  InFlight = {}
  BY DEF SchedulerInv, EmptyUnlessConnected, SchedulerEmpty, InFlight, Nothing

(* Only the commit just read enters, and nothing leaves. *)
LEMMA ReadInFlight ==
    ASSUME FirehoseTypeOK, SchedulerInv, Read
    PROVE  InFlight' = InFlight \cup {pos'}
  <1> USE DEF Nothing
  <1> DEFINE n == pos + 1
             r == RepoOf(n)
  <1>1. /\ n \in 1..Len(log) /\ pos' = n /\ held = 0
        /\ UNCHANGED <<log, task>> /\ r \in Repo
    BY RepoOfType DEF Read, FirehoseTypeOK
  <1>2. CASE r \in present
    <2>1. /\ held' = 0 /\ waiting' = [waiting EXCEPT ![r] = Append(@, n)]
      BY <1>1, <1>2 DEF Read
    <2>2. \A q \in Repo : q # r => waiting'[q] = waiting[q]
      BY <2>1 DEF FirehoseTypeOK
    <2>3. waiting[r] \in Seq(Nat \ {0}) /\ waiting'[r] = Append(waiting[r], n)
      BY <1>1, <2>1 DEF FirehoseTypeOK
    <2>4. ASSUME NEW s \in InFlight' PROVE s \in InFlight \cup {n}
      <3>1. CASE \E i \in 1..Len(waiting'[r]) : s = waiting'[r][i]
        BY <1>1, <2>3, <2>4, <3>1 DEF InFlight
      <3> QED
        BY <1>1, <2>1, <2>2, <2>4, <3>1 DEF InFlight
    <2>5. n \in InFlight'
      <3>1. /\ Len(waiting[r]) + 1 \in 1..Len(waiting'[r])
            /\ waiting'[r][Len(waiting[r]) + 1] = n
        BY <2>3
      <3> QED
        BY <1>1, <3>1 DEF InFlight
    <2>6. ASSUME NEW s \in InFlight PROVE s \in InFlight'
      <3>1. CASE \E i \in 1..Len(waiting[r]) : s = waiting[r][i]
        <4>1. PICK i \in 1..Len(waiting[r]) : s = waiting[r][i]
          BY <3>1
        <4>2. i \in 1..Len(waiting'[r]) /\ waiting'[r][i] = s
          BY <2>3, <4>1
        <4> QED
          BY <1>1, <2>6, <4>2 DEF InFlight
      <3> QED
        BY <1>1, <2>1, <2>2, <2>6, <3>1 DEF InFlight
    <2> QED
      BY <1>1, <2>4, <2>5, <2>6
  <1>3. CASE r \notin present
    BY <1>1, <1>3 DEF Read, InFlight
  <1> QED
    BY <1>2, <1>3

(* The commit in the reader's hand stays in the scheduler. *)
LEMMA DispatchInFlight ==
    ASSUME FirehoseTypeOK, NEW w \in Worker, Dispatch(w)
    PROVE  InFlight' = InFlight
  <1> USE DEF Nothing
  <1>1. /\ held # 0 /\ held' = 0 /\ task[w] = 0 /\ UNCHANGED <<log, waiting>>
        /\ task'[w] = held /\ \A v \in Worker : v # w => task'[v] = task[v]
    BY DEF Dispatch, FirehoseTypeOK
  <1>2. ASSUME NEW s \in InFlight PROVE s \in InFlight'
    BY <1>1, <1>2 DEF InFlight
  <1>3. ASSUME NEW s \in InFlight' PROVE s \in InFlight
    BY <1>1, <1>3 DEF InFlight
  <1> QED
    BY <1>2, <1>3

(* Only the finished commit leaves. *)
LEMMA FinishInFlight ==
    ASSUME FirehoseTypeOK, SchedulerInv, NEW w \in Worker, Finish(w)
    PROVE  /\ InFlight \ {task[w]} \subseteq InFlight'
           /\ InFlight' \subseteq InFlight
           /\ task[w] \notin InFlight'
  <1> USE DEF Nothing
  <1> DEFINE r == RepoOf(task[w])
             q == waiting[r]
  <1>1. /\ task[w] # 0 /\ r \in Repo /\ UNCHANGED <<log, held>>
        /\ \A v \in Worker : v # w => task'[v] = task[v]
        /\ \A p \in Repo : p # r => waiting'[p] = waiting[p]
    BY InTheLog, RepoOfType DEF Finish, FirehoseTypeOK
  <1>2. ASSUME q # <<>>
        PROVE  InFlight \ {task[w]} \subseteq InFlight' /\ InFlight' \subseteq InFlight
    <2>1. task'[w] = Head(q) /\ waiting'[r] = Tail(q)
      BY <1>1, <1>2 DEF Finish, FirehoseTypeOK
    <2>2. /\ q \in Seq(Nat \ {0}) /\ 1 \in 1..Len(q) /\ task'[w] = q[1]
          /\ Len(waiting'[r]) = Len(q) - 1
          /\ \A i \in 1..Len(q) - 1 : waiting'[r][i] = q[i + 1]
      BY <1>1, <1>2, <2>1 DEF FirehoseTypeOK
    <2>3. ASSUME NEW s \in InFlight', s # task'[w],
                 \E i \in 1..Len(waiting'[r]) : s = waiting'[r][i]
          PROVE  s \in InFlight
      <3>1. PICK i \in 1..Len(waiting'[r]) : s = waiting'[r][i]
        BY <2>3
      <3>2. Len(q) \in Nat /\ i \in 1..Len(q) - 1
        BY <2>2, <3>1
      <3>3. i + 1 \in 1..Len(q)
        BY <3>2
      <3>4. s = q[i + 1]
        BY <2>2, <3>1, <3>2
      <3> QED
        BY <1>1, <2>3, <3>3, <3>4 DEF InFlight
    <2>4. ASSUME NEW s \in InFlight' PROVE s \in InFlight
      <3>1. CASE s = task'[w]
        BY <1>1, <2>2, <2>4, <3>1 DEF InFlight
      <3>2. CASE \E i \in 1..Len(waiting'[r]) : s = waiting'[r][i]
        BY <2>3, <2>4, <3>1, <3>2
      <3>3. CASE s # task'[w] /\ ~\E i \in 1..Len(waiting'[r]) : s = waiting'[r][i]
        BY <1>1, <2>4, <3>3 DEF InFlight
      <3> QED
        BY <3>1, <3>2, <3>3
    <2>5. ASSUME NEW s \in InFlight, \E i \in 1..Len(q) : s = q[i]
          PROVE  s \in InFlight'
      <3>1. PICK i \in 1..Len(q) : s = q[i]
        BY <2>5
      <3>2. CASE i = 1
        BY <1>1, <2>2, <2>5, <3>1, <3>2 DEF InFlight
      <3>3. CASE i # 1
        <4>1. Len(q) \in Nat /\ i - 1 \in 1..Len(q) - 1 /\ (i - 1) + 1 = i
          BY <2>2, <3>1, <3>3
        <4>2. waiting'[r][i - 1] = s
          BY <2>2, <3>1, <4>1
        <4> QED
          BY <1>1, <2>2, <2>5, <4>1, <4>2 DEF InFlight
      <3> QED
        BY <3>2, <3>3
    <2>6. ASSUME NEW s \in InFlight, s # task[w] PROVE s \in InFlight'
      BY <1>1, <2>5, <2>6 DEF InFlight
    <2> QED
      BY <2>4, <2>6
  <1>3. ASSUME q = <<>>
        PROVE  InFlight \ {task[w]} \subseteq InFlight' /\ InFlight' \subseteq InFlight
    <2>1. task'[w] = 0 /\ waiting' = waiting
      BY <1>3 DEF Finish, FirehoseTypeOK
    <2>2. ASSUME NEW s \in InFlight' PROVE s \in InFlight
      BY <1>1, <2>1, <2>2 DEF InFlight
    <2>3. ASSUME NEW s \in InFlight, s # task[w] PROVE s \in InFlight'
      BY <1>1, <2>1, <2>3 DEF InFlight
    <2> QED
      BY <2>2, <2>3
  <1>4. task[w] \notin InFlight'
    <2>1. SUFFICES ASSUME task[w] \in InFlight' PROVE FALSE
      OBVIOUS
    <2>3. \A v \in Worker : task'[v] # task[w]
      <3>1. CASE q # <<>>
        <4>1. task'[w] = q[1] /\ 1 \in 1..Len(q)
          BY <1>1, <3>1 DEF Finish, FirehoseTypeOK
        <4>2. task'[w] # task[w]
          BY <1>1, <4>1 DEF SchedulerInv, RepoOrder, FirehoseTypeOK
        <4> QED
          BY <1>1, <4>2 DEF SchedulerInv, RepoOrder
      <3>2. CASE q = <<>>
        <4>1. task'[w] # task[w]
          BY <1>1, <3>2 DEF Finish, FirehoseTypeOK
        <4> QED
          BY <1>1, <4>1 DEF SchedulerInv, RepoOrder
      <3> QED
        BY <3>1, <3>2
    <2>4. held # task[w]
      BY <1>1 DEF SchedulerInv, RepoOrder
    <2>5. ASSUME NEW p \in Repo, NEW i \in 1..Len(waiting[p])
          PROVE  waiting[p][i] # task[w]
      <3>1. CASE p = r
        BY <1>1, <2>5, <3>1 DEF SchedulerInv, RepoOrder, FirehoseTypeOK
      <3>2. CASE p # r
        BY <2>5, <3>2 DEF SchedulerInv, RepoOrder
      <3> QED
        BY <3>1, <3>2
    <2>6. ASSUME NEW p \in Repo, NEW i \in 1..Len(waiting'[p])
          PROVE  waiting'[p][i] # task[w]
      <3>1. CASE q = <<>> \/ p # r
        BY <1>1, <2>5, <3>1 DEF Finish
      <3>2. CASE q # <<>> /\ p = r
        <4>1. waiting'[r] = Tail(q) /\ q \in Seq(Nat \ {0})
          BY <1>1, <3>2 DEF Finish, FirehoseTypeOK
        <4>2. Len(q) \in Nat /\ i \in 1..Len(q) - 1 /\ waiting'[r][i] = q[i + 1]
          BY <2>6, <3>2, <4>1
        <4>3. i + 1 \in 1..Len(q)
          BY <4>2
        <4> QED
          BY <1>1, <2>5, <3>2, <4>2, <4>3
      <3> QED
        BY <3>1, <3>2
    <2> QED
      BY <1>1, <2>1, <2>3, <2>4, <2>6 DEF InFlight
  <1> QED
    BY <1>2, <1>3, <1>4

(* A single worker handles the oldest commit in the scheduler. *)
LEMMA SingleWorkerOldest ==
    ASSUME FirehoseTypeOK, SchedulerInv, NEW w \in Worker, Worker = {w},
           task[w] # Nothing, NEW s \in InFlight, s # task[w]
    PROVE  task[w] < s
  <1> USE DEF Nothing
  <1>1. CASE s = held
    <2>1. held # 0 /\ held = pos /\ task[w] <= pos
      BY <1>1 DEF InFlight, SchedulerInv, HeldIsNewest, AlreadyRead
    <2> QED
      BY <1>1, <2>1 DEF FirehoseTypeOK
  <1>2. CASE \E r \in Repo : \E i \in 1..Len(waiting[r]) : s = waiting[r][i]
    <2>1. PICK r \in Repo : \E i \in 1..Len(waiting[r]) : s = waiting[r][i]
      BY <1>2
    <2>2. waiting[r] # <<>>
      BY <2>1
    <2>3. RepoOf(task[w]) = r
      BY <2>2 DEF SchedulerInv, NoOrphan
    <2> QED
      BY <2>1, <2>3 DEF SchedulerInv, RepoOrder
  <1> QED
    BY <1>1, <1>2 DEF InFlight

-----------------------------------------------------------------------------
(***************************************************************************)
(* Connection and scheduler keep what Delivery promises their caller: each *)
(* of their steps is one of Delivery's or none of its business.            *)
(***************************************************************************)
Due == InFlight \ Doing

promised == <<log, pos, Due, Doing>>

-----------------------------------------------------------------------------
(* Where what is due is found, and who handles what is not. *)

(* A commit has one place in the scheduler. *)
LEMMA OnePlace ==
    ASSUME FirehoseTypeOK, SchedulerInv
    PROVE  /\ Doing \subseteq InFlight
           /\ \A s \in Doing : s \in 1..Len(log) /\ s <= pos
           /\ \A v, w \in Worker : task[v] # Nothing /\ task[v] = task[w] => v = w
           /\ held # Nothing => held \in Due
           /\ \A r \in Repo : \A i \in 1..Len(waiting[r]) : waiting[r][i] \in Due
  <1> USE DEF Nothing
  <1>1. \A s \in Doing : s \in 1..Len(log) /\ s <= pos
    BY InTheLog DEF Doing, SchedulerInv, AlreadyRead
  <1>2. Doing \subseteq InFlight
    BY <1>1 DEF Doing, InFlight
  <1>3. held # 0 => held \in Due
    BY InTheLog DEF Due, Doing, InFlight, SchedulerInv, RepoOrder
  <1>4. ASSUME NEW r \in Repo, NEW i \in 1..Len(waiting[r])
        PROVE  waiting[r][i] \in Due
    <2>1. waiting[r][i] \in InFlight /\ RepoOf(waiting[r][i]) = r
      BY InTheLog DEF InFlight, SchedulerInv, RepoOrder
    <2>2. ASSUME NEW w \in Worker, task[w] # 0, task[w] = waiting[r][i]
          PROVE  FALSE
      <3>1. task[w] < waiting[r][i]
        BY <2>1, <2>2 DEF SchedulerInv, RepoOrder
      <3> QED
        BY <2>2, <3>1 DEF FirehoseTypeOK
    <2> QED
      BY <2>1, <2>2 DEF Due, Doing
  <1>5. \A v, w \in Worker : task[v] # 0 /\ task[v] = task[w] => v = w
    BY DEF SchedulerInv, RepoOrder
  <1> QED
    BY <1>1, <1>2, <1>3, <1>4, <1>5

(* What is in flight was read, over a connection that still works on it. *)
LEMMA FlightRead ==
    ASSUME FirehoseTypeOK, SchedulerInv
    PROVE  /\ InFlight \subseteq 1..pos
           /\ InFlight # {} => Connected
           /\ \A w \in Worker : task[w] # Nothing => task[w] \in InFlight
  <1>1. Len(log) \in Nat /\ pos \in 0..Len(log)
    BY DEF FirehoseTypeOK
  <1>2. ASSUME NEW s \in InFlight PROVE s <= pos
    BY <1>1 DEF InFlight, SchedulerInv, HeldIsNewest, AlreadyRead, Nothing
  <1>3. InFlight # {} => Connected
    BY NothingInFlight
  <1>4. \A w \in Worker : task[w] # Nothing => task[w] \in InFlight
    BY InTheLog DEF InFlight
  <1>5. InFlight \subseteq 1..pos
    BY <1>1, <1>2 DEF InFlight
  <1> QED
    BY <1>3, <1>4, <1>5

(* A worker has the oldest commit of its repo in flight. *)
LEMMA TaskOldest ==
    ASSUME FirehoseTypeOK, SchedulerInv,
           NEW w \in Worker, task[w] # Nothing,
           NEW s \in InFlight, RepoOf(s) = RepoOf(task[w])
    PROVE  task[w] <= s
  <1> USE DEF SchedulerInv, RepoOrder
  <1>1. task[w] \in 1..Len(log) /\ s \in 1..Len(log)
    BY InTheLog DEF InFlight
  <1>2. RepoOf(task[w]) \in Repo
    BY <1>1, RepoOfType
  <1>3. CASE s = held
    BY <1>1, <1>3 DEF Nothing
  <1>4. CASE \E v \in Worker : s = task[v]
    <2>1. PICK v \in Worker : s = task[v]
      BY <1>4
    <2>2. v = w
      BY <1>1, <2>1 DEF Nothing
    <2> QED
      BY <1>1, <2>1, <2>2
  <1>5. CASE \E r \in Repo : \E i \in 1..Len(waiting[r]) : s = waiting[r][i]
    <2>1. PICK r \in Repo : \E i \in 1..Len(waiting[r]) : s = waiting[r][i]
      BY <1>5
    <2>2. r = RepoOf(task[w])
      BY <2>1
    <2>3. task[w] < s
      BY <2>1, <2>2
    <2> QED
      BY <1>1, <2>3
  <1> QED
    BY <1>3, <1>4, <1>5 DEF InFlight

(* What is due waits in the entry of its repo, or in the reader's hand. *)
LEMMA DueWaits ==
    ASSUME FirehoseTypeOK, SchedulerInv, NEW s \in Due, s # held
    PROVE  /\ RepoOf(s) \in Repo
           /\ \E i \in 1..Len(waiting[RepoOf(s)]) : s = waiting[RepoOf(s)][i]
  <1>1. s \in 1..Len(log)
    BY DEF Due, InFlight
  <1>2. ~\E w \in Worker : s = task[w]
    BY <1>1 DEF Due, Doing, Nothing
  <1>3. PICK r \in Repo : \E i \in 1..Len(waiting[r]) : s = waiting[r][i]
    BY <1>2 DEF Due, InFlight
  <1>4. RepoOf(s) = r
    BY <1>3 DEF SchedulerInv, RepoOrder
  <1> QED
    BY <1>3, <1>4

(* What only depends on the scheduler stays while it does. *)
LEMMA PromisedUnchanged ==
    ASSUME UNCHANGED <<log, pos, held, waiting, task>>
    PROVE  UNCHANGED promised
  BY DEF promised, Due, Doing, InFlight

-----------------------------------------------------------------------------
(* The relay and the connection. *)

(* A new commit is not due before it is read. *)
LEMMA EmitDelivers ==
    ASSUME FirehoseTypeOK, SchedulerInv, NEW c \in Commit, Emit(c)
    PROVE  Promise!Emit
  <1>1. UNCHANGED <<pos, held, waiting, task>>
    BY DEF Emit, stream, scheduler
  <1> QED
    BY <1>1, EmitInFlight DEF Promise!Emit, Emit, Doing

(* Without a connection the scheduler is empty, and one may be made. *)
LEMMA ConnectDelivers ==
    ASSUME FirehoseTypeOK, SchedulerInv, NEW cursor \in 0..Len(log), Connect(cursor)
    PROVE  Promise!Join
  <1>1. UNCHANGED <<log, held, waiting, task>> /\ ~Connected
    BY DEF Connect, Connected, scheduler
  <1>2. InFlight = {} /\ Doing = {}
    BY <1>1 DEF SchedulerInv, EmptyUnlessConnected, SchedulerEmpty, InFlight, Doing,
                Nothing
  <1>3. UNCHANGED <<InFlight, Doing>>
    BY <1>1 DEF InFlight, Doing
  <1>4. pos' \in 0..Len(log)
    BY DEF Connect, FirehoseTypeOK
  <1> QED
    BY <1>1, <1>2, <1>3, <1>4 DEF Promise!Join

(* What is read becomes due. *)
LEMMA ReadDelivers ==
    ASSUME FirehoseTypeOK, SchedulerInv, Read
    PROVE  Promise!Read
  <1>1. /\ InFlight' = InFlight \cup {pos'} /\ pos' = pos + 1 /\ pos < Len(log)
        /\ UNCHANGED <<log, task>>
    BY ReadInFlight DEF Read
  <1>2. Doing' = Doing
    BY <1>1 DEF Doing
  <1>3. pos' \notin Doing
    BY <1>1, OnePlace DEF FirehoseTypeOK
  <1> QED
    BY <1>1, <1>2, <1>3 DEF Promise!Read

(* The end of the process ends everything. *)
LEMMA RestartDelivers ==
    ASSUME Restart
    PROVE  Promise!Crash
  <1>1. InFlight' = {} /\ Doing' = {}
    BY DEF Restart, InFlight, Doing, Nothing
  <1> QED
    BY <1>1 DEF Promise!Crash, Restart

-----------------------------------------------------------------------------
(* The scheduler. *)

(* The commit in the reader's hand is the oldest due of its repo. *)
LEMMA DispatchDelivers ==
    ASSUME FirehoseTypeOK, SchedulerInv, NEW w \in Worker, Dispatch(w)
    PROVE  held \in Due /\ Promise!Begin(held)
  <1>1. /\ held # Nothing /\ task[w] = Nothing /\ task'[w] = held
        /\ \A v \in Worker : v # w => task'[v] = task[v]
        /\ UNCHANGED <<log, pos>>
    BY DEF Dispatch, stream, FirehoseTypeOK
  <1>2. held \in Due
    BY <1>1, OnePlace
  <1>3. Doing' = Doing \cup {held}
    BY <1>1 DEF Doing, Nothing
  <1>4. \A t \in Due : Promise!SameRepo(held, t) => held <= t
    <2>1. ASSUME NEW t \in Due, RepoOf(held) = RepoOf(t), t # held
          PROVE  FALSE
      <3>1. waiting[RepoOf(held)] = <<>>
        BY <1>1 DEF SchedulerInv, HeldIsNewest
      <3> QED
        BY <2>1, <3>1, DueWaits
    <2>2. held \in Nat
      BY DEF FirehoseTypeOK
    <2> QED
      BY <2>1, <2>2 DEF Promise!SameRepo, RepoOf
  <1>5. \A t \in Doing : ~Promise!SameRepo(held, t)
    BY <1>1 DEF Doing, SchedulerInv, RepoOrder, Promise!SameRepo, RepoOf
  <1>6. InFlight' = InFlight
    BY DispatchInFlight
  <1> QED
    BY <1>1, <1>2, <1>3, <1>4, <1>5, <1>6
    DEF Promise!Begin, Promise!Ready, Due

(* A commit that is done leaves the scheduler, which goes on with the next. *)
LEMMA FinishDelivers ==
    ASSUME FirehoseTypeOK, SchedulerInv, NEW w \in Worker, Finish(w)
    PROVE  \E s \in Doing :
               Promise!End(s) \/ \E t \in Due : Promise!GoOn(s, t)
  <1> DEFINE s == task[w]
             q == waiting[RepoOf(s)]
  <1>1. /\ s # Nothing /\ s \in Doing /\ RepoOf(s) \in Repo
        /\ UNCHANGED <<log, pos>>
        /\ \A v \in Worker : v # w => task'[v] = task[v] /\ task[v] # s
    BY InTheLog, RepoOfType, OnePlace DEF Finish, stream, Doing, FirehoseTypeOK
  <1>2. InFlight' = InFlight \ {s}
    BY FinishInFlight
  <1>3. CASE q = <<>>
    <2>1. task'[w] = Nothing
      BY <1>3 DEF Finish, FirehoseTypeOK
    <2>2. Doing' = Doing \ {s}
      BY <1>1, <2>1 DEF Doing
    <2> QED
      BY <1>1, <1>2, <2>2 DEF Promise!End, Due
  <1>4. CASE q # <<>>
    <2> DEFINE t == q[1]
    <2>1. /\ task'[w] = t /\ 1 \in 1..Len(q) /\ t \in Due /\ t # Nothing
          /\ RepoOf(t) = RepoOf(s) /\ t # held
      <3>1. q \in Seq(Nat \ {0}) /\ 1 \in 1..Len(q) /\ task'[w] = q[1]
        BY <1>1, <1>4 DEF Finish, FirehoseTypeOK
      <3>2. RepoOf(t) = RepoOf(s)
        BY <1>1, <3>1 DEF SchedulerInv, RepoOrder
      <3>3. t # held
        BY <1>1, <3>1, <3>2 DEF SchedulerInv, RepoOrder, Nothing
      <3> QED
        BY <1>1, <3>1, <3>2, <3>3, OnePlace DEF Nothing
    <2>2. t \notin Doing
      BY <2>1 DEF Due
    <2>3. Doing' = (Doing \ {s}) \cup {t}
      BY <1>1, <2>1 DEF Doing
    <2>4. \A u \in Due : Promise!SameRepo(t, u) => t <= u
      <3> SUFFICES ASSUME NEW u \in Due, RepoOf(u) = RepoOf(s)
                   PROVE  t <= u
        BY <2>1 DEF Promise!SameRepo, RepoOf
      <3>1. u # held
        BY <1>1 DEF Due, InFlight, Nothing, SchedulerInv, RepoOrder
      <3>2. PICK i \in 1..Len(q) : u = q[i]
        BY <3>1, DueWaits
      <3>3. 1 < i => t < u
        BY <1>1, <2>1, <3>2 DEF SchedulerInv, RepoOrder
      <3>4. t \in Nat /\ u \in Nat /\ i \in Nat
        BY <2>1, <3>2 DEF Due, InFlight
      <3> QED
        BY <3>2, <3>3, <3>4
    <2>5. \A u \in Doing : Promise!SameRepo(t, u) => u = s
      <3> SUFFICES ASSUME NEW v \in Worker, task[v] # Nothing,
                          RepoOf(task[v]) = RepoOf(s)
                   PROVE  task[v] = s
        BY <2>1 DEF Doing, Promise!SameRepo, RepoOf
      <3> QED
        BY <1>1 DEF SchedulerInv, RepoOrder
    <2>6. Due' = Due \ {t}
      BY <1>1, <1>2, <2>1, <2>2, <2>3 DEF Due
    <2>7. Promise!SameRepo(s, t)
      BY <2>1 DEF Promise!SameRepo, RepoOf
    <2>8. Promise!GoOn(s, t)
      BY <1>1, <2>1, <2>3, <2>4, <2>5, <2>6, <2>7 DEF Promise!GoOn, Due
    <2> QED
      BY <1>1, <2>1, <2>8
  <1> QED
    BY <1>3, <1>4

-----------------------------------------------------------------------------
(***************************************************************************)
(* So a deployment whose steps are steps of the firehose, or leave it      *)
(* alone, starts and goes on as Delivery says.                             *)
(***************************************************************************)
LEMMA InitDelivers == FirehoseInit => Promise!Init
  <1> SUFFICES ASSUME FirehoseInit PROVE Promise!Init
    OBVIOUS
  <1>1. InFlight = {} /\ Doing = {}
    BY DEF FirehoseInit, NewScheduler, InFlight, Doing, Nothing
  <1> QED
    BY <1>1 DEF FirehoseInit, Promise!Init

(* And each step. *)
LEMMA StepDelivers ==
    ASSUME FirehoseTypeOK, SchedulerInv, FirehoseStep \/ UNCHANGED fhVars
    PROVE  [Promise!Next]_(Promise!vars)
  <1>1. CASE \/ ConnectFails \/ BackoffOver \/ Drop \/ Drained
             \/ UNCHANGED fhVars
    <2>1. UNCHANGED promised
      BY <1>1, PromisedUnchanged
      DEF ConnectFails, BackoffOver, Drop, Drained, fhVars, stream, scheduler
    <2> QED
      BY <2>1 DEF promised, Due, Promise!vars
  <1>2. CASE \E w \in Worker : Dispatch(w)
    BY <1>2, DispatchDelivers DEF Promise!Next, Due
  <1>3. CASE \E w \in Worker : Finish(w)
    BY <1>3, FinishDelivers DEF Promise!Next, Due
  <1> QED
    BY <1>1, <1>2, <1>3, EmitDelivers, ConnectDelivers, ReadDelivers, RestartDelivers
    DEF FirehoseStep, Promise!Next
-----------------------------------------------------------------------------
(* ProcessEvent, on the commits an executor is given. *)

(* Building a filter keeps the feed's name. *)
LEMMA PipelineName ==
    ASSUME NEW i \in DOMAIN Configs
    PROVE  Pipelines[i].name = Configs[i].name
  <1>1. Configs[i] \in Config
    BY ProcessorAssumption
  <1> QED
    BY <1>1 DEF Pipelines, NewPipeline, Config

(* The executor's place in the loops stays a place in the loops. *)
LEMMA PlaceType ==
    ASSUME NEW Executor, ProcessorTypeOK(Executor), NEW x \in Executor,
           NextOp(x) \/ NextPipeline(x)
    PROVE  at' \in [Executor -> [op : Nat \ {0}, pipe : 1..Len(Configs)]]
  <1>1. Len(Configs) \in Nat \ {0}
    BY ProcessorAssumption
  <1>2. at[x] \in [op : Nat \ {0}, pipe : 1..Len(Configs)]
    BY DEF ProcessorTypeOK
  <1>3. CASE NextOp(x)
    BY <1>1, <1>2, <1>3 DEF NextOp, ProcessorTypeOK
  <1>4. CASE NextPipeline(x) /\ ~NextOp(x)
    <2>1. at' = [at EXCEPT ![x].pipe = @ + 1] /\ at[x].pipe < Len(Configs)
      BY <1>4 DEF NextPipeline
    <2>2. [at[x] EXCEPT !.pipe = @ + 1] \in [op : Nat \ {0}, pipe : 1..Len(Configs)]
      BY <1>1, <1>2, <2>1
    <2> QED
      BY <2>1, <2>2 DEF ProcessorTypeOK
  <1> QED
    BY <1>3, <1>4

(* A step of ProcessEvent on a commit of the network keeps the tables' types. *)
LEMMA ProcessStepType ==
    ASSUME NEW Executor, ProcessorTypeOK(Executor), NEW x \in Executor,
           NEW s \in Nat, NEW c \in Commit, NEW ok \in BOOLEAN,
           ProcessStep(x, s, c, ok)
    PROVE  ProcessorTypeOK(Executor)'
  <1>1. c \in CommitRecord
    BY NetworkAssumption
  <1>2. at' \in [Executor -> [op : Nat \ {0}, pipe : 1..Len(Configs)]]
    BY PlaceType DEF ProcessStep, SkipOp, HandleDelete, HandleCreate
  <1>3. failed' \subseteq Nat
    BY DEF ProcessStep, SkipOp, HandleDelete, HandleCreate, ProcessorTypeOK
  <1>4. posts' \in [Uri -> Row \cup {NoRow}]
    <2>1. CASE SkipOp(x, c)
      BY <2>1 DEF SkipOp, ProcessorTypeOK
    <2>2. CASE HandleDelete(x, s, c, ok)
      BY <2>2 DEF HandleDelete, DeletePosts, ProcessorTypeOK
    <2>3. CASE HandleCreate(x, s, c, ok)
      <3> DEFINE op  == c.ops[at[x].op]
                 row == [feed |-> Pipelines[at[x].pipe].name, cid |-> op.cid]
      <3>1. at[x].op \in 1..Len(c.ops)
        BY <1>1, <2>3 DEF HandleCreate, Processed, ProcessorTypeOK, CommitRecord
      <3>2. op.cid \in Cid
        <4>1. c.ops \in Seq(Op)
          BY <1>1 DEF CommitRecord
        <4>2. op \in Op
          BY <3>1, <4>1
        <4> QED
          BY <4>2 DEF Op
      <3>3. at[x].pipe \in DOMAIN Configs
        BY ProcessorAssumption DEF ProcessorTypeOK
      <3>4. row \in Row
        BY <3>2, <3>3, PipelineName DEF Row
      <3>5. \/ posts' = posts
            \/ posts' = InsertPost(posts, BuildURI(c.repo, op.rkey), row)
        BY <2>3 DEF HandleCreate
      <3> QED
        BY <3>4, <3>5 DEF InsertPost, ProcessorTypeOK
    <2> QED
      BY <2>1, <2>2, <2>3 DEF ProcessStep
  <1> QED
    BY <1>2, <1>3, <1>4 DEF ProcessorTypeOK

-----------------------------------------------------------------------------
(***************************************************************************)
(* Rows on track.  The log, the origin, the places left and the bad        *)
(* commits are parameters: the deployments say what they are.              *)
(***************************************************************************)

(* A commit names a post once, so the places of a post are ordered. *)
LEMMA PlacesOfPost ==
    ASSUME NEW lg \in Seq(Commit), NEW uri,
           NEW p \in PlacesOf(lg, uri), NEW q \in PlacesOf(lg, uri)
    PROVE  /\ p \in Places(lg) /\ p[1] \in 1..Len(lg)
           /\ p[2] \in 1..Len(lg[p[1]].ops)
           /\ p[1] = q[1] => p = q
           /\ Before(p, q) <=> p[1] < q[1]
  <1>1. /\ p[1] \in 1..Len(lg) /\ p[2] \in 1..Len(lg[p[1]].ops)
        /\ p = <<p[1], p[2]>>
    BY DEF PlacesOf, Places
  <1>2. /\ q[1] \in 1..Len(lg) /\ q[2] \in 1..Len(lg[q[1]].ops)
        /\ q = <<q[1], q[2]>>
    BY DEF PlacesOf, Places
  <1>3. p[1] = q[1] => p[2] = q[2]
    <2> SUFFICES ASSUME p[1] = q[1] PROVE p[2] = q[2]
      OBVIOUS
    <2> DEFINE c == lg[p[1]]
    <2>1. c \in Commit
      BY <1>1
    <2>2. /\ c.ops[p[2]].isPost /\ c.ops[q[2]].isPost
          /\ c.ops[p[2]].rkey = c.ops[q[2]].rkey
      BY DEF PlacesOf, OpAt, BuildURI
    <2>3. c.ops[p[2]].isPost = c.ops[q[2]].isPost
      <3>1. c.ops \in Seq(Op)
        BY <2>1, NetworkAssumption DEF CommitRecord
      <3> QED
        BY <1>1, <1>2, <2>2, <3>1 DEF Op
    <2> HIDE DEF c
    <2> QED
      BY <1>1, <1>2, <2>1, <2>2, <2>3, NetworkAssumption DEF c
  <1>4. p \in Places(lg)
    BY DEF PlacesOf
  <1> QED
    BY <1>1, <1>2, <1>3, <1>4 DEF Before

(* What the sets of places of one post have to do with one another. *)
LEMMA PlacesInOrder ==
    ASSUME NEW lg \in Seq(Commit), NEW uri, NEW o
    PROVE  /\ Effective(lg, uri, o) \subseteq PlacesOf(lg, uri)
           /\ Deletions(lg, uri, o) \subseteq Effective(lg, uri, o)
           /\ Kept(lg, uri, o) \subseteq Effective(lg, uri, o)
           /\ \A p \in PlacesOf(lg, uri) : p[1] \in Nat
           /\ \A p, q \in PlacesOf(lg, uri) :
                  /\ p[1] = q[1] => p = q
                  /\ Before(p, q) <=> p[1] < q[1]
           /\ \A p \in Kept(lg, uri, o) : \A d \in Deletions(lg, uri, o) :
                  d[1] < p[1]
           /\ \A p \in Effective(lg, uri, o) :
                  \/ p \in Deletions(lg, uri, o)
                  \/ p \in Kept(lg, uri, o)
                  \/ \E d \in Deletions(lg, uri, o) : p[1] < d[1]
  <1> DEFINE P == PlacesOf(lg, uri)
             E == Effective(lg, uri, o)
             D == Deletions(lg, uri, o)
             K == Kept(lg, uri, o)
  <1>1. E \subseteq P /\ D \subseteq E /\ K \subseteq E
    BY DEF Effective, Deletions, Kept
  <1>2. \A p, q \in P : /\ p[1] \in Nat
                        /\ p[1] = q[1] => p = q
                        /\ Before(p, q) <=> p[1] < q[1]
    BY PlacesOfPost
  <1>3. \A p \in K : \A d \in D : Before(d, p)
    BY DEF Kept
  <1>4. ASSUME NEW p \in E, p \notin D, p \notin K PROVE \E d \in D : p[1] < d[1]
    <2>1. OpAt(lg, p).action = "create"
      <3>1. OpAt(lg, p) \in Op
        <4>1. p[1] \in 1..Len(lg) /\ p[2] \in 1..Len(lg[p[1]].ops)
          BY <1>1, <1>4, PlacesOfPost
        <4>2. lg[p[1]] \in Commit
          BY <4>1
        <4>3. lg[p[1]].ops \in Seq(Op)
          BY <4>2, NetworkAssumption DEF CommitRecord
        <4> QED
          BY <4>1, <4>3 DEF OpAt
      <3>2. ~Skipped(OpAt(lg, p)) /\ OpAt(lg, p).action # "delete"
        BY <1>4 DEF Effective, Deletions
      <3> QED
        BY <3>1, <3>2 DEF Op, Skipped
    <2>2. PICK d \in D : ~Before(d, p)
      BY <1>4, <2>1 DEF Kept
    <2>3. d \in P /\ p \in P /\ d # p
      BY <1>1, <1>4
    <2> QED
      BY <1>2, <2>2, <2>3
  <1> QED
    BY <1>1, <1>2, <1>3, <1>4

(* A post's places are commits of its repo, past the origin if they count. *)
LEMMA EffectivePlace ==
    ASSUME FirehoseTypeOK, NEW uri \in Uri, NEW p \in Effective(log, uri, origin)
    PROVE  /\ p \in Places(log) /\ p[1] \in 1..Len(log)
           /\ p[2] \in 1..Len(log[p[1]].ops)
           /\ p[1] > origin /\ Intact(log[p[1]])
           /\ RepoOf(p[1]) = uri[1]
  <1>1. p \in PlacesOf(log, uri) /\ p[1] > origin /\ Intact(log[p[1]])
    BY DEF Effective
  <1>2. p \in Places(log) /\ p[1] \in 1..Len(log) /\ p[2] \in 1..Len(log[p[1]].ops)
    BY <1>1, PlacesOfPost DEF FirehoseTypeOK
  <1>3. log[p[1]].repo = uri[1]
    BY <1>1 DEF PlacesOf, BuildURI
  <1> QED
    BY <1>1, <1>2, <1>3 DEF RepoOf

(* All places of the post after p are still left, but for bad commits. *)
Followed(lg, uri, o, p, left, bad) ==
    \A q \in Effective(lg, uri, o) : p[1] < q[1] => q \in left \/ q[1] \in bad

(* A place of a bad commit without a deletion left after it spoils the post. *)
LEMMA BadPlace ==
    ASSUME NEW lg \in Seq(Commit), NEW uri, NEW o, NEW bad,
           NEW p \in PlacesOf(lg, uri), p[1] \in bad,
           \A d \in Deletions(lg, uri, o) : p[1] < d[1] => d[1] \in bad
    PROVE  SpoiltBy(lg, uri, o, bad)
  <1>1. \A d \in Deletions(lg, uri, o) : Before(p, d) => p[1] < d[1]
    BY PlacesInOrder
  <1> QED
    BY <1>1 DEF SpoiltBy

(***************************************************************************)
(* A row stays on track while nothing is done to it, though places that    *)
(* were left are given up with their commits.                              *)
(***************************************************************************)
LEMMA StaysOnTrack ==
    ASSUME NEW lg \in Seq(Commit), NEW uri, NEW o, NEW row,
           NEW left, NEW bad, NEW left2, NEW bad2,
           OnTrack(row, lg, uri, o, left, bad),
           bad \subseteq bad2,
           \A p \in Effective(lg, uri, o) \cap left :
               /\ p \in left2 \/ p[1] \in bad2
               /\ Followed(lg, uri, o, p, left, bad)
    PROVE  OnTrack(row, lg, uri, o, left2, bad2)
  <1> DEFINE E == Effective(lg, uri, o)
             D == Deletions(lg, uri, o)
             K == Kept(lg, uri, o)
  <1>1. CASE SpoiltBy(lg, uri, o, bad)
    BY <1>1 DEF OnTrack, SpoiltBy
  <1>2. CASE D \cap left # {}
    <2>1. PICK d \in D : d \in left
      BY <1>2
    <2>2. CASE D \cap left2 # {}
      BY <2>2 DEF OnTrack
    <2>3. CASE D \cap left2 = {}
      <3>1. D \subseteq E /\ d \in PlacesOf(lg, uri)
        BY <2>1, PlacesInOrder
      <3>2. \A e \in D \cap left : e[1] \in bad2
        BY <2>3, <3>1
      <3>3. \A e \in D : d[1] < e[1] => e[1] \in bad2
        BY <2>1, <3>1, <3>2 DEF Followed
      <3>4. SpoiltBy(lg, uri, o, bad2)
        BY <2>1, <3>1, <3>2, <3>3, BadPlace
      <3> QED
        BY <3>4 DEF OnTrack
    <2> QED
      BY <2>2, <2>3
  <1>3. CASE \E p \in K : \E i \in SelectingAt(lg, p) :
                /\ IsFirst(p, K)
                /\ IsLeast(i, SelectingAt(lg, p))
                /\ row = RowOf(lg, p, i)
    BY <1>3 DEF OnTrack
  <1>4. CASE row = NoRow /\ K \subseteq left
    <2>1. CASE K \subseteq left2
      BY <1>4, <2>1 DEF OnTrack
    <2>2. CASE ~(K \subseteq left2)
      <3>1. PICK p \in K : p \notin left2
        BY <2>2
      <3>2. p \in E /\ p \in PlacesOf(lg, uri) /\ p[1] \in Nat
            /\ \A d \in D : d[1] < p[1] /\ d[1] \in Nat
        BY <3>1, PlacesInOrder
      <3>3. p[1] \in bad2 /\ \A d \in D : ~(p[1] < d[1])
        BY <1>4, <3>1, <3>2
      <3>4. SpoiltBy(lg, uri, o, bad2)
        BY <3>2, <3>3, BadPlace
      <3> QED
        BY <3>4 DEF OnTrack
    <2> QED
      BY <2>1, <2>2
  <1> QED
    BY <1>1, <1>2, <1>3, <1>4 DEF OnTrack

(* A deletion carried out leaves the post to what follows it. *)
LEMMA DeletedOnTrack ==
    ASSUME NEW lg \in Seq(Commit), NEW uri, NEW o,
           NEW left, NEW bad, NEW left2, NEW bad2,
           NEW d \in Deletions(lg, uri, o),
           Followed(lg, uri, o, d, left, bad),
           left \ {d} \subseteq left2, bad \subseteq bad2
    PROVE  OnTrack(NoRow, lg, uri, o, left2, bad2)
  <1> DEFINE K == Kept(lg, uri, o)
             D == Deletions(lg, uri, o)
  <1>1. CASE K \subseteq left2
    BY <1>1 DEF OnTrack
  <1>2. CASE ~(K \subseteq left2)
    <2>1. PICK p \in K : p \notin left2
      BY <1>2
    <2>2. /\ p \in Effective(lg, uri, o) /\ p \in PlacesOf(lg, uri)
          /\ p[1] \in Nat /\ d[1] < p[1]
          /\ \A e \in D : e[1] < p[1] /\ e[1] \in Nat
      BY <2>1, PlacesInOrder
    <2>3. p # d
      BY <2>2
    <2>4. p[1] \in bad2
      BY <2>1, <2>2, <2>3 DEF Followed
    <2>5. \A e \in D : ~(p[1] < e[1])
      BY <2>2
    <2>6. SpoiltBy(lg, uri, o, bad2)
      BY <2>2, <2>4, <2>5, BadPlace
    <2> QED
      BY <2>6 DEF OnTrack
  <1> QED
    BY <1>1, <1>2

(* A failed call spoils the post, unless a deletion is left. *)
LEMMA FailedOnTrack ==
    ASSUME NEW lg \in Seq(Commit), NEW uri, NEW o, NEW row,
           NEW left, NEW bad, NEW left2, NEW bad2,
           NEW p \in PlacesOf(lg, uri), p[1] \in bad2,
           Followed(lg, uri, o, p, left, bad),
           left \ {p} \subseteq left2, bad \subseteq bad2
    PROVE  OnTrack(row, lg, uri, o, left2, bad2)
  <1> DEFINE D == Deletions(lg, uri, o)
  <1>1. CASE D \cap left2 # {}
    BY <1>1 DEF OnTrack
  <1>2. CASE D \cap left2 = {}
    <2>1. ASSUME NEW d \in D, p[1] < d[1] PROVE d[1] \in bad2
      <3>1. d \in Effective(lg, uri, o) /\ d[1] \in Nat /\ p[1] \in Nat
        BY PlacesInOrder
      <3>2. d # p
        BY <2>1, <3>1
      <3> QED
        BY <1>2, <2>1, <3>1, <3>2 DEF Followed
    <2>2. SpoiltBy(lg, uri, o, bad2)
      BY <2>1, BadPlace
    <2> QED
      BY <2>2 DEF OnTrack
  <1> QED
    BY <1>1, <1>2

(* What a pipeline makes of a creation is a row, whichever pipeline it is. *)
LEMMA RowOfType ==
    ASSUME NEW lg \in Seq(Commit), NEW uri, NEW o,
           NEW p \in Effective(lg, uri, o), NEW i \in SelectingAt(lg, p)
    PROVE  RowOf(lg, p, i) \in Row /\ RowOf(lg, p, i) # NoRow
  <1>1. p[1] \in 1..Len(lg) /\ p[2] \in 1..Len(lg[p[1]].ops)
    BY PlacesOfPost, PlacesInOrder
  <1>2. lg[p[1]] \in Commit
    BY <1>1
  <1>3. lg[p[1]].ops \in Seq(Op)
    BY <1>2, NetworkAssumption DEF CommitRecord
  <1>4. OpAt(lg, p).cid \in Cid
    <2>1. OpAt(lg, p) \in Op
      BY <1>1, <1>3 DEF OpAt
    <2> QED
      BY <2>1 DEF Op
  <1>5. i \in DOMAIN Configs
    BY DEF SelectingAt, Selecting
  <1>6. RowOf(lg, p, i) \in Row
    BY <1>4, <1>5 DEF RowOf, Row
  <1> QED
    BY <1>6, RowAssumption

(* A creation by the pipeline i with nothing left before it, all after it. *)
Creates(lg, uri, o, p, i, left, bad) ==
    /\ p \in Effective(lg, uri, o) /\ p \notin Deletions(lg, uri, o)
    /\ i \in SelectingAt(lg, p)
    /\ p \in left => IsLeast(i, SelectingAt(lg, p))
    /\ Followed(lg, uri, o, p, left, bad)
    /\ \A q \in Effective(lg, uri, o) :
           q[1] < p[1] => q \notin left \/ q[1] \in bad

(***************************************************************************)
(* A creation inserted where no row is gives the row called for, unless a  *)
(* deletion is still to come; where a row is it changes nothing.           *)
(***************************************************************************)
LEMMA CreatedOnTrack ==
    ASSUME NEW lg \in Seq(Commit), NEW uri, NEW o, NEW row,
           NEW left, NEW bad, NEW left2, NEW bad2,
           OnTrack(row, lg, uri, o, left, bad),
           NEW p, NEW i, Creates(lg, uri, o, p, i, left, bad),
           left \ {p} \subseteq left2, bad \subseteq bad2,
           NEW new, row = NoRow => new = RowOf(lg, p, i), row # NoRow => new = row
    PROVE  OnTrack(new, lg, uri, o, left2, bad2)
  <1> DEFINE E == Effective(lg, uri, o)
             D == Deletions(lg, uri, o)
             K == Kept(lg, uri, o)
  <1> USE DEF Creates
  <1>1. /\ D \subseteq E /\ K \subseteq E /\ p \in E /\ p \notin D
        /\ \A q \in E : q \in PlacesOf(lg, uri) /\ q[1] \in Nat
        /\ \A q, r \in E : q = r \/ q[1] < r[1] \/ r[1] < q[1]
        /\ \A q, r \in E : Before(q, r) <=> q[1] < r[1]
        /\ \A q \in K : \A d \in D : d[1] < q[1]
        /\ p \in K \/ \E d \in D : p[1] < d[1]
    BY PlacesInOrder
  <1>2. CASE SpoiltBy(lg, uri, o, bad)
    BY <1>2 DEF OnTrack, SpoiltBy
  <1>3. CASE D \cap left # {}
    <2>1. D \cap left2 # {}
      BY <1>1, <1>3
    <2> QED
      BY <2>1 DEF OnTrack
  <1>4. CASE \E q \in K : \E j \in SelectingAt(lg, q) :
                /\ IsFirst(q, K)
                /\ IsLeast(j, SelectingAt(lg, q))
                /\ row = RowOf(lg, q, j)
    <2>1. row # NoRow
      BY <1>1, <1>4, RowOfType
    <2> QED
      BY <1>4, <2>1 DEF OnTrack
  <1>5. CASE row = NoRow /\ K \subseteq left
    <2>1. CASE p \in K /\ IsFirst(p, K)
      <3>1. IsLeast(i, SelectingAt(lg, p)) /\ new = RowOf(lg, p, i)
        BY <1>5, <2>1
      <3> QED
        BY <2>1, <3>1 DEF OnTrack
    <2>2. CASE p \in K /\ ~IsFirst(p, K)
      <3>1. PICK q \in K : q # p /\ ~Before(p, q)
        BY <2>2 DEF IsFirst
      <3>2. q \in E /\ q[1] < p[1] /\ q \in left
        BY <1>1, <1>5, <2>2, <3>1
      <3>3. q[1] \in bad2
        BY <3>2
      <3>4. \A d \in D : ~(q[1] < d[1])
        BY <1>1, <3>1
      <3>5. SpoiltBy(lg, uri, o, bad2)
        BY <1>1, <3>2, <3>3, <3>4, BadPlace
      <3> QED
        BY <3>5 DEF OnTrack
    <2>3. CASE p \notin K
      <3>1. PICK d \in D : p[1] < d[1]
        BY <1>1, <2>3
      <3>2. CASE D \cap left2 # {}
        BY <3>2 DEF OnTrack
      <3>3. CASE D \cap left2 = {}
        <4>1. ASSUME NEW e \in D, p[1] < e[1] PROVE e[1] \in bad2
          BY <1>1, <3>3, <4>1 DEF Followed
        <4>2. \A e \in D : d[1] < e[1] => e[1] \in bad2
          BY <1>1, <3>1, <4>1
        <4>3. d[1] \in bad2 /\ d \in PlacesOf(lg, uri)
          BY <1>1, <3>1, <4>1
        <4>4. SpoiltBy(lg, uri, o, bad2)
          BY <4>2, <4>3, BadPlace
        <4> QED
          BY <4>4 DEF OnTrack
      <3> QED
        BY <3>2, <3>3
    <2> QED
      BY <2>1, <2>2, <2>3
  <1> QED
    BY <1>2, <1>3, <1>4, <1>5 DEF OnTrack

-----------------------------------------------------------------------------
(* What a new commit adds to the places of a post. *)
LEMMA GrownPlaces ==
    ASSUME NEW lg \in Seq(Commit), NEW uri, NEW o,
           NEW lg2 \in Seq(Commit), Len(lg2) = Len(lg) + 1,
           \A s \in 1..Len(lg) : lg2[s] = lg[s]
    PROVE  /\ PlacesOf(lg, uri) \subseteq PlacesOf(lg2, uri)
           /\ \A p \in PlacesOf(lg2, uri) \ PlacesOf(lg, uri) : p[1] = Len(lg) + 1
           /\ \A p \in PlacesOf(lg, uri) :
                  /\ OpAt(lg2, p) = OpAt(lg, p)
                  /\ SelectingAt(lg2, p) = SelectingAt(lg, p)
                  /\ p \in Effective(lg2, uri, o) <=> p \in Effective(lg, uri, o)
  <1>1. /\ Len(lg) \in Nat
        /\ \A s \in 1..Len(lg) : lg2[s] = lg[s]
    OBVIOUS
  <1>2. ASSUME NEW p \in PlacesOf(lg, uri)
        PROVE  /\ p \in PlacesOf(lg2, uri)
               /\ OpAt(lg2, p) = OpAt(lg, p) /\ lg2[p[1]] = lg[p[1]]
    <2>1. p[1] \in 1..Len(lg) /\ p[2] \in 1..Len(lg[p[1]].ops) /\ p \in Places(lg)
      BY PlacesOfPost
    <2>2. p[1] \in 1..Len(lg2) /\ lg2[p[1]] = lg[p[1]] /\ OpAt(lg2, p) = OpAt(lg, p)
      BY <1>1, <2>1 DEF OpAt
    <2>3. p = <<p[1], p[2]>>
      BY <2>1 DEF Places
    <2>4. p \in Places(lg2)
      BY <2>1, <2>2, <2>3 DEF Places
    <2> QED
      BY <2>2, <2>4 DEF PlacesOf
  <1>3. ASSUME NEW p \in PlacesOf(lg2, uri), p \notin PlacesOf(lg, uri)
        PROVE  p[1] = Len(lg) + 1
    <2>1. /\ p[1] \in 1..Len(lg2) /\ p[2] \in 1..Len(lg2[p[1]].ops)
          /\ p \in Places(lg2)
      BY <1>1, PlacesOfPost
    <2>2. SUFFICES ASSUME p[1] \in 1..Len(lg) PROVE p \in PlacesOf(lg, uri)
      BY <1>1, <1>3, <2>1
    <2>3. lg2[p[1]] = lg[p[1]] /\ OpAt(lg2, p) = OpAt(lg, p)
      BY <1>1, <2>2 DEF OpAt
    <2>4. p = <<p[1], p[2]>>
      BY <2>1 DEF Places
    <2>5. p \in Places(lg)
      BY <2>1, <2>2, <2>3, <2>4 DEF Places
    <2> QED
      BY <2>3, <2>5 DEF PlacesOf
  <1>4. ASSUME NEW p \in PlacesOf(lg, uri)
        PROVE  /\ SelectingAt(lg2, p) = SelectingAt(lg, p)
               /\ p \in Effective(lg2, uri, o) <=> p \in Effective(lg, uri, o)
    BY <1>2 DEF SelectingAt, Effective
  <1> QED
    BY <1>1, <1>2, <1>3, <1>4

(* Hence to the deletions and the creations that count. *)
LEMMA GrownSets ==
    ASSUME NEW lg \in Seq(Commit), NEW uri, NEW o,
           NEW lg2 \in Seq(Commit), Len(lg2) = Len(lg) + 1,
           \A s \in 1..Len(lg) : lg2[s] = lg[s]
    PROVE  \/ \E d \in Deletions(lg2, uri, o) : d[1] = Len(lg) + 1
           \/ /\ Deletions(lg2, uri, o) = Deletions(lg, uri, o)
              /\ Kept(lg, uri, o) \subseteq Kept(lg2, uri, o)
              /\ \A p \in Kept(lg2, uri, o) \ Kept(lg, uri, o) : p[1] = Len(lg) + 1
  <1> DEFINE D == Deletions(lg, uri, o)
             D2 == Deletions(lg2, uri, o)
             K == Kept(lg, uri, o)
             K2 == Kept(lg2, uri, o)
  <1> SUFFICES ASSUME \A d \in D2 : d[1] # Len(lg) + 1
               PROVE  /\ D2 = D /\ K \subseteq K2
                      /\ \A p \in K2 \ K : p[1] = Len(lg) + 1
    OBVIOUS
  <1>1. /\ PlacesOf(lg, uri) \subseteq PlacesOf(lg2, uri)
        /\ \A p \in PlacesOf(lg2, uri) \ PlacesOf(lg, uri) : p[1] = Len(lg) + 1
        /\ \A p \in PlacesOf(lg, uri) :
               /\ OpAt(lg2, p) = OpAt(lg, p)
               /\ SelectingAt(lg2, p) = SelectingAt(lg, p)
               /\ p \in Effective(lg2, uri, o) <=> p \in Effective(lg, uri, o)
    BY GrownPlaces
  <1>2. /\ Effective(lg, uri, o) \subseteq PlacesOf(lg, uri)
        /\ Effective(lg2, uri, o) \subseteq PlacesOf(lg2, uri)
        /\ D2 \subseteq Effective(lg2, uri, o) /\ K2 \subseteq Effective(lg2, uri, o)
        /\ D \subseteq Effective(lg, uri, o) /\ K \subseteq Effective(lg, uri, o)
    BY <1>1, PlacesInOrder
  <1>3. D2 = D
    <2>1. ASSUME NEW p \in D2 PROVE p \in D
      BY <1>1, <1>2, <2>1 DEF Deletions
    <2>2. ASSUME NEW p \in D PROVE p \in D2
      BY <1>1, <1>2, <2>2 DEF Deletions
    <2> QED
      BY <2>1, <2>2
  <1>4. ASSUME NEW p \in K PROVE p \in K2
    BY <1>1, <1>2, <1>3, <1>4 DEF Kept
  <1>5. ASSUME NEW p \in K2, p \notin K PROVE p[1] = Len(lg) + 1
    BY <1>1, <1>2, <1>3, <1>5 DEF Kept
  <1> QED
    BY <1>3, <1>4, <1>5

(* A row stays on track when the log grows by a commit left or given up. *)
LEMMA GrownOnTrack ==
    ASSUME NEW lg \in Seq(Commit), NEW uri, NEW o, NEW row,
           NEW lg2 \in Seq(Commit), Len(lg2) = Len(lg) + 1,
           \A s \in 1..Len(lg) : lg2[s] = lg[s],
           NEW left, NEW bad, NEW left2, NEW bad2,
           OnTrack(row, lg, uri, o, left, bad),
           Effective(lg, uri, o) \cap left \subseteq left2,
           bad \subseteq bad2,
           \A p \in Effective(lg2, uri, o) :
               p[1] = Len(lg) + 1 => p \in left2 \/ p[1] \in bad2
    PROVE  OnTrack(row, lg2, uri, o, left2, bad2)
  <1> DEFINE n == Len(lg) + 1
             D == Deletions(lg, uri, o)
             D2 == Deletions(lg2, uri, o)
             K == Kept(lg, uri, o)
             K2 == Kept(lg2, uri, o)
  <1>1. /\ PlacesOf(lg, uri) \subseteq PlacesOf(lg2, uri)
        /\ \A p \in PlacesOf(lg2, uri) \ PlacesOf(lg, uri) : p[1] = Len(lg) + 1
        /\ \A p \in PlacesOf(lg, uri) :
               /\ OpAt(lg2, p) = OpAt(lg, p)
               /\ SelectingAt(lg2, p) = SelectingAt(lg, p)
               /\ p \in Effective(lg2, uri, o) <=> p \in Effective(lg, uri, o)
    BY GrownPlaces
  <1>n. n \in Nat /\ Len(lg2) = n
    OBVIOUS
  <1>2. /\ D2 \subseteq Effective(lg2, uri, o) /\ K2 \subseteq Effective(lg2, uri, o)
        /\ Effective(lg2, uri, o) \subseteq PlacesOf(lg2, uri)
        /\ D \subseteq Effective(lg, uri, o) /\ K \subseteq Effective(lg, uri, o)
        /\ Effective(lg, uri, o) \subseteq PlacesOf(lg, uri)
    BY <1>1, PlacesInOrder
  <1>3. \A p \in PlacesOf(lg2, uri) : p[1] \in Nat /\ p[1] <= n
    <2>1. \A p \in PlacesOf(lg2, uri) : p[1] \in 1..Len(lg2)
      BY <1>1, PlacesOfPost
    <2> QED
      BY <1>n, <2>1
  <1>4. \A p \in PlacesOf(lg, uri) : p[1] \in Nat /\ p[1] < n
    BY PlacesOfPost
  <1>5. ASSUME NEW p \in Effective(lg2, uri, o), p[1] = n, n \in bad2
        PROVE  OnTrack(row, lg2, uri, o, left2, bad2)
    <2>1. \A d \in D2 : ~(p[1] < d[1])
      BY <1>2, <1>3, <1>5
    <2>2. SpoiltBy(lg2, uri, o, bad2)
      BY <1>1, <1>2, <1>5, <2>1, BadPlace
    <2> QED
      BY <2>2 DEF OnTrack
  <1>6. CASE \E d \in D2 : d[1] = n
    <2>1. PICK d \in D2 : d[1] = n
      BY <1>6
    <2>2. d \in left2 => OnTrack(row, lg2, uri, o, left2, bad2)
      BY DEF OnTrack
    <2> QED
      BY <1>2, <1>5, <2>1, <2>2
  <1>7. CASE /\ D2 = D /\ K \subseteq K2
             /\ \A p \in K2 \ K : p[1] = n
    <2>1. CASE SpoiltBy(lg, uri, o, bad)
      <3>1. SpoiltBy(lg2, uri, o, bad2)
        BY <1>1, <1>7, <2>1 DEF SpoiltBy
      <3> QED
        BY <3>1 DEF OnTrack
    <2>2. CASE D \cap left # {}
      <3>1. D2 \cap left2 # {}
        BY <1>2, <1>7, <2>2
      <3> QED
        BY <3>1 DEF OnTrack
    <2>3. CASE \E p \in K : \E i \in SelectingAt(lg, p) :
                  /\ IsFirst(p, K)
                  /\ IsLeast(i, SelectingAt(lg, p))
                  /\ row = RowOf(lg, p, i)
      <3>1. PICK p \in K, i \in DOMAIN Configs :
                /\ i \in SelectingAt(lg, p)
                /\ IsFirst(p, K)
                /\ IsLeast(i, SelectingAt(lg, p))
                /\ row = RowOf(lg, p, i)
        BY <2>3 DEF SelectingAt, Selecting
      <3>2. ASSUME NEW q \in K2 PROVE q = p \/ Before(p, q)
        <4>1. CASE q \in K
          BY <3>1, <4>1 DEF IsFirst
        <4>2. CASE q \notin K
          BY <1>2, <1>4, <1>7, <3>1, <3>2, <4>2 DEF Before
        <4> QED
          BY <4>1, <4>2
      <3>3. p \in K2 /\ IsFirst(p, K2)
        BY <1>7, <3>1, <3>2 DEF IsFirst
      <3>4. SelectingAt(lg2, p) = SelectingAt(lg, p) /\ RowOf(lg2, p, i) = RowOf(lg, p, i)
        BY <1>1, <1>2, <3>1 DEF RowOf
      <3>5. /\ i \in SelectingAt(lg2, p)
            /\ IsLeast(i, SelectingAt(lg2, p))
            /\ row = RowOf(lg2, p, i)
        BY <3>1, <3>4
      <3>6. \E q \in K2 : \E j \in SelectingAt(lg2, q) :
                /\ IsFirst(q, K2)
                /\ IsLeast(j, SelectingAt(lg2, q))
                /\ row = RowOf(lg2, q, j)
        <4> HIDE DEF K2
        <4> QED
          BY <3>3, <3>5
      <3> QED
        BY <3>6 DEF OnTrack
    <2>4. CASE row = NoRow /\ K \subseteq left
      <3>1. CASE K2 \subseteq left2
        BY <2>4, <3>1 DEF OnTrack
      <3>2. CASE ~(K2 \subseteq left2)
        <4>1. PICK p \in K2 : p \notin left2
          BY <3>2
        <4>2. p[1] = n
          BY <1>2, <1>7, <2>4, <4>1
        <4> QED
          BY <1>2, <1>5, <4>1, <4>2
      <3> QED
        BY <3>1, <3>2
    <2> QED
      BY <2>1, <2>2, <2>3, <2>4 DEF OnTrack
  <1> QED
    BY <1>6, <1>7, GrownSets

(* A row on track with nothing left is the row called for, or spoilt. *)
LEMMA TrackEnds ==
    ASSUME NEW lg \in Seq(Commit), NEW uri, NEW o, NEW row, NEW left, NEW bad,
           OnTrack(row, lg, uri, o, left, bad),
           Effective(lg, uri, o) \cap left = {}
    PROVE  SpoiltBy(lg, uri, o, bad) \/ row = Expected(lg, uri, o)
  <1> DEFINE K == Kept(lg, uri, o)
  <1>1. /\ Deletions(lg, uri, o) \subseteq Effective(lg, uri, o)
        /\ K \subseteq Effective(lg, uri, o)
        /\ \A p, q \in K : p = q \/ ~Before(p, q) \/ ~Before(q, p)
    <2>1. /\ Deletions(lg, uri, o) \subseteq Effective(lg, uri, o)
          /\ K \subseteq Effective(lg, uri, o)
          /\ \A p, q \in K : /\ p[1] \in Nat /\ q[1] \in Nat
                             /\ Before(p, q) <=> p[1] < q[1]
      BY PlacesInOrder
    <2> QED
      BY <2>1
  <1>2. CASE row = NoRow /\ K \subseteq left
    <2>1. K = {}
      BY <1>1, <1>2
    <2> QED
      BY <1>2, <2>1 DEF Expected
  <1>3. CASE \E p \in K : \E i \in SelectingAt(lg, p) :
                /\ IsFirst(p, K)
                /\ IsLeast(i, SelectingAt(lg, p))
                /\ row = RowOf(lg, p, i)
    <2>1. PICK p \in K, i \in DOMAIN Configs :
              /\ i \in SelectingAt(lg, p)
              /\ IsFirst(p, K)
              /\ IsLeast(i, SelectingAt(lg, p))
              /\ row = RowOf(lg, p, i)
      BY <1>3 DEF SelectingAt, Selecting
    <2>2. p = CHOOSE q \in K : IsFirst(q, K)
      <3>1. \A q \in K : IsFirst(q, K) => q = p
        BY <1>1, <2>1 DEF IsFirst
      <3> QED
        BY <2>1, <3>1
    <2>3. i = CHOOSE j \in SelectingAt(lg, p) : IsLeast(j, SelectingAt(lg, p))
      <3>1. \A j \in SelectingAt(lg, p) : IsLeast(j, SelectingAt(lg, p)) => j = i
        <4>1. \A j \in SelectingAt(lg, p) : j \in Nat
          BY ProcessorAssumption DEF SelectingAt, Selecting
        <4> QED
          BY <2>1, <4>1 DEF IsLeast
      <3> QED
        BY <2>1, <3>1
    <2>4. K # {}
      BY <2>1
    <2> QED
      BY <2>1, <2>2, <2>3, <2>4 DEF Expected
  <1> QED
    BY <1>1, <1>2, <1>3 DEF OnTrack

(* A step passes no other place of its commit than the one it is at. *)
LEMMA StepPasses ==
    ASSUME NEW Executor, ProcessorTypeOK(Executor), NEW x \in Executor,
           NEW lg \in Seq(Commit), NEW p \in Places(lg), p[2] # at[x].op,
           NextOp(x) \/ NextPipeline(x)
    PROVE  Passed(at'[x], lg, p) => Passed(at[x], lg, p)
  <1>1. /\ at[x].op \in Nat /\ p[2] \in Nat
        /\ at[x].pipe \in 1..Len(Configs) /\ Len(Configs) \in Nat
    BY ProcessorAssumption DEF ProcessorTypeOK, Places
  <1>2. CASE NextOp(x)
    <2>1. at'[x].op = at[x].op + 1 /\ at'[x].pipe = 1
      BY <1>2 DEF NextOp, ProcessorTypeOK
    <2>2. \A i \in SelectingAt(lg, p) : ~(i < 1)
      BY ProcessorAssumption DEF SelectingAt, Selecting
    <2> QED
      BY <1>1, <2>1, <2>2 DEF Passed
  <1>3. CASE NextPipeline(x) /\ ~NextOp(x)
    <2>1. at'[x].op = at[x].op
      BY <1>3 DEF NextPipeline, ProcessorTypeOK
    <2> QED
      BY <1>1, <2>1 DEF Passed
  <1> QED
    BY <1>2, <1>3

(* A pipeline that does not select the post passes no creation of it. *)
LEMMA IdlePasses ==
    ASSUME NEW Executor, ProcessorTypeOK(Executor), NEW x \in Executor,
           NEW lg \in Seq(Commit), NEW p \in Places(lg), p[2] = at[x].op,
           at[x].pipe \notin SelectingAt(lg, p), SelectingAt(lg, p) # {},
           OpAt(lg, p).action = "create", ~Skipped(OpAt(lg, p)),
           NextPipeline(x)
    PROVE  Passed(at'[x], lg, p) => Passed(at[x], lg, p)
  <1>1. /\ at[x].op \in Nat /\ p[2] \in Nat
        /\ at[x].pipe \in 1..Len(Configs) /\ Len(Configs) \in Nat
        /\ SelectingAt(lg, p) \subseteq 1..Len(Configs)
    BY ProcessorAssumption DEF ProcessorTypeOK, Places, SelectingAt, Selecting
  <1>2. CASE at[x].pipe < Len(Configs)
    <2>1. at'[x].op = at[x].op /\ at'[x].pipe = at[x].pipe + 1
      BY <1>2 DEF NextPipeline, ProcessorTypeOK
    <2>2. \A i \in SelectingAt(lg, p) : i < at[x].pipe + 1 => i < at[x].pipe
      BY <1>1
    <2> QED
      BY <1>1, <2>1, <2>2 DEF Passed
  <1>3. CASE ~(at[x].pipe < Len(Configs))
    <2>1. \E i \in SelectingAt(lg, p) : i < at[x].pipe
      BY <1>1, <1>3
    <2> QED
      BY <2>1 DEF Passed
  <1> QED
    BY <1>2, <1>3

(***************************************************************************)
(* What a step of ProcessEvent on commit s does to the row of a post: a    *)
(* deletion or an insertion, if it is at a place of the post that counts,  *)
(* a failed call, or nothing, and then it passes nothing of the post.      *)
(***************************************************************************)
LEMMA StepOnPost ==
    ASSUME NEW Executor, ProcessorTypeOK(Executor), NEW x \in Executor,
           NEW lg \in Seq(Commit), NEW s \in 1..Len(lg), NEW ok \in BOOLEAN,
           ProcessStep(x, s, lg[s], ok),
           NEW uri \in Uri, NEW o, s > o,
           NEW p0, p0 = <<s, at[x].op>>
    PROVE  /\ p0 \in Places(lg)
           /\ NextOp(x) \/ NextPipeline(x)
           /\ \/ /\ posts'[uri] = posts[uri]
                 /\ \/ p0 \notin Effective(lg, uri, o)
                    \/ /\ p0 \notin Deletions(lg, uri, o)
                       /\ at[x].pipe \notin SelectingAt(lg, p0)
                       /\ NextPipeline(x)
              \/ /\ posts'[uri] = posts[uri]
                 /\ p0 \in Effective(lg, uri, o) /\ s \in failed'
              \/ /\ posts'[uri] = NoRow
                 /\ p0 \in Deletions(lg, uri, o)
              \/ /\ p0 \in Effective(lg, uri, o) \ Deletions(lg, uri, o)
                 /\ at[x].pipe \in SelectingAt(lg, p0)
                 /\ posts'[uri] = IF posts[uri] = NoRow
                                  THEN RowOf(lg, p0, at[x].pipe) ELSE posts[uri]
  <1> DEFINE c == lg[s]
             op == c.ops[at[x].op]
             i == at[x].pipe
  <1>1. c \in CommitRecord /\ c.ops \in Seq(Op)
    BY NetworkAssumption DEF CommitRecord
  <1>2. /\ at[x].op \in 1..Len(c.ops) /\ Intact(c)
        /\ p0[1] = s /\ p0[2] = at[x].op
    BY <1>1 DEF ProcessStep, SkipOp, HandleDelete, HandleCreate, Processed, ProcessorTypeOK
  <1>3. op \in Op /\ OpAt(lg, p0) = op /\ p0 \in Places(lg)
    BY <1>1, <1>2 DEF OpAt, Places
  <1>4. i \in DOMAIN Configs /\ Pipelines[i].name = Configs[i].name
    BY PipelineName, ProcessorAssumption DEF ProcessorTypeOK
  <1>5. NextOp(x) \/ NextPipeline(x)
    BY DEF ProcessStep, SkipOp, HandleDelete, HandleCreate
  <1>6. p0 \in Effective(lg, uri, o) =>
            /\ ~Skipped(op)
            /\ uri = BuildURI(c.repo, op.rkey)
            /\ op.action = "create" => SelectingAt(lg, p0) # {}
    BY <1>2, <1>3 DEF Effective, PlacesOf, SelectingAt
  <1>7. ASSUME ~Skipped(op), uri = BuildURI(c.repo, op.rkey),
               op.action = "create" => SelectingAt(lg, p0) # {}
        PROVE  p0 \in Effective(lg, uri, o)
    <2>1. op.isPost
      BY <1>7 DEF Skipped
    <2>2. p0 \in PlacesOf(lg, uri)
      BY <1>2, <1>3, <1>7, <2>1 DEF PlacesOf
    <2> QED
      BY <1>2, <1>3, <1>7, <2>2 DEF Effective, SelectingAt
  <1>8. CASE SkipOp(x, c)
    BY <1>3, <1>5, <1>6, <1>8 DEF SkipOp
  <1>9. CASE HandleDelete(x, s, c, ok)
    <2>1. ~Skipped(op) /\ op.action = "delete"
      BY <1>9 DEF HandleDelete
    <2>2. CASE uri = BuildURI(c.repo, op.rkey)
      <3>1. p0 \in Effective(lg, uri, o) /\ p0 \in Deletions(lg, uri, o)
        BY <1>3, <1>7, <2>1, <2>2 DEF Deletions
      <3>2. CASE ok
        <4>1. posts'[uri] = NoRow
          BY <1>9, <2>2, <3>2 DEF HandleDelete, DeletePosts, ProcessorTypeOK
        <4> QED
          BY <1>3, <1>5, <3>1, <4>1
      <3>3. CASE ~ok
        <4>1. posts' = posts /\ s \in failed'
          BY <1>9, <3>3 DEF HandleDelete
        <4> QED
          BY <1>3, <1>5, <3>1, <4>1
      <3> QED
        BY <3>2, <3>3
    <2>3. CASE uri # BuildURI(c.repo, op.rkey)
      <3>1. posts'[uri] = posts[uri]
        BY <1>9, <2>3 DEF HandleDelete, DeletePosts, ProcessorTypeOK
      <3> QED
        BY <1>3, <1>5, <1>6, <2>3, <3>1
    <2> QED
      BY <2>2, <2>3
  <1>10. CASE HandleCreate(x, s, c, ok)
    <2>1. /\ ~Skipped(op) /\ op.action = "create" /\ NextPipeline(x)
          /\ p0 \notin Deletions(lg, uri, o)
      BY <1>3, <1>10 DEF HandleCreate, Deletions
    <2>2. ShouldInsert(Pipelines[i], c.repo, op.post) <=> i \in SelectingAt(lg, p0)
      BY <1>2, <1>3, <1>4 DEF SelectingAt, Selecting
    <2>3. CASE i \notin SelectingAt(lg, p0)
      <3>1. posts' = posts
        BY <1>10, <2>2, <2>3 DEF HandleCreate
      <3> QED
        BY <1>3, <1>5, <2>1, <2>3, <3>1
    <2>4. CASE i \in SelectingAt(lg, p0) /\ uri # BuildURI(c.repo, op.rkey)
      <3>1. posts'[uri] = posts[uri]
        <4>1. \/ posts' = posts
              \/ \E row : posts' = InsertPost(posts, BuildURI(c.repo, op.rkey), row)
          BY <1>10 DEF HandleCreate
        <4> QED
          BY <2>4, <4>1 DEF InsertPost, ProcessorTypeOK
      <3> QED
        BY <1>3, <1>5, <1>6, <2>4, <3>1
    <2>5. CASE i \in SelectingAt(lg, p0) /\ uri = BuildURI(c.repo, op.rkey)
      <3>1. p0 \in Effective(lg, uri, o)
        BY <1>7, <2>1, <2>5
      <3>2. CASE ok
        <4>1. RowOf(lg, p0, i) = [feed |-> Pipelines[i].name, cid |-> op.cid]
          BY <1>3, <1>4 DEF RowOf
        <4>2. posts' = InsertPost(posts, uri, RowOf(lg, p0, i))
          BY <1>10, <2>2, <2>5, <3>2, <4>1 DEF HandleCreate
        <4>3. posts'[uri] = IF posts[uri] = NoRow
                            THEN RowOf(lg, p0, i) ELSE posts[uri]
          BY <4>2 DEF InsertPost, ProcessorTypeOK
        <4> QED
          BY <1>3, <1>5, <2>1, <2>5, <3>1, <4>3
      <3>3. CASE ~ok
        <4>1. posts' = posts /\ s \in failed'
          BY <1>10, <2>2, <2>5, <3>3 DEF HandleCreate
        <4> QED
          BY <1>3, <1>5, <3>1, <4>1
      <3> QED
        BY <3>2, <3>3
    <2> QED
      BY <2>3, <2>4, <2>5
  <1> QED
    BY <1>8, <1>9, <1>10 DEF ProcessStep

(* At the start of a commit nothing of it is passed. *)
LEMMA NothingPassed ==
    ASSUME NEW lg, NEW p \in Places(lg)
    PROVE  ~Passed(Start, lg, p)
  <1>1. p[2] \in Nat \ {0}
    BY DEF Places
  <1>2. \A i \in SelectingAt(lg, p) : ~(i < 1)
    BY ProcessorAssumption DEF SelectingAt, Selecting
  <1> QED
    BY <1>1, <1>2 DEF Passed, Start

(* Of commit s what the executor passed is not left; the others stay left. *)
Passes(here, there, lg, s, left, left2) ==
    /\ left \subseteq Places(lg)
    /\ \A p \in left : p[1] # s => p \in left2
    /\ \A p \in Places(lg) : p[1] = s =>
           /\ p \in left <=> ~Passed(here, lg, p)
           /\ p \in left2 <=> ~Passed(there, lg, p)

(* The commit s is next for the post: all after it is left, nothing before. *)
InTurn(lg, s, uri, o, left, bad) ==
    /\ \A p \in Effective(lg, uri, o) :
           p \in left \/ p[1] = s => Followed(lg, uri, o, p, left, bad)
    /\ lg[s].repo = uri[1] => \A p \in Effective(lg, uri, o) :
           p[1] < s => p \notin left \/ p[1] \in bad

(***************************************************************************)
(* A step of ProcessEvent keeps every row on track, if nothing that counts *)
(* is left of the repo before its commit and everything is after it.       *)
(***************************************************************************)
LEMMA ProcessOnTrack ==
    ASSUME NEW Executor, ProcessorTypeOK(Executor), NEW x \in Executor,
           NEW lg \in Seq(Commit), NEW s \in 1..Len(lg), NEW ok \in BOOLEAN,
           ProcessStep(x, s, lg[s], ok),
           NEW uri \in Uri, NEW o, s > o,
           NEW left, NEW bad, NEW left2, NEW bad2,
           Passes(at[x], at'[x], lg, s, left, left2),
           InTurn(lg, s, uri, o, left, bad),
           bad \subseteq bad2, failed' \subseteq bad2,
           OnTrack(posts[uri], lg, uri, o, left, bad)
    PROVE  OnTrack(posts'[uri], lg, uri, o, left2, bad2)
  <1> DEFINE p0 == <<s, at[x].op>>
             E == Effective(lg, uri, o)
             D == Deletions(lg, uri, o)
  <1> USE DEF Passes, InTurn
  <1>1. /\ p0 \in Places(lg) /\ p0[1] = s /\ p0[2] = at[x].op
        /\ NextOp(x) \/ NextPipeline(x)
    BY StepOnPost
  <1>2. left \ {p0} \subseteq left2
    <2> SUFFICES ASSUME NEW p \in left, p # p0 PROVE p \in left2
      OBVIOUS
    <2>1. CASE p[1] # s
      BY <2>1
    <2>2. CASE p[1] = s
      <3>1. p[2] # at[x].op
        BY <2>2 DEF Places
      <3> QED
        BY <1>1, <2>2, <3>1, StepPasses
    <2> QED
      BY <2>1, <2>2
  <1>3. E \subseteq PlacesOf(lg, uri) /\ D \subseteq E
    BY PlacesInOrder
  <1>4. ASSUME posts'[uri] = posts[uri], p0 \in E \cap left => p0 \in left2
        PROVE  OnTrack(posts'[uri], lg, uri, o, left2, bad2)
    BY <1>2, <1>4, StaysOnTrack
  <1>5. CASE posts'[uri] = posts[uri] /\ p0 \notin E
    BY <1>4, <1>5
  <1>6. CASE /\ posts'[uri] = posts[uri]
             /\ p0 \in E \ D /\ at[x].pipe \notin SelectingAt(lg, p0)
             /\ NextPipeline(x)
    <2>1. ~Skipped(OpAt(lg, p0)) /\ OpAt(lg, p0).action # "delete"
      BY <1>6 DEF Effective, Deletions
    <2>2. OpAt(lg, p0).action = "create" /\ SelectingAt(lg, p0) # {}
      <3>1. OpAt(lg, p0).action \in {"create", "update", "delete"}
        <4>1. lg[s].ops \in Seq(Op) /\ at[x].op \in 1..Len(lg[s].ops)
          BY <1>3, <1>6, PlacesOfPost, NetworkAssumption DEF CommitRecord
        <4>2. lg[s].ops[at[x].op] \in Op
          BY <4>1
        <4> QED
          BY <4>2 DEF OpAt, Op
      <3>2. OpAt(lg, p0).action = "create"
        BY <2>1, <3>1 DEF Skipped
      <3> QED
        BY <1>6, <3>2 DEF Effective, SelectingAt
    <2>3. Passed(at'[x], lg, p0) => Passed(at[x], lg, p0)
      BY <1>1, <1>6, <2>1, <2>2, IdlePasses
    <2> QED
      BY <1>1, <1>4, <1>6, <2>3
  <1>7. CASE posts'[uri] = posts[uri] /\ p0 \in E /\ s \in failed'
    <2>1. Followed(lg, uri, o, p0, left, bad) /\ p0[1] \in bad2 /\ p0 \in PlacesOf(lg, uri)
      BY <1>1, <1>3, <1>7
    <2> QED
      BY <1>2, <2>1, FailedOnTrack
  <1>8. CASE posts'[uri] = NoRow /\ p0 \in D
    <2>1. Followed(lg, uri, o, p0, left, bad)
      BY <1>1, <1>3, <1>8
    <2> QED
      BY <1>2, <1>8, <2>1, DeletedOnTrack
  <1>9. CASE /\ p0 \in E \ D /\ at[x].pipe \in SelectingAt(lg, p0)
             /\ posts'[uri] = IF posts[uri] = NoRow
                              THEN RowOf(lg, p0, at[x].pipe) ELSE posts[uri]
    <2> DEFINE i == at[x].pipe
    <2>1. Followed(lg, uri, o, p0, left, bad)
      BY <1>1, <1>9
    <2>2. p0 \in left => IsLeast(i, SelectingAt(lg, p0))
      <3> SUFFICES ASSUME p0 \in left, NEW j \in SelectingAt(lg, p0), j < i
                   PROVE  FALSE
        <4>1. \A j \in SelectingAt(lg, p0) : j \in Nat
          BY ProcessorAssumption DEF SelectingAt, Selecting
        <4> QED
          BY <1>9, <4>1 DEF IsLeast
      <3>1. OpAt(lg, p0).action = "create" /\ ~Skipped(OpAt(lg, p0))
        <4>1. lg[s].ops \in Seq(Op) /\ at[x].op \in 1..Len(lg[s].ops)
          BY <1>3, <1>9, PlacesOfPost, NetworkAssumption DEF CommitRecord
        <4>2. OpAt(lg, p0) \in Op
          BY <4>1 DEF OpAt
        <4>3. OpAt(lg, p0).action # "delete" /\ ~Skipped(OpAt(lg, p0))
          BY <1>9 DEF Effective, Deletions
        <4> QED
          BY <4>2, <4>3 DEF Op, Skipped
      <3>2. Passed(at[x], lg, p0)
        BY <1>1, <3>1 DEF Passed
      <3> QED
        BY <1>1, <3>2
    <2>3. \A q \in E : q[1] < p0[1] => q \notin left \/ q[1] \in bad
      <3>1. lg[s].repo = uri[1]
        BY <1>1, <1>3, <1>9 DEF PlacesOf, BuildURI
      <3> QED
        BY <1>1, <3>1
    <2>4. ASSUME NEW p, p = p0, NEW j, j = i, NEW row, row = posts[uri],
                 NEW new, new = posts'[uri]
          PROVE  OnTrack(new, lg, uri, o, left2, bad2)
      <3>1. row = NoRow => new = RowOf(lg, p, j)
        BY <1>9, <2>4
      <3>2. row # NoRow => new = row
        BY <1>9, <2>4
      <3>3. OnTrack(row, lg, uri, o, left, bad) /\ left \ {p} \subseteq left2
        BY <1>2, <2>4
      <3>4. Creates(lg, uri, o, p, j, left, bad)
        BY <1>9, <2>1, <2>2, <2>3, <2>4 DEF Creates
      <3> QED
        BY <3>1, <3>2, <3>3, <3>4, CreatedOnTrack
    <2> QED
      BY <2>4
  <1> QED
    BY <1>5, <1>6, <1>7, <1>8, <1>9, StepOnPost
=============================================================================
