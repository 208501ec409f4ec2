-------------------------- MODULE PublishingProofs --------------------------
(***************************************************************************)
(* That commands which write to the same records, fail and leave calls     *)
(* behind report what they did and undo nothing of each other's, for any   *)
(* number of commands and feeds.                                           *)
(***************************************************************************)
EXTENDS FeedPublishing, TLAPS

(* The invariant: what each command knows of its calls, with the types. *)
Inv == TypeOK /\ CommandInv

(* The loop's own steps, the call's answer among them. *)
LEMMA LoopKeeps ==
    ASSUME Inv, NEW c \in Cmd, Loop(c)
    PROVE  Inv'
<1> USE DEF Goes, command
<1>1. CASE CreateSession(c)
  <2>1. Records \in SUBSET Feed
    BY FeedPublishingAssumption DEF Records, Entries
  <2>2. TypeOK'
    BY <1>1, <2>1 DEF Inv, TypeOK, CreateSession
  <2>3. CommandInv'
    BY <1>1 DEF Inv, TypeOK, CommandInv, Accounted, Records, Entries, CreateSession
  <2> QED BY <2>2, <2>3 DEF Inv
<1>2. CASE Returns(c)
  <2>1. TypeOK'
    <3>1. CASE call[c] = "applied"
      BY <1>2, <3>1 DEF Inv, TypeOK, Returns
    <3>2. CASE call[c] # "applied"
      BY <1>2, <3>2 DEF Inv, TypeOK, Returns, Fails
    <3> QED BY <3>1, <3>2
  <2>2. CommandInv'
    BY <1>2 DEF Inv, TypeOK, CommandInv, Accounted, Records, Entries, Returns, Fails
  <2> QED BY <2>1, <2>2 DEF Inv
<1> USE DEF Inv, TypeOK, CommandInv, Accounted, Records, Entries
<1>3. CASE GivesUp(c)
  BY <1>3 DEF GivesUp, Fails
<1>4. CASE Ends(c)
  BY <1>4 DEF Ends
<1> QED BY <1>1, <1>2, <1>3, <1>4 DEF Loop

(* A command at an entry of its loop sends its call. *)
LEMMA CallsKeeps ==
    ASSUME Inv, NEW c \in Cmd, NEW f \in Feed, Calls(c, f),
           step[c] \in {"next", "fetched"},
           op[c] = "update" => step[c] = "fetched"
    PROVE  Inv'
<1> USE DEF Calls, Goes, command
<1>1. TypeOK'
  BY DEF Inv, TypeOK
<1>2. CommandInv'
  BY DEF Inv, TypeOK, CommandInv, Accounted, Records, Entries
<1> QED BY <1>1, <1>2 DEF Inv

(* An update reads a record before it replaces it, or cannot. *)
LEMMA FetchKeeps ==
    ASSUME Inv, NEW c \in Cmd,
           FetchFails(c) \/ \E f \in Feed : Fetch(c, f)
    PROVE  Inv'
<1> USE DEF Inv, TypeOK, CommandInv, Accounted, Goes, command, Records, Entries
<1>1. CASE FetchFails(c)
  BY <1>1 DEF FetchFails, Fails
<1>2. ASSUME NEW f \in Feed, Fetch(c, f)
      PROVE  Inv'
  <2>1. TypeOK'
    BY <1>2 DEF Fetch
  <2>2. CommandInv'
    BY <1>2 DEF Fetch
  <2> QED BY <2>1, <2>2
<1> QED BY <1>1, <1>2

(* The PDS carries a call out, whether its command still waits or not. *)
LEMMA PDSKeeps ==
    ASSUME Inv, PDS
    PROVE  Inv'
<1> USE DEF Inv, TypeOK, CommandInv, Accounted, command, Records, Entries
<1>1. ASSUME NEW c \in Cmd, Refuse(c)
      PROVE  Inv'
  BY <1>1 DEF Refuse
<1>2. ASSUME NEW c \in Cmd, NEW f \in Feed, Apply(c, f)
      PROVE  Inv'
  <2>1. TypeOK'
    BY <1>2 DEF Apply
  <2>2. step[c] \in {"calling", "ended"}
    BY <1>2 DEF Apply
  <2>3. /\ call' = [call EXCEPT ![c] = "applied"]
        /\ wrote' = [wrote EXCEPT ![c] = @ \cup {f}]
        /\ UNCHANGED <<op, step, todo, at, basis, done, failed>>
    BY <1>2 DEF Apply
  <2>4. f \in at[c] /\ (op[c] = "update" => basis[c] # Absent)
    BY <1>2 DEF Apply
  <2>5. ASSUME NEW d \in Cmd
        PROVE  Accounted(d)'
    <3>1. CASE d = c
      <4>1. call'[c] = "applied" /\ wrote'[c] = wrote[c] \cup {f}
        BY <2>3
      <4> QED BY <2>2, <2>3, <2>4, <3>1, <4>1
    <3>2. CASE d # c
      BY <2>3, <3>2
    <3> QED BY <3>1, <3>2
  <2> QED BY <2>1, <2>5
<1> QED BY <1>1, <1>2 DEF PDS

(* What each command knows of its calls stays so. *)
LEMMA InvHolds == Spec => []Inv
<1>1. Init => Inv
  BY FeedPublishingAssumption
     DEF Init, Inv, TypeOK, CommandInv, Accounted
<1>2. Inv /\ [Next]_vars => Inv'
  <2> SUFFICES ASSUME Inv, [Next]_vars
               PROVE  Inv'
    OBVIOUS
  <2>1. ASSUME NEW c \in Cmd, RunPublishFeed(c)
        PROVE  Inv'
    BY <2>1, LoopKeeps, CallsKeeps DEF RunPublishFeed, Publish, PublishFeed
  <2>2. ASSUME NEW c \in Cmd, RunUpdateFeed(c)
        PROVE  Inv'
    BY <2>2, LoopKeeps, CallsKeeps, FetchKeeps DEF RunUpdateFeed, Update, UpdateFeed
  <2>3. ASSUME NEW c \in Cmd, RunDeleteFeed(c)
        PROVE  Inv'
    BY <2>3, LoopKeeps, CallsKeeps DEF RunDeleteFeed, Delete, DeleteFeed
  <2>4. CASE PDS
    BY <2>4, PDSKeeps
  <2>5. CASE UNCHANGED vars
    BY <2>5 DEF vars, command, Inv, TypeOK, CommandInv, Accounted
  <2> QED BY <2>1, <2>2, <2>3, <2>4, <2>5 DEF Next
<1> QED BY <1>1, <1>2, PTL DEF Spec

(* The commands keep their state in shape; an update never goes on without *)
(* the record it is to replace. *)
THEOREM TypeCorrect == Spec => []TypeOK
<1>1. Inv => TypeOK
  BY DEF Inv
<1> QED BY <1>1, InvHolds, PTL

(* What a command returns is what it did, but for the entry in doubt. *)
THEOREM ReportsMatchHolds == Spec => []ReportsMatch
<1>1. Inv => ReportsMatch
  BY DEF Inv, CommandInv, Accounted, ReportsMatch
<1> QED BY <1>1, InvHolds, PTL

-----------------------------------------------------------------------------
(* What updates overwrite. *)

(* Where nothing is written, updates only begin, with what is there, and   *)
(* what was put back stays put back. *)
LEMMA GuardedUnwritten ==
    ASSUME Guarded, UNCHANGED <<op, content, record>>,
           \A c \in Cmd, f \in Feed :
               c \in Updating(f)' =>
                   \/ since'[c] = {}
                   \/ c \in Updating(f) /\ UNCHANGED <<basis[c], since[c]>>
    PROVE  Guarded'
<1> SUFFICES ASSUME NEW f \in Feed, NEW c \in Cmd, c \in Updating(f)',
                    record'[f] = basis'[c]
             PROVE  since'[c] = {} \/ PutBack(c)'
  BY DEF Guarded, Updating
<1>1. CASE c \in Updating(f) /\ UNCHANGED <<basis[c], since[c]>>
  <2>1. since[c] = {} \/ PutBack(c)
    BY <1>1 DEF Guarded
  <2> QED BY <1>1, <2>1 DEF PutBack
<1> QED BY <1>1

(* A command's own step. *)
LEMMA CommandGuards ==
    ASSUME Inv, Guarded, NEW c \in Cmd,
           RunPublishFeed(c) \/ RunUpdateFeed(c) \/ RunDeleteFeed(c)
    PROVE  Guarded'
<1> USE DEF Inv, TypeOK, CommandInv, Accounted, Goes, command
<1>1. CASE Loop(c) \/ FetchFails(c)
  <2>1. UNCHANGED <<op, content, record, basis, since>>
    BY <1>1 DEF Loop, CreateSession, Returns, GivesUp, Ends, Fails, FetchFails
  <2>2. ASSUME NEW d \in Cmd, NEW f \in Feed, d \in Updating(f)'
        PROVE  d \in Updating(f)
    BY <1>1, <2>2 DEF Loop, CreateSession, Returns, GivesUp, Ends, Fails, FetchFails,
                      Updating
  <2> QED BY <2>1, <2>2, GuardedUnwritten
<1>2. ASSUME NEW f \in Feed, Fetch(c, f)
      PROVE  Guarded'
  <2>1. /\ UNCHANGED <<op, content, record, call>> /\ since'[c] = {}
        /\ \A d \in Cmd \ {c} : UNCHANGED <<step[d], at[d], basis[d], since[d]>>
    BY <1>2 DEF Fetch
  <2>2. ASSUME NEW d \in Cmd, NEW g \in Feed, d \in Updating(g)', d # c
        PROVE  d \in Updating(g)
    BY <2>1, <2>2 DEF Updating
  <2> QED BY <2>1, <2>2, GuardedUnwritten
<1>3. ASSUME NEW f \in Feed, Calls(c, f),
             op[c] = "update" => step[c] = "fetched" /\ f \in at[c]
      PROVE  Guarded'
  <2>1. UNCHANGED <<op, content, record, basis, since>>
    BY <1>3 DEF Calls
  <2>2. ASSUME NEW d \in Cmd, NEW g \in Feed, d \in Updating(g)'
        PROVE  d \in Updating(g)
    BY <1>3, <2>2 DEF Calls, Updating
  <2> QED BY <2>1, <2>2, GuardedUnwritten
<1> QED BY <1>1, <1>2, <1>3
        DEF RunPublishFeed, RunUpdateFeed, RunDeleteFeed, Publish, Update, Delete,
            PublishFeed, UpdateFeed, DeleteFeed

(* A call that is carried out: an update that would still be accepted      *)
(* fetched what was put there. *)
LEMMA ApplyGuards ==
    ASSUME Inv, Guarded, NEW c \in Cmd, NEW f \in Feed, Apply(c, f)
    PROVE  Guarded'
<1> SUFFICES ASSUME NEW g \in Feed, NEW d \in Cmd, d \in Updating(g)',
                    record'[g] = basis[d]
             PROVE  since'[d] = {} \/ PutBack(d)'
  BY DEF Guarded, Apply, Updating
<1>1. /\ UNCHANGED <<op, content, step, at, basis>>
      /\ call' = [call EXCEPT ![c] = "applied"] /\ f \in at[c]
      /\ record' = [record EXCEPT ![f] =
                        IF op[c] = "delete" THEN Absent ELSE content[c]]
      /\ since'[d] = IF d \in Updating(f) \ {c} THEN since[d] \cup {c} ELSE since[d]
  BY DEF Apply, command
<1>2. call[c] = "sent" /\ step[c] # "fetched" /\ d # c /\ d \in Updating(g)
  BY <1>1 DEF Apply, Updating, Inv, TypeOK, CommandInv, Accounted
<1>3. at[d] = {g} /\ basis[d] # Absent /\ op[d] = "update"
  BY <1>2 DEF Updating, Inv, TypeOK, CommandInv, Accounted
<1>4. CASE f = g
  <2>1. since'[d] = since[d] \cup {c}
    BY <1>1, <1>2, <1>4
  <2>2. op[c] # "delete" /\ content[c] = basis[d]
    BY <1>1, <1>3, <1>4 DEF Inv, TypeOK
  <2> QED BY <1>1, <2>1, <2>2 DEF PutBack
<1>5. CASE f # g
  <2>1. since'[d] = since[d] /\ record[g] = basis[d]
    BY <1>1, <1>3, <1>5 DEF Updating, Inv, TypeOK
  <2> QED BY <1>1, <1>2, <2>1 DEF Guarded, PutBack
<1> QED BY <1>4, <1>5

(* An update that the PDS carries out was one that it could. *)
LEMMA NoLossKept ==
    ASSUME Inv, Guarded, NoLostUpdate, [Next]_vars
    PROVE  NoLostUpdate'
<1> USE DEF Inv, TypeOK
<1>1. ASSUME NEW c \in Cmd, NEW f \in Feed, Apply(c, f)
      PROVE  NoLostUpdate'
  <2>1. /\ UNCHANGED <<op, content, basis>>
        /\ call' = [call EXCEPT ![c] = "applied"]
    BY <1>1 DEF Apply, command
  <2>2. ASSUME NEW d \in Cmd, op[d] = "update", call'[d] = "applied"
        PROVE  since'[d] = since[d] /\ (since[d] = {} \/ PutBack(d))
    <3>1. CASE d = c
      <4>1. d \in Updating(f) /\ record[f] = basis[d]
        BY <1>1, <2>2, <3>1 DEF Apply, Accepts, Replaces, Updating
      <4> QED BY <1>1, <3>1, <4>1 DEF Apply, Guarded
    <3>2. CASE d # c
      <4>1. call[d] = "applied"
        BY <2>1, <2>2, <3>2
      <4>2. step[d] # "fetched"
        BY <4>1 DEF CommandInv, Accounted
      <4>3. d \notin Updating(f)
        BY <4>1, <4>2 DEF Updating
      <4> QED BY <1>1, <2>2, <4>1, <4>3 DEF Apply, NoLostUpdate
    <3> QED BY <3>1, <3>2
  <2> QED BY <2>1, <2>2 DEF NoLostUpdate, PutBack
<1>2. CASE ~\E c \in Cmd, f \in Feed : Apply(c, f)
  <2>1. UNCHANGED <<op, content>>
    BY <1>2 DEF Next, RunPublishFeed, RunUpdateFeed, RunDeleteFeed, Publish, Update,
           Delete, Loop, CreateSession, Returns, GivesUp, Ends, Fails, FetchFails,
           Calls, PublishFeed, UpdateFeed, Fetch, DeleteFeed, PDS, Refuse, vars, command
  <2>2. ASSUME NEW d \in Cmd, call'[d] = "applied"
        PROVE  call[d] = "applied" /\ UNCHANGED <<basis[d], since[d]>>
    BY <1>2, <2>2
       DEF Next, RunPublishFeed, RunUpdateFeed, RunDeleteFeed, Publish, Update,
           Delete, Loop, CreateSession, Returns, GivesUp, Ends, Fails, FetchFails,
           Calls, PublishFeed, UpdateFeed, Fetch, DeleteFeed, PDS, Refuse, vars,
           CommandInv, Accounted
  <2> QED BY <2>1, <2>2 DEF NoLostUpdate, PutBack
<1> QED BY <1>1, <1>2

(* No update overwrites what it has not seen. *)
THEOREM NoLostUpdateHolds == Spec => []NoLostUpdate
<1>1. Init => Guarded /\ NoLostUpdate
  BY DEF Init, Guarded, NoLostUpdate, Updating
<1>2. Inv /\ Guarded /\ NoLostUpdate /\ [Next]_vars => Guarded' /\ NoLostUpdate'
  <2> SUFFICES ASSUME Inv, Guarded, NoLostUpdate, [Next]_vars
               PROVE  Guarded' /\ NoLostUpdate'
    OBVIOUS
  <2>1. CASE \E c \in Cmd : RunPublishFeed(c) \/ RunUpdateFeed(c) \/ RunDeleteFeed(c)
    BY <2>1, CommandGuards, NoLossKept
  <2>2. CASE PDS
    <3>1. ASSUME NEW c \in Cmd, Refuse(c)
          PROVE  Guarded'
      <4>1. UNCHANGED <<op, content, record, basis, since, step, at>>
        BY <3>1 DEF Refuse, command
      <4>2. \A d \in Cmd : call'[d] = "sent" => call[d] = "sent"
        BY <3>1 DEF Refuse, Inv, TypeOK
      <4>3. ASSUME NEW d \in Cmd, NEW f \in Feed, d \in Updating(f)'
            PROVE  d \in Updating(f)
        BY <4>1, <4>2, <4>3 DEF Updating
      <4> QED BY <4>1, <4>3, GuardedUnwritten
    <3> QED BY <2>2, <3>1, ApplyGuards, NoLossKept DEF PDS
  <2>3. CASE UNCHANGED vars
    <3>1. UNCHANGED <<op, content, record, basis, since, step, at, call>>
      BY <2>3 DEF vars, command
    <3>2. Guarded'
      BY <3>1 DEF Guarded, Updating, PutBack
    <3> QED BY <3>2, NoLossKept
  <2> QED BY <2>1, <2>2, <2>3 DEF Next
<1> QED BY <1>1, <1>2, InvHolds, PTL DEF Spec
=============================================================================
