--------------------------- MODULE FeedPublishing ---------------------------
(***************************************************************************)
(* The commands "baldsky publish feed", "update feed" and "delete feed":   *)
(* each goes through the configured feeds and creates, replaces or deletes *)
(* the record of each on the publisher's PDS.  Any number of them may run  *)
(* at the same time, and a call that its command has given up may still    *)
(* arrive.                                                                 *)
(***************************************************************************)
EXTENDS Integers, FiniteSets

CONSTANTS
    Feed,       \* the short names of the configured pipelines
    Enabled,    \* those that are enabled
    Generator,  \* those with the collection app.bsky.feed.generator
    Cmd,        \* runs of a command
    Cid,        \* what a record can hold
    Absent      \* no record

ASSUME FeedPublishingAssumption ==
    Enabled \subseteq Feed /\ Generator \subseteq Feed /\ Absent \notin Cid

VARIABLES
    op,         \* per command: publish, update or delete
    content,    \* per command, what it writes: its feeds and createdAt
    step,       \* per command: new, next, fetched, calling, ended
    todo,       \* per command, the entries its loop has not come to
    at,         \* per command, the set of the one it is at
    basis,      \* per command, the record it fetched
    call,       \* per command, its last call: none, sent, applied or refused
    done,       \* per command, the entries it returns
    failed,     \* per command, whether it returns an error
    record,     \* the records on the PDS
    wrote,      \* nobody keeps it: where a command's calls were carried out
    since       \* nor this: who wrote what an update fetched, after it did

command == <<op, content>>
vars == <<command, step, todo, at, basis, call, done, failed, record, wrote, since>>

TypeOK ==
    /\ op \in [Cmd -> {"publish", "update", "delete"}]
    /\ content \in [Cmd -> Cid]
    /\ step \in [Cmd -> {"new", "next", "fetched", "calling", "ended"}]
    /\ todo \in [Cmd -> SUBSET Feed]
    /\ at \in [Cmd -> SUBSET Feed]
    /\ basis \in [Cmd -> Cid \cup {Absent}]
    /\ \A c \in Cmd : step[c] = "fetched" => basis[c] # Absent
    /\ call \in [Cmd -> {"none", "sent", "applied", "refused"}]
    /\ done \in [Cmd -> SUBSET Feed]
    /\ failed \in [Cmd -> BOOLEAN]
    /\ record \in [Feed -> Cid \cup {Absent}]
    /\ wrote \in [Cmd -> SUBSET Feed]
    /\ since \in [Cmd -> SUBSET Cmd]

Init ==
    /\ op \in [Cmd -> {"publish", "update", "delete"}]
    /\ content \in [Cmd -> Cid]
    /\ step = [c \in Cmd |-> "new"]
    /\ todo = [c \in Cmd |-> {}]
    /\ at = [c \in Cmd |-> {}]
    /\ basis = [c \in Cmd |-> Absent]
    /\ call = [c \in Cmd |-> "none"]
    /\ done = [c \in Cmd |-> {}]
    /\ failed = [c \in Cmd |-> FALSE]
    /\ record \in [Feed -> Cid \cup {Absent}]
    /\ wrote = [c \in Cmd |-> {}]
    /\ since = [c \in Cmd |-> {}]

-----------------------------------------------------------------------------
(* The loop over the entries. *)

Goes(c, next) == step' = [step EXCEPT ![c] = next]

(* What the commands make of the configuration, and what their loops skip. *)
Entries == Enabled
Records == Entries \cap Generator

(* Authenticated, or not: then nothing was done. *)
CreateSession(c) ==
    /\ step[c] = "new"
    /\ \/ /\ Goes(c, "next")
          /\ todo' = [todo EXCEPT ![c] = Records]
          /\ UNCHANGED failed
       \/ /\ Goes(c, "ended")
          /\ failed' = [failed EXCEPT ![c] = TRUE]
          /\ UNCHANGED todo
    /\ UNCHANGED <<command, at, basis, call, done, record, wrote, since>>

(* Mutant: the loop goes on with the next entry. *)
FailsAndGoesOn(c) ==
    /\ Goes(c, "next")
    /\ todo' = [todo EXCEPT ![c] = @ \ at[c]]
    /\ UNCHANGED <<command, at, basis, call, done, failed, record, wrote, since>>

(* The first error ends the command, with what was done so far. *)
Fails(c) ==
    /\ Goes(c, "ended")
    /\ failed' = [failed EXCEPT ![c] = TRUE]
    /\ UNCHANGED <<command, todo, at, basis, call, done, record, wrote, since>>

(* A map is gone through in any order. *)
Calls(c, f) ==
    /\ f \in todo[c]
    /\ Goes(c, "calling")
    /\ at' = [at EXCEPT ![c] = {f}]
    /\ call' = [call EXCEPT ![c] = "sent"]
    /\ UNCHANGED <<command, todo, basis, done, failed, record, wrote, since>>

Returns(c) ==
    /\ step[c] = "calling"
    /\ IF call[c] = "applied"
       THEN /\ Goes(c, "next")
            /\ done' = [done EXCEPT ![c] = @ \cup at[c]]
            /\ todo' = [todo EXCEPT ![c] = @ \ at[c]]
            /\ call' = [call EXCEPT ![c] = "none"]
            /\ UNCHANGED <<command, at, basis, failed, record, wrote, since>>
       ELSE call[c] = "refused" /\ Fails(c)

(* A signal, a lost connection or a lost answer: the call may arrive yet.  *)
GivesUp(c) == step[c] = "calling" /\ Fails(c)

Ends(c) ==
    /\ step[c] = "next" /\ todo[c] = {}
    /\ Goes(c, "ended")
    /\ UNCHANGED <<command, todo, at, basis, call, done, failed, record, wrote, since>>

Loop(c) == CreateSession(c) \/ Returns(c) \/ GivesUp(c) \/ Ends(c)

-----------------------------------------------------------------------------
(* The three commands. *)

PublishFeed(c, f) == step[c] = "next" /\ Calls(c, f)

Publish(c) == Loop(c) \/ \E f \in Feed : PublishFeed(c, f)

(* Mutant: updates a record that is not there. *)
FetchUnchecked(c, f) ==
    /\ step[c] = "next" /\ f \in todo[c]
    /\ Goes(c, "fetched")
    /\ at' = [at EXCEPT ![c] = {f}]
    /\ basis' = [basis EXCEPT ![c] = record[f]]
    /\ since' = [since EXCEPT ![c] = {}]
    /\ UNCHANGED <<command, todo, call, done, failed, record, wrote>>

(* getRecord, which fails where there is no record. *)
Fetch(c, f) ==
    /\ step[c] = "next" /\ f \in todo[c]
    /\ record[f] # Absent
    /\ Goes(c, "fetched")
    /\ at' = [at EXCEPT ![c] = {f}]
    /\ basis' = [basis EXCEPT ![c] = record[f]]
    /\ since' = [since EXCEPT ![c] = {}]
    /\ UNCHANGED <<command, todo, call, done, failed, record, wrote>>

FetchFails(c) == step[c] = "next" /\ todo[c] # {} /\ Fails(c)

UpdateFeed(c, f) ==
    \/ Fetch(c, f)
    \/ step[c] = "fetched" /\ f \in at[c] /\ Calls(c, f)

Update(c) == Loop(c) \/ FetchFails(c) \/ \E f \in Feed : UpdateFeed(c, f)

DeleteFeed(c, f) == step[c] = "next" /\ Calls(c, f)

Delete(c) == Loop(c) \/ \E f \in Feed : DeleteFeed(c, f)

RunPublishFeed(c) == op[c] = "publish" /\ Publish(c)
RunUpdateFeed(c) == op[c] = "update" /\ Update(c)
RunDeleteFeed(c) == op[c] = "delete" /\ Delete(c)

-----------------------------------------------------------------------------
(* The PDS. *)

(* Mutant: putRecord is called without swapRecord. *)
ReplacesAny(c) == Cid \cup {Absent}

(* With it, it replaces what was fetched: a CID stands for the content.    *)
Replaces(c) == {basis[c]}

(* createRecord replaces nothing, deleteRecord does not mind if there is   *)
(* no record.                                                              *)
Accepts(c, f) ==
    CASE op[c] = "publish" -> record[f] = Absent
      [] op[c] = "update"  -> record[f] \in Replaces(c)
      [] op[c] = "delete"  -> TRUE

(* The updates that fetched f and whose putRecord may yet be carried out.  *)
Updating(f) ==
    {c \in Cmd : /\ op[c] = "update" /\ f \in at[c]
                 /\ step[c] = "fetched" \/ call[c] = "sent"}

Apply(c, f) ==
    /\ call[c] = "sent" /\ f \in at[c] /\ Accepts(c, f)
    /\ record' = [record EXCEPT ![f] =
                      IF op[c] = "delete" THEN Absent ELSE content[c]]
    /\ wrote' = [wrote EXCEPT ![c] = @ \cup {f}]
    /\ since' = [d \in Cmd |-> IF d \in Updating(f) \ {c}
                               THEN since[d] \cup {c} ELSE since[d]]
    /\ call' = [call EXCEPT ![c] = "applied"]
    /\ UNCHANGED <<command, step, todo, at, basis, done, failed>>

(* For this or any other reason. *)
Refuse(c) ==
    /\ call[c] = "sent"
    /\ call' = [call EXCEPT ![c] = "refused"]
    /\ UNCHANGED <<command, step, todo, at, basis, done, failed, record, wrote, since>>

PDS == \E c \in Cmd : Refuse(c) \/ \E f \in Feed : Apply(c, f)

Next ==
    \/ \E c \in Cmd : RunPublishFeed(c) \/ RunUpdateFeed(c) \/ RunDeleteFeed(c)
    \/ PDS

Spec == Init /\ [][Next]_vars
-----------------------------------------------------------------------------
(* Safety. *)

(***************************************************************************)
(* What a command returns is what it did, up to the entry it failed at,    *)
(* which may be done without its knowing; and without an error it did all  *)
(* of them.                                                                *)
(***************************************************************************)
ReportsMatch ==
    \A c \in Cmd :
        /\ done[c] \subseteq wrote[c]
        /\ wrote[c] \subseteq done[c] \cup at[c]
        /\ step[c] = "ended" /\ ~failed[c] => done[c] = Records

(***************************************************************************)
(* Why it holds: a command has at most one call in doubt, for an entry     *)
(* that its loop has yet to leave; before it makes one, all that was done  *)
(* is known.                                                               *)
(***************************************************************************)
Accounted(c) ==
    /\ done[c] \subseteq wrote[c]
    /\ wrote[c] \subseteq done[c] \cup at[c]
    /\ \A f, g \in at[c] : f = g
    /\ step[c] \in {"new", "next", "fetched"} =>
           call[c] = "none" /\ wrote[c] \subseteq done[c]
    /\ call[c] = "applied" => at[c] \subseteq wrote[c]
    /\ step[c] = "new" => done[c] = {}
    /\ step[c] \in {"next", "fetched", "calling"} => done[c] \cup todo[c] = Records
    /\ step[c] \in {"fetched", "calling"} => at[c] \subseteq todo[c]
    /\ step[c] = "ended" /\ ~failed[c] => done[c] = Records
    /\ op[c] = "update" /\ call[c] = "sent" => basis[c] # Absent

CommandInv == \A c \in Cmd : Accounted(c)

(***************************************************************************)
(* Commands run at the same time, and calls arrive after their command     *)
(* gave up.  Still an update that was carried out replaced what it had     *)
(* fetched: if others wrote to the record in between, they had put that    *)
(* very content back (two commands of one second write the same), so it    *)
(* neither overwrites an update it has not seen nor brings back what was   *)
(* deleted.  Nothing of the kind is true of the other two commands: a late *)
(* createRecord restores what was deleted, a deleteRecord has no swap and  *)
(* removes what others wrote.                                              *)
(***************************************************************************)
PutBack(c) == \E d \in since[c] : op[d] # "delete" /\ content[d] = basis[c]

NoLostUpdate ==
    \A c \in Cmd :
        op[c] = "update" /\ call[c] = "applied" => since[c] = {} \/ PutBack(c)

(***************************************************************************)
(* Why it holds: until its call is carried out, that is so of every update *)
(* that would still be accepted.                                           *)
(***************************************************************************)
Guarded ==
    \A f \in Feed : \A c \in Updating(f) :
        record[f] = basis[c] => since[c] = {} \/ PutBack(c)
=============================================================================
