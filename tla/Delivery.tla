------------------------------ MODULE Delivery ------------------------------
(***************************************************************************)
(* What a caller of FirehoseConn.Run may rely on, without readers, workers *)
(* and queues: from the place where a connection joins the log each commit *)
(* is handled once, those of one repo one at a time and in the order of    *)
(* the log, and the next connection waits for all of them.  Only the end   *)
(* of the process cuts this short.                                         *)
(***************************************************************************)
EXTENDS Integers, Sequences

CONSTANT Commit

VARIABLES
    log,        \* the relay's log
    pos,        \* the last commit read
    due,        \* commits read and not begun
    doing       \* commits being handled

vars == <<log, pos, due, doing>>

SameRepo(s, t) == log[s].repo = log[t].repo

Init == log = <<>> /\ pos = 0 /\ due = {} /\ doing = {}

Emit ==
    /\ \E c \in Commit : log' = Append(log, c)
    /\ UNCHANGED <<pos, due, doing>>

Join ==
    /\ due = {} /\ doing = {}
    /\ pos' \in 0..Len(log)
    /\ UNCHANGED <<log, due, doing>>

Read ==
    /\ pos < Len(log)
    /\ pos' = pos + 1
    /\ due' = due \cup {pos'}
    /\ UNCHANGED <<log, doing>>

(* The oldest of its repo, whose commits are all handled. *)
Ready(s) ==
    /\ s \in due
    /\ \A t \in due : SameRepo(s, t) => s <= t
    /\ \A t \in doing : ~SameRepo(s, t)

Begin(s) ==
    /\ Ready(s)
    /\ due' = due \ {s}
    /\ doing' = doing \cup {s}
    /\ UNCHANGED <<log, pos>>

End(s) ==
    /\ s \in doing
    /\ doing' = doing \ {s}
    /\ UNCHANGED <<log, pos, due>>

(* One of the same repo is next, without a pause. *)
GoOn(s, t) ==
    /\ s \in doing /\ t \in due /\ SameRepo(s, t)
    /\ \A u \in due : SameRepo(t, u) => t <= u
    /\ \A u \in doing : SameRepo(t, u) => u = s
    /\ due' = due \ {t}
    /\ doing' = (doing \ {s}) \cup {t}
    /\ UNCHANGED <<log, pos>>

Crash == pos' = 0 /\ due' = {} /\ doing' = {} /\ UNCHANGED log

Next ==
    \/ Emit \/ Join \/ Read \/ Crash
    \/ \E s \in due : Begin(s)
    \/ \E s \in doing : End(s) \/ \E t \in due : GoOn(s, t)

Spec == Init /\ [][Next]_vars
=============================================================================
