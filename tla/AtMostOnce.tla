----------------------------- MODULE AtMostOnce -----------------------------
(***************************************************************************)
(* What core NATS and a publisher that never tries twice promise: each     *)
(* time a commit is read from the relay, it is put on its way at most      *)
(* once, and what is on its way is handled at most once or lost.  Several  *)
(* copies of a commit are on their way only if it was read several times.  *)
(***************************************************************************)
EXTENDS Integers

CONSTANT Seqs       \* the sequence numbers

VARIABLES
    pos,        \* the last commit read
    owed,       \* commits read and not yet published
    transit,    \* per commit, how many copies of it are on their way
    consumed    \* commits that were handled

vars == <<pos, owed, transit, consumed>>

Init ==
    /\ pos = 0 /\ owed = {}
    /\ transit = [s \in Seqs |-> 0]
    /\ consumed = {}

Join ==
    /\ owed = {}
    /\ pos' \in Seqs \cup {0}
    /\ UNCHANGED <<owed, transit, consumed>>

Read ==
    /\ pos' = pos + 1
    /\ owed' = owed \cup {pos'}
    /\ UNCHANGED <<transit, consumed>>

Publish(s) ==
    /\ s \in owed
    /\ owed' = owed \ {s}
    /\ transit' = [transit EXCEPT ![s] = @ + 1]
    /\ UNCHANGED <<pos, consumed>>

Consume(s) ==
    /\ transit[s] > 0
    /\ transit' = [transit EXCEPT ![s] = @ - 1]
    /\ consumed' = consumed \cup {s}
    /\ UNCHANGED <<pos, owed>>

Fewer == \A s \in Seqs : transit'[s] \in 0..transit[s]

(* Not published, dropped, or in a process that ends. *)
Lose ==
    /\ owed' \subseteq owed
    /\ Fewer
    /\ UNCHANGED <<pos, consumed>>

Crash == pos' = 0 /\ owed' = {} /\ Fewer /\ UNCHANGED consumed

Next ==
    \/ Join \/ Read \/ Lose \/ Crash
    \/ \E s \in Seqs : Publish(s) \/ Consume(s)

Spec == Init /\ [][Next]_vars
=============================================================================
