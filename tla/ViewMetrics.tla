---------------------------- MODULE ViewMetrics ----------------------------
(***************************************************************************)
(* feed.MetricsService: request handlers put the feeds they served into a  *)
(* bounded channel, one goroutine takes them out and counts them in the    *)
(* table feed_stats, and Close ends the goroutine at the end of the        *)
(* program.                                                                *)
(***************************************************************************)
EXTENDS Integers, Sequences, FiniteSets

CONSTANTS
    Feed,           \* the names of the feeds
    BufferSize,     \* the capacity of the channel
    None            \* no feed

ASSUME ViewMetricsAssumption == BufferSize \in Nat \ {0} /\ None \notin Feed

VARIABLES
    ch,         \* the channel
    closed,     \* Close was called
    writing,    \* the feed whose view Run is recording, or None
    ended,      \* Run has returned
    totals,     \* feed_stats.total_views
    viewed,     \* nobody keeps it: the calls of RecordView, per feed
    missed      \* nor this: why views were not counted

metricsVars == <<ch, closed, writing, ended, totals, viewed, missed>>

MetricsTypeOK ==
    /\ ch \in Seq(Feed) /\ Len(ch) <= BufferSize
    /\ closed \in BOOLEAN /\ ended \in BOOLEAN
    /\ writing \in Feed \cup {None}
    /\ totals \in [Feed -> Nat] /\ viewed \in [Feed -> Nat]
    /\ missed \subseteq {"full", "failed", "panic"}

MetricsInit ==
    /\ ch = <<>> /\ closed = FALSE
    /\ writing = None /\ ended = FALSE
    /\ totals = [f \in Feed |-> 0] /\ viewed = [f \in Feed |-> 0]
    /\ missed = {}

Full == Len(ch) = BufferSize

(* Mutant: the handlers append to a queue without a limit. *)
RecordViewQueues(f) ==
    /\ viewed' = [viewed EXCEPT ![f] = @ + 1]
    /\ ch' = Append(ch, f)
    /\ UNCHANGED <<closed, writing, ended, totals, missed>>

(* A send on a closed channel panics, in a select with a default too. *)
RecordView(f) ==
    /\ viewed' = [viewed EXCEPT ![f] = @ + 1]
    /\ ch' = IF closed \/ Full THEN ch ELSE Append(ch, f)
    /\ missed' = CASE closed -> missed \cup {"panic"}
                   [] ~closed /\ Full -> missed \cup {"full"}
                   [] OTHER -> missed
    /\ UNCHANGED <<closed, writing, ended, totals>>

(* What is in the channel when it is closed is still received. *)
Receive ==
    /\ writing = None /\ ~ended /\ ch # <<>>
    /\ writing' = Head(ch) /\ ch' = Tail(ch)
    /\ UNCHANGED <<closed, ended, totals, viewed, missed>>

EndRun ==
    /\ writing = None /\ ~ended /\ ch = <<>> /\ closed
    /\ ended' = TRUE
    /\ UNCHANGED <<ch, closed, writing, totals, viewed, missed>>

Counted == [totals EXCEPT ![writing] = @ + 1]

Written ==
    /\ writing # None
    /\ totals' = Counted
    /\ writing' = None
    /\ UNCHANGED <<ch, closed, ended, viewed, missed>>

(* Mutant: a view that could not be recorded is put back to be tried again. *)
WriteFailsRetried ==
    /\ writing # None
    /\ totals' \in {totals, Counted}
    /\ UNCHANGED <<ch, closed, writing, ended, viewed, missed>>

(* Mutant: the first error ends Run. *)
WriteFailsEndsRun ==
    /\ writing # None
    /\ totals' = totals
    /\ writing' = None /\ ended' = TRUE
    /\ missed' = missed \cup {"failed"}
    /\ UNCHANGED <<ch, closed, viewed>>

(***************************************************************************)
(* An error, after five seconds at the latest.  It does not say whether    *)
(* the database counted the view; Run goes on with the next one.           *)
(***************************************************************************)
WriteFails ==
    /\ writing # None
    /\ totals' \in {totals, Counted}
    /\ missed' = missed \cup {"failed"}
    /\ writing' = None
    /\ UNCHANGED <<ch, closed, ended, viewed>>

Close ==
    /\ closed' = TRUE
    /\ UNCHANGED <<ch, writing, ended, totals, viewed, missed>>

(* Views of f on their way from a handler to the table. *)
Pending(f) ==
    Cardinality({i \in DOMAIN ch : ch[i] = f}) + (IF writing = f THEN 1 ELSE 0)

(***************************************************************************)
(* No view is counted twice, though an error may hide that it was counted; *)
(* and unless the channel was full, a write failed or a handler outlived   *)
(* the server, each one is counted or on its way.                          *)
(***************************************************************************)
ViewsCounted ==
    \A f \in Feed : /\ totals[f] + Pending(f) <= viewed[f]
                    /\ missed = {} => totals[f] + Pending(f) = viewed[f]
=============================================================================
