-------------------------- MODULE MCFeedPublishing --------------------------
EXTENDS FeedPublishing, TLC

(* Two feeds with a record, one that is disabled, one of another kind. *)
ASSUME Generator \ Enabled # {} /\ Enabled \ Generator # {}

Alike == Permutations(Cmd) \cup Permutations(Records) \cup Permutations(Cid)
=============================================================================
