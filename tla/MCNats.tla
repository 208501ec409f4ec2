------------------------------- MODULE MCNats -------------------------------
EXTENDS NatsPipeline

CONSTANTS a, b, k1, c1, c2

MCRepo == {a, b}
MCRkey == {k1}
MCCid == {c1, c2}
MCWord == {"bald"}
MCLang == {"en"}
MCLower == [x \in MCWord \cup MCLang |-> x]

BaldPost == [words |-> {"bald"}, langs |-> {}, embed |-> FALSE]

MCConfigs ==
    <<[name |-> "bald", keywords |-> {"bald"}, exclude |-> {},
       contextKeywords |-> {}, contextWords |-> {}, languages |-> {},
       blocked |-> {}, requireMedia |-> FALSE]>>

Create(k, c) ==
    [action |-> "create", isPost |-> TRUE, rkey |-> k, cid |-> c, post |-> BaldPost]
Delete(k) ==
    [action |-> "delete", isPost |-> TRUE, rkey |-> k, cid |-> c1, post |-> NoPost]
Of(r, ops) == [repo |-> r, tooBig |-> FALSE, readable |-> TRUE, ops |-> ops]

(* What becomes of the rows. *)
MCCommit ==
    {Of(a, <<Create(k1, c1)>>), Of(a, <<Delete(k1)>>), Of(b, <<Create(k1, c2)>>)}

(* What becomes of the messages: commits without posts. *)
MCEmptyCommit ==
    {Of(a, <<>>), Of(b, <<>>), [Of(b, <<>>) EXCEPT !.tooBig = TRUE]}
=============================================================================
