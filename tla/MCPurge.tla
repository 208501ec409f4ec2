------------------------------ MODULE MCPurge ------------------------------
EXTENDS Purge, TLC

CONSTANTS a, k1, k2, k3

MCRepo == {a}
MCWord == {"bald", "eagle"}
MCLang == {"en"}
MCLower == [x \in MCWord \cup MCLang |-> x]

(* What the first pipeline selects and the second does not. *)
BaldPost == [words |-> {"bald"}, langs |-> {}, embed |-> FALSE]
MCContents == {BaldPost}

Bald ==
    [name |-> "bald", keywords |-> {"bald"}, exclude |-> {},
     contextKeywords |-> {}, contextWords |-> {}, languages |-> {},
     blocked |-> {}, requireMedia |-> FALSE]
Eagles == [Bald EXCEPT !.name = "eagles", !.keywords = {"eagle"}]

MCConfigs == <<Bald, Eagles>>
MCFeed == {"bald", "eagles"}

Alike == Permutations({k1, k2, k3})
=============================================================================
