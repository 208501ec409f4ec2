--------------------------- MODULE MCSubscription ---------------------------
(***************************************************************************)
(* Small networks and configurations for the standalone subscription.      *)
(***************************************************************************)
EXTENDS Subscription

CONSTANTS a, b, k1, k2, c1, c2, c3

MCRepo == {a, b}
MCRkey == {k1, k2}
MCCid == {c1, c2, c3}
MCWord == {"Bald", "bald", "eagle", "head"}
MCLang == {"EN", "en", "de"}
MCLower ==
    [x \in MCWord \cup MCLang |->
        CASE x = "Bald" -> "bald" [] x = "EN" -> "en" [] OTHER -> x]

(* Selected by the first feed, by both, by the second only, by neither. *)
BaldPost  == [words |-> {"Bald"}, langs |-> {"en"}, embed |-> FALSE]
HeadPost  == [words |-> {"bald", "head"}, langs |-> {}, embed |-> FALSE]
EaglePost == [words |-> {"bald", "head", "eagle"}, langs |-> {"EN"}, embed |-> TRUE]
OtherPost == [words |-> {"head"}, langs |-> {"de"}, embed |-> TRUE]

Feed(name) ==
    [name |-> name, keywords |-> {}, exclude |-> {}, contextKeywords |-> {},
     contextWords |-> {}, languages |-> {}, blocked |-> {}, requireMedia |-> FALSE]

(* The second feed does not take what repo b posts. *)
MCConfigs ==
    <<[Feed("bald") EXCEPT !.keywords = {"Bald"}, !.exclude = {"eagle"}],
      [Feed("head") EXCEPT !.contextKeywords = {"bald"}, !.contextWords = {"head"},
                           !.languages = {"EN"}, !.blocked = {b}]>>

Create(k, c, post) ==
    [action |-> "create", isPost |-> TRUE, rkey |-> k, cid |-> c, post |-> post]
Delete(k) ==
    [action |-> "delete", isPost |-> TRUE, rkey |-> k, cid |-> c1, post |-> NoPost]
Update(k) ==
    [action |-> "update", isPost |-> TRUE, rkey |-> k, cid |-> c3, post |-> BaldPost]
Like == [Create(k1, c1, NoPost) EXCEPT !.isPost = FALSE]

Of(r, ops) == [repo |-> r, tooBig |-> FALSE, readable |-> TRUE, ops |-> ops]

(***************************************************************************)
(* Creations and deletions of one post of each repo, a creation of another *)
(* content, a commit that deletes one post and creates another, one whose  *)
(* blocks cannot be read, and an update.                                   *)
(***************************************************************************)
MCCommit ==
    {Of(a, <<Create(k1, c1, HeadPost)>>),
     Of(a, <<Create(k1, c2, EaglePost)>>),
     Of(a, <<Like, Delete(k1), Create(k2, c3, OtherPost)>>),
     [Of(a, <<Delete(k1)>>) EXCEPT !.readable = FALSE],
     Of(b, <<Create(k1, c1, HeadPost)>>),
     Of(b, <<Update(k1)>>),
     Of(b, <<Delete(k1)>>)}
=============================================================================
