------------------------------ MODULE Pipeline ------------------------------
(***************************************************************************)
(* The filter of one feed: subscription.Pipeline, which decides whether a  *)
(* post of the network belongs to the feed.                                *)
(***************************************************************************)
EXTENDS Network

LowerAll(S) == {Lower[x] : x \in S}

(* What the configuration file says of a feed, and the filter built of it. *)
Config ==
    [name : STRING, keywords : SUBSET Word, exclude : SUBSET Word,
     contextKeywords : SUBSET Word, contextWords : SUBSET Word,
     languages : SUBSET Lang, blocked : SUBSET Repo, requireMedia : BOOLEAN]

(* Words and languages are lowered once, DIDs are compared as they are. *)
NewPipeline(c) ==
    [c EXCEPT !.keywords        = LowerAll(@),
              !.exclude         = LowerAll(@),
              !.contextKeywords = LowerAll(@),
              !.contextWords    = LowerAll(@),
              !.languages       = LowerAll(@)]

Meets(S, T) == S \cap T # {}

(***************************************************************************)
(* A unique keyword decides alone; a context keyword needs a context word; *)
(* an excluded word vetoes both.                                           *)
(***************************************************************************)
Matches(p, words) ==
    LET lower == LowerAll(words)
    IN  /\ \/ Meets(p.keywords, lower)
           \/ Meets(p.contextKeywords, lower) /\ Meets(p.contextWords, lower)
        /\ ~Meets(p.exclude, lower)

(* No language list on either side means no language restriction. *)
LanguageAccepted(p, langs) ==
    p.languages # {} /\ langs # {} => Meets(p.languages, LowerAll(langs))

(* The filter purge applies to a post fetched back from the network. *)
MatchesPost(p, post) ==
    /\ p.requireMedia => post.embed
    /\ LanguageAccepted(p, post.langs)
    /\ Matches(p, post.words)

(* The filter ingestion applies; only this one knows the blocked DIDs. *)
ShouldInsert(p, actor, post) ==
    /\ actor \notin p.blocked
    /\ p.requireMedia => post.embed
    /\ LanguageAccepted(p, post.langs)
    /\ Matches(p, post.words)
=============================================================================
