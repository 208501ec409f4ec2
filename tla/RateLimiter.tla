---------------------------- MODULE RateLimiter ----------------------------
(***************************************************************************)
(* server.RateLimiter on top of cache.Cache: a token bucket per address,   *)
(* made by the first request, found by the next ones, and removed from the *)
(* cache by a cleanup when no request has asked for it for MaxAge.         *)
(*                                                                         *)
(* Each call on the cache holds its lock, but getLimiter makes several and *)
(* HTTP requests run side by side.  Time passes in ticks, of which one     *)
(* earns a bucket Rate tokens.                                             *)
(***************************************************************************)
EXTENDS Integers, FiniteSets

CONSTANTS
    Ip,         \* the clients' addresses
    Request,    \* the requests served at the same time
    Limiter,    \* the rate.Limiter objects, with their entries
    Rate, Burst, MaxAge,
    None        \* no entry under an address

ASSUME RateLimiterAssumption ==
    /\ Rate \in Nat /\ Burst \in Nat \ {0} /\ MaxAge \in Nat
    /\ IsFiniteSet(Ip) /\ IsFiniteSet(Request) /\ IsFiniteSet(Limiter)
    /\ None \notin Limiter

(* An entry is removed only when even a debtor would have a full bucket. *)
ASSUME RetentionAssumption ==
    (MaxAge + 1) * Rate >= (Cardinality(Request) + 1) * Burst

(* One limiter for each entry and each request that may hold another. *)
ASSUME LimiterAssumption ==
    Cardinality(Limiter) >= Cardinality(Ip) + Cardinality(Request)

VARIABLES
    limiters,   \* the entries of the cache
    tokens,     \* per limiter, what its bucket holds
    age,        \* per limiter, ticks since lastUsed, no more than MaxAge + 1
    step,       \* per request, where it is in Allow
    from,       \* per request, its address
    using,      \* per request, the limiter it got
    verdict,    \* the last answer of Allow, and to whom
    balance     \* what nobody keeps: what a single bucket would hold

answers == <<verdict, balance>>
vars == <<limiters, tokens, age, step, from, using, answers>>

(* The bucket holds Burst tokens and no more. *)
Capped(n) == IF n <= Burst THEN n ELSE Burst

TypeOK ==
    /\ limiters \in [Ip -> Limiter \cup {None}]
    /\ tokens \in [Limiter -> 0..Burst]
    /\ age \in [Limiter -> 0..MaxAge + 1]
    /\ step \in [Request -> {"new", "found", "missing", "limited"}]
    /\ from \in [Request -> Ip]
    /\ using \in [Request -> Limiter \cup {None}]
    /\ verdict \in {<<>>} \cup Ip \X BOOLEAN
    /\ balance \in [Ip -> Int]

Init ==
    /\ limiters = [ip \in Ip |-> None]
    /\ tokens = [l \in Limiter |-> 0]
    /\ age = [l \in Limiter |-> 0]
    /\ step = [r \in Request |-> "new"]
    /\ from \in [Request -> Ip]
    /\ using = [r \in Request |-> None]
    /\ verdict = <<>>
    /\ balance = [ip \in Ip |-> Burst]

-----------------------------------------------------------------------------
(* A request asks Allow(ip). *)

Get(r, ip) ==
    /\ step[r] = "new"
    /\ from' = [from EXCEPT ![r] = ip]
    /\ using' = [using EXCEPT ![r] = limiters[ip]]
    /\ step' = [step EXCEPT ![r] =
                   IF limiters[ip] # None THEN "found" ELSE "missing"]
    /\ UNCHANGED <<limiters, tokens, age, answers>>

(* Mutant: who finds an entry does not say that it was used. *)
TouchForgets(r) ==
    /\ step[r] = "found"
    /\ step' = [step EXCEPT ![r] = "limited"]
    /\ UNCHANGED <<limiters, tokens, age, from, using, answers>>

(* It got an entry and stores the time in it, in the cache or not. *)
Touch(r) ==
    /\ step[r] = "found"
    /\ age' = [age EXCEPT ![using[r]] = 0]
    /\ step' = [step EXCEPT ![r] = "limited"]
    /\ UNCHANGED <<limiters, tokens, from, using, answers>>

(***************************************************************************)
(* rate.NewLimiter.  Nobody can tell which object it is, but that nobody   *)
(* has it yet.                                                             *)
(***************************************************************************)
Fresh(l) ==
    /\ \A ip \in Ip : limiters[ip] # l
    /\ \A r \in Request : using[r] # l

NewLimiter == CHOOSE l \in Limiter : Fresh(l)

(* Mutant: the new limiter is used but not kept. *)
SetForgotten(r) ==
    /\ step[r] = "missing"
    /\ tokens' = [tokens EXCEPT ![NewLimiter] = Burst]
    /\ age' = [age EXCEPT ![NewLimiter] = 0]
    /\ using' = [using EXCEPT ![r] = NewLimiter]
    /\ step' = [step EXCEPT ![r] = "limited"]
    /\ UNCHANGED <<limiters, from, answers>>

(* It found none, makes one and sets it, whatever is there by now. *)
Set(r) ==
    /\ step[r] = "missing"
    /\ tokens' = [tokens EXCEPT ![NewLimiter] = Burst]
    /\ age' = [age EXCEPT ![NewLimiter] = 0]
    /\ limiters' = [limiters EXCEPT ![from[r]] = NewLimiter]
    /\ using' = [using EXCEPT ![r] = NewLimiter]
    /\ step' = [step EXCEPT ![r] = "limited"]
    /\ UNCHANGED <<from, answers>>

(* Over, with an answer. *)
Answered(r, ok) ==
    /\ verdict' = <<from[r], ok>>
    /\ step' = [step EXCEPT ![r] = "new"]
    /\ using' = [using EXCEPT ![r] = None]
    /\ UNCHANGED <<limiters, age, from>>

(* Mutant: Reserve instead of Allow, which lets a bucket go into debt. *)
AllowReserves(r) ==
    /\ step[r] = "limited"
    /\ tokens' = [tokens EXCEPT ![using[r]] = @ - 1]
    /\ balance' = [balance EXCEPT ![from[r]] = @ - 1]
    /\ Answered(r, TRUE)

Allow(r) ==
    /\ step[r] = "limited" /\ tokens[using[r]] > 0
    /\ tokens' = [tokens EXCEPT ![using[r]] = @ - 1]
    /\ balance' = [balance EXCEPT ![from[r]] = @ - 1]
    /\ Answered(r, TRUE)

Reject(r) ==
    /\ step[r] = "limited" /\ tokens[using[r]] = 0
    /\ UNCHANGED <<tokens, balance>>
    /\ Answered(r, FALSE)

-----------------------------------------------------------------------------
(* The cleanup goroutine, and time. *)

(* Mutant: the comparison is the wrong way round. *)
IsStaleInverted(l) == age[l] < MaxAge

IsStale(l) == age[l] > MaxAge

Cleanup ==
    /\ \E ip \in Ip : limiters[ip] # None /\ IsStale(limiters[ip])
    /\ limiters' =
           [ip \in Ip |-> IF limiters[ip] # None /\ IsStale(limiters[ip])
                          THEN None ELSE limiters[ip]]
    /\ UNCHANGED <<tokens, age, step, from, using, answers>>

(* Nobody is in the middle of Allow. *)
Gap == \A r \in Request : step[r] = "new"

(***************************************************************************)
(* A tick is a tenth of a second by default and Allow a few calls in       *)
(* memory: the model lets no request be in the middle of it while a tick   *)
(* passes.                                                                 *)
(***************************************************************************)
Tick ==
    /\ Gap
    /\ tokens' = [l \in Limiter |->
                     IF Fresh(l) THEN 0 ELSE Capped(tokens[l] + Rate)]
    /\ age' = [l \in Limiter |->
                  IF Fresh(l) THEN 0
                  ELSE IF age[l] <= MaxAge THEN age[l] + 1 ELSE age[l]]
    /\ balance' = [ip \in Ip |-> Capped(balance[ip] + Rate)]
    /\ UNCHANGED <<limiters, step, from, using, verdict>>

Next ==
    \/ \E r \in Request : (\E ip \in Ip : Get(r, ip)) \/ Touch(r) \/ Set(r)
    \/ \E r \in Request : Allow(r) \/ Reject(r)
    \/ Cleanup
    \/ Tick

Spec == Init /\ [][Next]_vars
-----------------------------------------------------------------------------
(* Safety. *)

(***************************************************************************)
(* A bucket per address, though limiters are made, replaced and thrown     *)
(* away: nobody is turned away whom a single bucket would let through, and *)
(* n requests at a time, each of which may install a new bucket or draw on *)
(* one just replaced, never get an address more than n bursts ahead.       *)
(***************************************************************************)
Promise ==
    INSTANCE TokenBucket WITH Slack <- Cardinality(Request) * Burst

KeepsPromise == Promise!Spec

-----------------------------------------------------------------------------
(* Why the promise holds. *)

(* A request has a limiter from when it found or set one to its answer. *)
HasLimiter ==
    \A r \in Request :
        using[r] = None <=> step[r] \in {"new", "missing"}

(* The limiters an address can still draw on: the cached and those in use. *)
Owned(ip) ==
    {l \in Limiter : \/ limiters[ip] = l
                     \/ \E r \in Request : using[r] = l /\ from[r] = ip}

(* Nobody draws on the bucket of another address. *)
OneOwner ==
    \A i, j \in Ip : Owned(i) \cap Owned(j) # {} => i = j

(* Every bucket an address can draw on holds what a single one would. *)
Covered ==
    \A ip \in Ip : /\ balance[ip] <= Burst
                   /\ \A l \in Owned(ip) : balance[ip] <= tokens[l]

(* All the tokens an address can draw, one by one. *)
Purse(ip) == {coin \in Owned(ip) \X (1..Burst) : coin[2] <= tokens[coin[1]]}

Missing(ip) == {r \in Request : step[r] = "missing" /\ from[r] = ip}

(* How far ahead of its balance an address can get. *)
Ahead == Cardinality(Request) * Burst

(***************************************************************************)
(* What an address can draw, with a full bucket for each request about to  *)
(* install one, is at most a burst per request more than its balance, and  *)
(* no more than the balance while it has no entry.                         *)
(***************************************************************************)
Solvent(ip) ==
    /\ balance[ip] + Ahead >=
          Cardinality(Purse(ip)) + Cardinality(Missing(ip)) * Burst
    /\ limiters[ip] = None => balance[ip] >= Cardinality(Purse(ip))

(***************************************************************************)
(* While an entry ages its address draws on nothing, its requests having   *)
(* found the entry and not yet touched it, and its balance recovers.       *)
(***************************************************************************)
Recovers(ip) ==
    limiters[ip] # None =>
        /\ balance[ip] >= Capped(age[limiters[ip]] * Rate - Ahead)
        /\ age[limiters[ip]] > 0 =>
               \A r \in Request : step[r] # "new" /\ from[r] = ip =>
                   step[r] = "found" /\ using[r] = limiters[ip]

PromiseInv ==
    /\ HasLimiter /\ OneOwner /\ Covered
    /\ \A ip \in Ip : Solvent(ip) /\ Recovers(ip)

-----------------------------------------------------------------------------
(* Liveness. *)

(***************************************************************************)
(* Requests are answered and the cleanup gets its turn.  Time passes       *)
(* however many requests there are: Allow is too short for them to follow  *)
(* one another without a gap for ever.                                     *)
(***************************************************************************)
Fairness ==
    /\ []<>Gap /\ SF_vars(Tick)
    /\ WF_vars(Cleanup)
    /\ \A r \in Request : WF_vars(Touch(r) \/ Set(r) \/ Allow(r) \/ Reject(r))

FairSpec == Spec /\ Fairness

Asking(ip) == \E r \in Request : step[r] # "new" /\ from[r] = ip

(* The cache does not grow for ever: who stops asking is forgotten. *)
Forgotten == \A ip \in Ip : <>[]~Asking(ip) => <>[](limiters[ip] = None)
=============================================================================
