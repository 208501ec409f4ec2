------------------------- MODULE RateLimiterProofs -------------------------
(***************************************************************************)
(* The rate limiter keeps its types and the promise of a token bucket per  *)
(* address, for every number of addresses, requests and limiters and every *)
(* rate and burst the retention fits.                                      *)
(***************************************************************************)
EXTENDS RateLimiter, FiniteSetTheorems, TLAPS

IndInv == TypeOK /\ PromiseInv

-----------------------------------------------------------------------------
(* Counting. *)

(* The number of requests, and how far ahead they can get an address. *)
LEMMA AheadType ==
    /\ Cardinality(Request) \in Nat
    /\ Ahead \in Nat
    /\ \A n \in Nat : n <= Cardinality(Request) => n * Burst <= Ahead
  <1>1. Cardinality(Request) \in Nat
    BY FS_CardinalityType, RateLimiterAssumption
  <1>2. Burst \in Nat
    BY RateLimiterAssumption
  <1>3. \A n, m, b \in Nat : n <= m => n * b \in Nat /\ n * b <= m * b
    OBVIOUS
  <1> QED
    BY <1>1, <1>2, <1>3 DEF Ahead

(* Sets of coins are finite, and a smaller one has fewer. *)
LEMMA Coins ==
    ASSUME NEW S \in SUBSET (Limiter \X (1..Burst)),
           NEW T \in SUBSET S
    PROVE  /\ IsFiniteSet(S) /\ IsFiniteSet(T)
           /\ Cardinality(S) \in Nat /\ Cardinality(T) \in Nat
           /\ Cardinality(T) <= Cardinality(S)
  <1>1. IsFiniteSet(1..Burst)
    BY FS_Interval, RateLimiterAssumption
  <1>2. IsFiniteSet(Limiter \X (1..Burst))
    BY <1>1, FS_Product, RateLimiterAssumption
  <1>3. IsFiniteSet(S)
    BY <1>2, FS_Subset
  <1>4. IsFiniteSet(T) /\ Cardinality(T) <= Cardinality(S)
    BY <1>3, FS_Subset
  <1> QED
    BY <1>3, <1>4, FS_CardinalityType

(* One bucket holds at most Burst coins. *)
LEMMA OneBucket ==
    ASSUME NEW l \in Limiter, NEW S \in SUBSET ({l} \X (1..Burst))
    PROVE  Cardinality(S) \in Nat /\ Cardinality(S) <= Burst
  <1>1. IsFiniteSet(1..Burst) /\ Cardinality(1..Burst) = Burst
    BY FS_Interval, RateLimiterAssumption
  <1>2. IsFiniteSet({l}) /\ Cardinality({l}) = 1
    BY FS_Singleton
  <1>3. /\ IsFiniteSet({l} \X (1..Burst))
        /\ Cardinality({l} \X (1..Burst)) = 1 * Burst
    BY <1>1, <1>2, FS_Product
  <1>4. Cardinality(S) <= Cardinality({l} \X (1..Burst)) /\ IsFiniteSet(S)
    BY <1>3, FS_Subset
  <1> QED
    BY <1>3, <1>4, FS_CardinalityType, RateLimiterAssumption

(* A bucket that is the only one holds as many coins as tokens. *)
LEMMA OnePurse ==
    ASSUME NEW l \in Limiter, NEW n \in 0..Burst
    PROVE  Cardinality({coin \in {l} \X (1..Burst) : coin[2] <= n}) = n
  <1> DEFINE S == {coin \in {l} \X (1..Burst) : coin[2] <= n}
  <1>1. S = {l} \X (1..n)
    BY RateLimiterAssumption
  <1>2. IsFiniteSet(1..n) /\ Cardinality(1..n) = n
    BY FS_Interval
  <1>3. IsFiniteSet({l}) /\ Cardinality({l}) = 1
    BY FS_Singleton
  <1>4. Cardinality({l} \X (1..n)) = 1 * n
    BY <1>2, <1>3, FS_Product
  <1> QED
    BY <1>1, <1>4

(* What an address can draw is a set of coins. *)
LEMMA PurseType ==
    ASSUME NEW ip \in Ip
    PROVE  Purse(ip) \in SUBSET (Limiter \X (1..Burst))
  BY DEF Purse, Owned

(* Each of some requests may install a full bucket. *)
LEMMA SomeRequests ==
    ASSUME NEW S \in SUBSET Request
    PROVE  /\ IsFiniteSet(S)
           /\ Cardinality(S) \in Nat
           /\ Cardinality(S) * Burst \in Nat
           /\ Cardinality(S) * Burst <= Ahead
  <1>1. IsFiniteSet(S) /\ Cardinality(S) <= Cardinality(Request)
    BY FS_Subset, RateLimiterAssumption
  <1>2. Cardinality(S) \in Nat
    BY <1>1, FS_CardinalityType
  <1>3. \A n, b \in Nat : n * b \in Nat
    OBVIOUS
  <1> QED
    BY <1>1, <1>2, <1>3, AheadType, RateLimiterAssumption

-----------------------------------------------------------------------------
(* There is a limiter nobody has, for a request about to make one. *)
LEMMA NewLimiterFresh ==
    ASSUME TypeOK, HasLimiter, NEW r \in Request, step[r] = "missing"
    PROVE  NewLimiter \in Limiter /\ Fresh(NewLimiter)
  <1> DEFINE others == Request \ {r}
             cached == {limiters[ip] : ip \in Ip}
             used   == {using[q] : q \in others}
             held   == [q \in others |-> using[q]]
  <1>1. IsFiniteSet(cached) /\ Cardinality(cached) <= Cardinality(Ip)
    <2>1. limiters \in Surjection(Ip, cached)
      BY DEF TypeOK, Surjection
    <2> QED
      BY <2>1, FS_Surjection, RateLimiterAssumption
  <1>2. IsFiniteSet(others) /\ Cardinality(others) = Cardinality(Request) - 1
    BY FS_RemoveElement, RateLimiterAssumption
  <1>3. IsFiniteSet(used) /\ Cardinality(used) <= Cardinality(others)
    <2>1. held \in Surjection(others, used)
      BY DEF Surjection
    <2> QED
      BY <2>1, <1>2, FS_Surjection
  <1>4. Cardinality(cached \cup used) < Cardinality(Limiter)
    <2>1. /\ Cardinality(cached) \in Nat /\ Cardinality(used) \in Nat
          /\ Cardinality(Ip) \in Nat /\ Cardinality(Request) \in Nat
          /\ Cardinality(Limiter) \in Nat
      BY <1>1, <1>3, FS_CardinalityType, RateLimiterAssumption
    <2>2. IsFiniteSet(cached \cap used)
      BY <1>1, FS_Intersection
    <2>3. Cardinality(cached \cap used) \in Nat
      BY <2>2, FS_CardinalityType
    <2>4. Cardinality(cached \cup used) =
              Cardinality(cached) + Cardinality(used) - Cardinality(cached \cap used)
      BY <1>1, <1>3, FS_Union
    <2> QED
      BY <1>1, <1>2, <1>3, <2>1, <2>3, <2>4, LimiterAssumption
  <1>5. PICK l \in Limiter : l \notin cached \cup used
    <2>1. SUFFICES ASSUME Limiter \subseteq cached \cup used PROVE FALSE
      OBVIOUS
    <2>2. IsFiniteSet(cached \cup used)
      BY <1>1, <1>3, FS_Union
    <2>3. Cardinality(Limiter) <= Cardinality(cached \cup used)
      BY <2>1, <2>2, FS_Subset
    <2>4. Cardinality(Limiter) \in Nat /\ Cardinality(cached \cup used) \in Nat
      BY <2>2, FS_CardinalityType, RateLimiterAssumption
    <2> QED
      BY <1>4, <2>3, <2>4
  <1>6. Fresh(l)
    <2>1. using[r] # l
      BY RateLimiterAssumption DEF HasLimiter
    <2> QED
      BY <1>5, <2>1 DEF Fresh
  <1> QED
    BY <1>5, <1>6 DEF NewLimiter

(* A limiter nobody has is nobody's. *)
LEMMA FreshUnowned ==
    ASSUME NEW l, Fresh(l), NEW ip \in Ip
    PROVE  l \notin Owned(ip)
  BY DEF Fresh, Owned

(* Whose limiter it is that a request uses. *)
LEMMA UsedIsOwned ==
    ASSUME TypeOK, HasLimiter, NEW r \in Request,
           step[r] \in {"found", "limited"}
    PROVE  using[r] \in Limiter /\ from[r] \in Ip /\ using[r] \in Owned(from[r])
  BY DEF TypeOK, HasLimiter, Owned

-----------------------------------------------------------------------------
LEMMA InitInv == Init => IndInv
  <1> SUFFICES ASSUME Init PROVE IndInv
    OBVIOUS
  <1>1. TypeOK
    BY RateLimiterAssumption DEF Init, TypeOK
  <1>2. HasLimiter
    BY DEF Init, HasLimiter
  <1>3. \A ip \in Ip : Owned(ip) = {}
    BY RateLimiterAssumption DEF Init, Owned
  <1>4. OneOwner /\ Covered
    BY <1>3, RateLimiterAssumption DEF Init, OneOwner, Covered
  <1>5. ASSUME NEW ip \in Ip PROVE Solvent(ip)
    <2> SUFFICES /\ balance[ip] + Ahead >=
                       Cardinality(Purse(ip)) + Cardinality(Missing(ip)) * Burst
                 /\ balance[ip] >= Cardinality(Purse(ip))
      BY DEF Solvent
    <2> DEFINE m == Cardinality(Missing(ip)) * Burst
    <2>1. m \in Nat /\ m <= Ahead /\ Ahead \in Nat
      BY SomeRequests, AheadType DEF Missing
    <2>2. Cardinality(Purse(ip)) = 0
      BY <1>3, FS_EmptySet DEF Purse
    <2>3. balance[ip] = Burst /\ Burst \in Nat
      BY RateLimiterAssumption DEF Init
    <2> HIDE DEF m
    <2>4. balance[ip] + Ahead >= Cardinality(Purse(ip)) + m
      BY <2>1, <2>2, <2>3
    <2> QED
      BY <2>2, <2>3, <2>4 DEF m
  <1>6. \A ip \in Ip : Recovers(ip)
    BY DEF Init, Recovers
  <1> QED
    BY <1>1, <1>2, <1>4, <1>5, <1>6 DEF IndInv, PromiseInv

-----------------------------------------------------------------------------
(* Each step keeps the types. *)
LEMMA TypeStep ==
    ASSUME IndInv, [Next]_vars
    PROVE  TypeOK'
  <1> USE RateLimiterAssumption
  <1>1. TypeOK /\ HasLimiter
    BY DEF IndInv, PromiseInv
  <1>2. ASSUME NEW r \in Request, NEW ip \in Ip, Get(r, ip) PROVE TypeOK'
    BY <1>1, <1>2 DEF Get, TypeOK, answers
  <1>3. ASSUME NEW r \in Request, Touch(r) PROVE TypeOK'
    <2>1. using[r] \in Limiter
      BY <1>1, <1>3, UsedIsOwned DEF Touch
    <2>2. age' \in [Limiter -> 0..MaxAge + 1]
      BY <1>1, <1>3, <2>1 DEF Touch, TypeOK
    <2>3. step' \in [Request -> {"new", "found", "missing", "limited"}]
      BY <1>1, <1>3 DEF Touch, TypeOK
    <2> QED
      BY <1>1, <1>3, <2>2, <2>3 DEF Touch, TypeOK, answers
  <1>4. ASSUME NEW r \in Request, Set(r) PROVE TypeOK'
    <2> DEFINE n == NewLimiter
    <2>1. n \in Limiter
      BY <1>1, <1>4, NewLimiterFresh DEF Set
    <2>2. /\ tokens' = [tokens EXCEPT ![n] = Burst]
          /\ age' = [age EXCEPT ![n] = 0]
          /\ limiters' = [limiters EXCEPT ![from[r]] = n]
          /\ using' = [using EXCEPT ![r] = n]
          /\ step' = [step EXCEPT ![r] = "limited"]
          /\ UNCHANGED <<from, verdict, balance>>
      BY <1>4 DEF Set, answers
    <2> HIDE DEF n
    <2>3. /\ tokens' \in [Limiter -> 0..Burst]
          /\ age' \in [Limiter -> 0..MaxAge + 1]
      BY <1>1, <2>1, <2>2 DEF TypeOK
    <2>4. /\ limiters' \in [Ip -> Limiter \cup {None}]
          /\ using' \in [Request -> Limiter \cup {None}]
          /\ step' \in [Request -> {"new", "found", "missing", "limited"}]
      BY <1>1, <2>1, <2>2 DEF TypeOK
    <2> QED
      BY <1>1, <2>2, <2>3, <2>4 DEF TypeOK
  <1>5. ASSUME NEW r \in Request, Allow(r) PROVE TypeOK'
    <2>1. using[r] \in Limiter /\ from[r] \in Ip
      BY <1>1, <1>5, UsedIsOwned DEF Allow
    <2>2. tokens[using[r]] - 1 \in 0..Burst /\ balance[from[r]] - 1 \in Int
      BY <1>1, <1>5, <2>1 DEF TypeOK, Allow
    <2>3. tokens' \in [Limiter -> 0..Burst] /\ balance' \in [Ip -> Int]
      BY <1>1, <1>5, <2>1, <2>2 DEF TypeOK, Allow
    <2> QED
      BY <1>1, <1>5, <2>1, <2>3 DEF Allow, Answered, TypeOK
  <1>6. ASSUME NEW r \in Request, Reject(r) PROVE TypeOK'
    BY <1>1, <1>6 DEF Reject, Answered, TypeOK
  <1>7. ASSUME Cleanup PROVE TypeOK'
    BY <1>1, <1>7 DEF Cleanup, TypeOK, answers
  <1>8. ASSUME Tick PROVE TypeOK'
    <2>1. tokens' \in [Limiter -> 0..Burst]
      BY <1>1, <1>8 DEF Tick, TypeOK, Capped
    <2>2. balance' \in [Ip -> Int]
      BY <1>1, <1>8 DEF Tick, TypeOK, Capped
    <2>3. age' \in [Limiter -> 0..MaxAge + 1]
      BY <1>1, <1>8 DEF Tick, TypeOK
    <2> QED
      BY <1>1, <1>8, <2>1, <2>2, <2>3 DEF Tick, TypeOK
  <1>9. CASE UNCHANGED vars
    BY <1>1, <1>9 DEF vars, answers, TypeOK
  <1> QED
    BY <1>2, <1>3, <1>4, <1>5, <1>6, <1>7, <1>8, <1>9 DEF Next

(* A request has a limiter exactly while it has found or set one. *)
LEMMA HasLimiterStep ==
    ASSUME IndInv, [Next]_vars
    PROVE  HasLimiter'
  <1> USE RateLimiterAssumption
  <1>1. TypeOK /\ HasLimiter
    BY DEF IndInv, PromiseInv
  <1>2. ASSUME NEW r \in Request, NEW ip \in Ip, Get(r, ip) PROVE HasLimiter'
    BY <1>1, <1>2 DEF Get, TypeOK, HasLimiter
  <1>3. ASSUME NEW r \in Request, Touch(r) PROVE HasLimiter'
    BY <1>1, <1>3 DEF Touch, TypeOK, HasLimiter
  <1>4. ASSUME NEW r \in Request, Set(r) PROVE HasLimiter'
    <2>1. NewLimiter \in Limiter
      BY <1>1, <1>4, NewLimiterFresh DEF Set
    <2> QED
      BY <1>1, <1>4, <2>1 DEF Set, TypeOK, HasLimiter
  <1>5. ASSUME NEW r \in Request, Answered(r, TRUE) \/ Answered(r, FALSE)
        PROVE HasLimiter'
    BY <1>1, <1>5 DEF Answered, TypeOK, HasLimiter
  <1>6. CASE Cleanup \/ Tick \/ UNCHANGED vars
    BY <1>1, <1>6 DEF Cleanup, Tick, vars, HasLimiter
  <1> QED
    BY <1>2, <1>3, <1>4, <1>5, <1>6 DEF Next, Allow, Reject

-----------------------------------------------------------------------------
(* Who owns what, after each step. *)

(* Finding an entry makes nobody the owner of what was not theirs. *)
LEMMA GetOwned ==
    ASSUME TypeOK, HasLimiter, NEW r \in Request, NEW a \in Ip, Get(r, a),
           NEW ip \in Ip
    PROVE  Owned(ip)' = Owned(ip)
  <1>1. using[r] = None /\ None \notin Limiter
    BY RateLimiterAssumption DEF Get, HasLimiter
  <1>2. using' = [using EXCEPT ![r] = limiters[a]] /\ from' = [from EXCEPT ![r] = a]
        /\ limiters' = limiters
    BY DEF Get
  <1>3. \A q \in Request \ {r} : using'[q] = using[q] /\ from'[q] = from[q]
    BY <1>2 DEF TypeOK
  <1>4. using'[r] = limiters[a] /\ from'[r] = a
    BY <1>2 DEF TypeOK
  <1> QED
    BY <1>1, <1>2, <1>3, <1>4 DEF Owned

(* A new limiter is added to its address's, and may replace the cached one. *)
LEMMA SetOwned ==
    ASSUME TypeOK, HasLimiter, NEW r \in Request, Set(r), NEW ip \in Ip
    PROVE  /\ NewLimiter \notin Owned(ip)
           /\ from[r] = ip =>
                  /\ Owned(ip)' \subseteq Owned(ip) \cup {NewLimiter}
                  /\ NewLimiter \in Owned(ip)'
           /\ from[r] # ip => Owned(ip)' = Owned(ip)
  <1> DEFINE n == NewLimiter
  <1>1. n \in Limiter /\ Fresh(n)
    BY NewLimiterFresh DEF Set
  <1>2. n \notin Owned(ip)
    BY <1>1, FreshUnowned
  <1>3. using[r] = None /\ None \notin Limiter /\ from[r] \in Ip
    BY RateLimiterAssumption DEF Set, HasLimiter, TypeOK
  <1>4. /\ limiters' = [limiters EXCEPT ![from[r]] = n]
        /\ using' = [using EXCEPT ![r] = n]
        /\ from' = from
    BY DEF Set
  <1> HIDE DEF n
  <1>5. /\ \A q \in Request : using'[q] = IF q = r THEN n ELSE using[q]
        /\ \A i \in Ip : limiters'[i] = IF i = from[r] THEN n ELSE limiters[i]
    BY <1>4 DEF TypeOK
  <1>6. from[r] = ip => Owned(ip)' \subseteq Owned(ip) \cup {n} /\ n \in Owned(ip)'
    BY <1>1, <1>4, <1>5 DEF Owned
  <1>7. from[r] # ip => Owned(ip)' = Owned(ip)
    BY <1>3, <1>4, <1>5 DEF Owned
  <1> QED
    BY <1>2, <1>6, <1>7 DEF n

(* Answering a request and removing entries only takes limiters away. *)
LEMMA AnsweredOwned ==
    ASSUME TypeOK, NEW r \in Request, NEW ok, Answered(r, ok), NEW ip \in Ip
    PROVE  Owned(ip)' \subseteq Owned(ip)
  <1>1. None \notin Limiter
    BY RateLimiterAssumption
  <1>2. \A q \in Request : using'[q] = IF q = r THEN None ELSE using[q]
    BY DEF Answered, TypeOK
  <1> QED
    BY <1>1, <1>2 DEF Answered, Owned

LEMMA CleanupOwned ==
    ASSUME TypeOK, Cleanup, NEW ip \in Ip
    PROVE  Owned(ip)' \subseteq Owned(ip)
  <1>1. None \notin Limiter
    BY RateLimiterAssumption
  <1>2. limiters'[ip] = None \/ limiters'[ip] = limiters[ip]
    BY DEF Cleanup
  <1> QED
    BY <1>1, <1>2 DEF Cleanup, Owned

(* In a gap only the entries of the cache are owned. *)
LEMMA GapOwned ==
    ASSUME TypeOK, HasLimiter, Gap, NEW ip \in Ip
    PROVE  Owned(ip) = {limiters[ip]} \ {None}
  BY RateLimiterAssumption DEF TypeOK, HasLimiter, Gap, Owned

LEMMA SameOwned ==
    ASSUME UNCHANGED <<limiters, using, from>>, NEW ip \in Ip
    PROVE  Owned(ip)' = Owned(ip)
  BY DEF Owned

(* Nobody draws on the bucket of another address. *)
LEMMA OneOwnerStep ==
    ASSUME IndInv, [Next]_vars
    PROVE  OneOwner'
  <1>1. TypeOK /\ HasLimiter /\ OneOwner
    BY DEF IndInv, PromiseInv
  <1>2. SUFFICES ASSUME NEW r \in Request, Set(r) PROVE OneOwner'
    <2>1. CASE \A ip \in Ip : Owned(ip)' \subseteq Owned(ip)
      BY <1>1, <2>1 DEF OneOwner
    <2>2. CASE \E r \in Request : \E ip \in Ip : Get(r, ip)
      BY <1>1, <2>1, <2>2, GetOwned
    <2>3. CASE \E r \in Request : Allow(r) \/ Reject(r)
      BY <1>1, <2>1, <2>3, AnsweredOwned DEF Allow, Reject
    <2>4. CASE Cleanup
      BY <1>1, <2>1, <2>4, CleanupOwned
    <2>5. CASE Tick \/ UNCHANGED vars \/ \E r \in Request : Touch(r)
      BY <2>1, <2>5, SameOwned DEF Tick, vars, Touch
    <2> QED
      BY <1>2, <2>2, <2>3, <2>4, <2>5 DEF Next
  <1> DEFINE n == NewLimiter
  <1>3. \A ip \in Ip :
            /\ n \notin Owned(ip)
            /\ Owned(ip)' \subseteq Owned(ip) \cup
                   (IF ip = from[r] THEN {n} ELSE {})
    BY <1>1, <1>2, SetOwned
  <1> HIDE DEF n
  <1>4. from[r] \in Ip
    BY <1>1 DEF TypeOK
  <1> QED
    BY <1>1, <1>3, <1>4 DEF OneOwner

-----------------------------------------------------------------------------
(***************************************************************************)
(* Every bucket an address can draw on holds what a single one would: a    *)
(* new one is full, and both earn alike.                                   *)
(***************************************************************************)
LEMMA CoveredStep ==
    ASSUME IndInv, [Next]_vars
    PROVE  Covered'
  <1> USE RateLimiterAssumption
  <1>1. TypeOK /\ HasLimiter /\ OneOwner /\ Covered
    BY DEF IndInv, PromiseInv
  <1>2. ASSUME UNCHANGED <<balance, tokens>>,
               \A ip \in Ip : Owned(ip)' \subseteq Owned(ip)
        PROVE  Covered'
    BY <1>1, <1>2 DEF Covered
  <1>3. ASSUME NEW r \in Request, Set(r) PROVE Covered'
    <2> DEFINE n == NewLimiter
    <2>1. n \in Limiter
      BY <1>1, <1>3, NewLimiterFresh DEF Set
    <2>2. balance' = balance /\ tokens' = [tokens EXCEPT ![n] = Burst]
      BY <1>3 DEF Set, answers
    <2>3. \A ip \in Ip : Owned(ip)' \subseteq Owned(ip) \cup {n} /\ n \notin Owned(ip)
      BY <1>1, <1>3, SetOwned
    <2> HIDE DEF n
    <2>4. ASSUME NEW ip \in Ip, NEW l \in Owned(ip)' PROVE balance'[ip] <= tokens'[l]
      <3>1. CASE l = n
        BY <1>1, <2>1, <2>2, <3>1 DEF Covered, TypeOK
      <3>2. CASE l \in Owned(ip) /\ l # n
        BY <1>1, <2>2, <3>2 DEF Covered, TypeOK, Owned
      <3> QED
        BY <2>3, <2>4, <3>1, <3>2
    <2> QED
      BY <1>1, <2>2, <2>4 DEF Covered
  <1>4. ASSUME NEW r \in Request, Allow(r) PROVE Covered'
    <2> DEFINE a == from[r]
               l == using[r]
    <2>1. l \in Limiter /\ a \in Ip /\ l \in Owned(a)
      BY <1>1, <1>4, UsedIsOwned DEF Allow
    <2>2. /\ \A k \in Limiter : tokens'[k] = IF k = l THEN tokens[k] - 1 ELSE tokens[k]
          /\ \A i \in Ip : balance'[i] = IF i = a THEN balance[i] - 1 ELSE balance[i]
      BY <1>1, <1>4 DEF Allow, TypeOK
    <2>3. \A i \in Ip : Owned(i)' \subseteq Owned(i)
      BY <1>1, <1>4, AnsweredOwned DEF Allow
    <2> HIDE DEF a, l
    <2>4. ASSUME NEW i \in Ip, NEW k \in Owned(i)' PROVE balance'[i] <= tokens'[k]
      <3>1. k \in Owned(i) /\ k \in Limiter
        BY <2>3, <2>4 DEF Owned
      <3>2. i # a => k # l
        BY <1>1, <2>1, <3>1 DEF OneOwner
      <3>3. balance[i] <= tokens[k] /\ balance[i] \in Int /\ tokens[k] \in Int
        BY <1>1, <3>1 DEF Covered, TypeOK
      <3> QED
        BY <2>2, <3>1, <3>2, <3>3
    <2>5. \A i \in Ip : balance[i] \in Int /\ balance[i] <= Burst
      BY <1>1 DEF Covered, TypeOK
    <2>6. \A i \in Ip : balance'[i] <= Burst
      BY <2>2, <2>5
    <2> QED
      BY <2>4, <2>6 DEF Covered
  <1>5. ASSUME Tick PROVE Covered'
    <2> SUFFICES ASSUME NEW ip \in Ip
                 PROVE  /\ balance'[ip] <= Burst
                        /\ \A l \in Owned(ip)' : balance'[ip] <= tokens'[l]
      BY DEF Covered
    <2>1. balance'[ip] = Capped(balance[ip] + Rate) /\ balance[ip] \in Int
      BY <1>1, <1>5 DEF Tick, TypeOK
    <2>2. ASSUME NEW l \in Owned(ip)' PROVE balance'[ip] <= tokens'[l]
      <3>1. l \in Owned(ip) /\ l \in Limiter
        BY <1>5, <2>2, SameOwned DEF Tick, Owned
      <3>2. ~Fresh(l)
        BY <3>1, FreshUnowned
      <3>3. tokens'[l] = Capped(tokens[l] + Rate) /\ tokens[l] \in Int
        BY <1>1, <1>5, <3>1, <3>2 DEF Tick, TypeOK
      <3>4. balance[ip] <= tokens[l]
        BY <1>1, <3>1 DEF Covered
      <3> QED
        BY <2>1, <3>3, <3>4 DEF Capped
    <2> QED
      BY <2>1, <2>2 DEF Capped
  <1>6. CASE \E r \in Request : \E ip \in Ip : Get(r, ip)
    BY <1>1, <1>2, <1>6, GetOwned DEF Get, answers
  <1>7. CASE (\E r \in Request : Touch(r)) \/ UNCHANGED vars
    BY <1>2, <1>7, SameOwned DEF Touch, vars, answers
  <1>8. CASE \E r \in Request : Reject(r)
    BY <1>1, <1>2, <1>8, AnsweredOwned DEF Reject
  <1>9. CASE Cleanup
    BY <1>1, <1>2, <1>9, CleanupOwned DEF Cleanup, answers
  <1> QED
    BY <1>3, <1>4, <1>5, <1>6, <1>7, <1>8, <1>9 DEF Next

-----------------------------------------------------------------------------
(* How many coins an address has, after each step. *)

(* It has no more than before while its buckets hold no more. *)
LEMMA PurseShrinks ==
    ASSUME TypeOK, TypeOK', NEW ip \in Ip, Owned(ip)' \subseteq Owned(ip),
           \A l \in Owned(ip)' : tokens'[l] <= tokens[l]
    PROVE  /\ Cardinality(Purse(ip))  \in Nat
           /\ Cardinality(Purse(ip)') \in Nat
           /\ Cardinality(Purse(ip)') <= Cardinality(Purse(ip))
  <1>1. Purse(ip)' \subseteq Purse(ip)
    <2> SUFFICES ASSUME NEW l \in Owned(ip)', NEW i \in 1..Burst, i <= tokens'[l]
                 PROVE  i <= tokens[l] /\ l \in Owned(ip)
      BY DEF Purse
    <2>1. tokens[l] \in Int /\ tokens'[l] \in Int
      BY DEF Owned, TypeOK
    <2> QED
      BY <2>1
  <1> QED
    BY <1>1, PurseType, Coins

(* A new bucket adds at most Burst coins. *)
LEMMA PurseGrows ==
    ASSUME TypeOK, HasLimiter, NEW r \in Request, Set(r),
           NEW a \in Ip, a = from[r]
    PROVE  /\ Cardinality(Purse(a))  \in Nat
           /\ Cardinality(Purse(a)') \in Nat
           /\ Cardinality(Purse(a)') <= Cardinality(Purse(a)) + Burst
  <1> DEFINE n == NewLimiter
             new == Purse(a)' \ Purse(a)
             old == Purse(a)' \cap Purse(a)
  <1>1. n \in Limiter
    BY NewLimiterFresh DEF Set
  <1>2. /\ Owned(a)' \subseteq Owned(a) \cup {n}
        /\ tokens' = [tokens EXCEPT ![n] = Burst]
    BY <1>1, SetOwned DEF Set
  <1>3. new \in SUBSET ({n} \X (1..Burst))
    BY <1>2 DEF Purse, TypeOK, Owned
  <1>4. Cardinality(new) \in Nat /\ Cardinality(new) <= Burst
    BY <1>1, <1>3, OneBucket
  <1>5. /\ Purse(a) \in SUBSET (Limiter \X (1..Burst))
        /\ new \in SUBSET (Limiter \X (1..Burst))
        /\ old \in SUBSET Purse(a)
    BY <1>1, <1>3, PurseType
  <1>6. /\ IsFiniteSet(new) /\ IsFiniteSet(old)
        /\ Cardinality(old) \in Nat /\ Cardinality(Purse(a)) \in Nat
        /\ Cardinality(old) <= Cardinality(Purse(a))
    BY <1>5, Coins
  <1>7. new \cup old = Purse(a)' /\ new \cap old = {}
    OBVIOUS
  <1> HIDE DEF new, old
  <1>8. Cardinality(new \cap old) = 0
    BY <1>7, FS_EmptySet
  <1>9. Cardinality(Purse(a)') = Cardinality(new) + Cardinality(old)
    <2>1. Cardinality(new \cup old) =
              Cardinality(new) + Cardinality(old) - Cardinality(new \cap old)
      BY <1>6, FS_Union
    <2>2. Purse(a)' = new \cup old
      BY <1>7
    <2> QED
      BY <1>4, <1>6, <1>8, <2>1, <2>2
  <1> QED
    BY <1>4, <1>6, <1>9, RateLimiterAssumption

(* A request let through takes a coin. *)
LEMMA PursePays ==
    ASSUME TypeOK, TypeOK', HasLimiter, NEW r \in Request, Allow(r),
           NEW a \in Ip, a = from[r]
    PROVE  /\ Cardinality(Purse(a)) \in Nat
           /\ Cardinality(Purse(a)') \in Nat
           /\ Cardinality(Purse(a)') <= Cardinality(Purse(a)) - 1
  <1> DEFINE l == using[r]
             coin == <<l, tokens[l]>>
  <1>1. l \in Limiter /\ l \in Owned(a)
    BY UsedIsOwned DEF Allow
  <1>2. Owned(a)' \subseteq Owned(a)
    BY <1>1, AnsweredOwned DEF Allow
  <1>3. \A k \in Limiter : tokens'[k] = IF k = l THEN tokens[k] - 1 ELSE tokens[k]
    BY DEF Allow, TypeOK
  <1>4. tokens[l] \in 1..Burst /\ \A k \in Limiter : tokens[k] \in Int
    BY <1>1 DEF Allow, TypeOK
  <1>5. coin \in Purse(a)
    BY <1>1, <1>4 DEF Purse
  <1>6. Purse(a)' \subseteq Purse(a) \ {coin}
    <2> SUFFICES ASSUME NEW k \in Owned(a)', NEW i \in 1..Burst, i <= tokens'[k]
                 PROVE  k \in Owned(a) /\ i <= tokens[k] /\ <<k, i>> # coin
      BY <1>2 DEF Purse
    <2>1. k \in Owned(a) /\ k \in Limiter
      BY <1>2 DEF Owned
    <2> QED
      BY <1>3, <1>4, <2>1
  <1>7. Purse(a) \in SUBSET (Limiter \X (1..Burst))
    BY PurseType
  <1>8. /\ IsFiniteSet(Purse(a)) /\ Cardinality(Purse(a)) \in Nat
        /\ Cardinality(Purse(a)') \in Nat
        /\ Cardinality(Purse(a)') <= Cardinality(Purse(a) \ {coin})
    <2>1. Purse(a) \ {coin} \in SUBSET (Limiter \X (1..Burst))
      BY <1>7
    <2> QED
      BY <1>6, <1>7, <2>1, Coins
  <1> HIDE DEF coin
  <1>9. Cardinality(Purse(a) \ {coin}) = Cardinality(Purse(a)) - 1
    BY <1>5, <1>8, FS_RemoveElement
  <1> QED
    BY <1>8, <1>9

-----------------------------------------------------------------------------
(* Whoever has paid for all its coins is solvent whatever its requests do. *)
LEMMA PaidIsSolvent ==
    ASSUME NEW b \in Int, NEW c \in Nat, b >= c, NEW S \in SUBSET Request
    PROVE  b + Ahead >= c + Cardinality(S) * Burst
  <1> DEFINE m == Cardinality(S) * Burst
  <1>1. m \in Nat /\ m <= Ahead /\ Ahead \in Nat
    BY SomeRequests, AheadType
  <1> HIDE DEF m
  <1>2. b + Ahead >= c + m
    BY <1>1
  <1> QED
    BY <1>2 DEF m

(* A solvent address stays solvent while it only loses claims. *)
LEMMA StillSolvent ==
    ASSUME TypeOK, TypeOK', NEW ip \in Ip, Solvent(ip),
           Owned(ip)' \subseteq Owned(ip),
           \A l \in Owned(ip)' : tokens'[l] <= tokens[l],
           balance'[ip] = balance[ip],
           Missing(ip)' = Missing(ip),
           limiters'[ip] = limiters[ip]
    PROVE  Solvent(ip)'
  <1> DEFINE m == Cardinality(Missing(ip)) * Burst
  <1>1. m \in Nat /\ Ahead \in Nat /\ m = Cardinality(Missing(ip)') * Burst
    BY SomeRequests, AheadType DEF Missing
  <1>2. balance[ip] \in Int
    BY DEF TypeOK
  <1>3. /\ Cardinality(Purse(ip)) \in Nat /\ Cardinality(Purse(ip)') \in Nat
        /\ Cardinality(Purse(ip)') <= Cardinality(Purse(ip))
    BY PurseShrinks
  <1>4. balance[ip] + Ahead >= Cardinality(Purse(ip)) + m
    BY DEF Solvent
  <1> HIDE DEF m
  <1>5. balance'[ip] + Ahead >= Cardinality(Purse(ip)') + m
    BY <1>1, <1>2, <1>3, <1>4
  <1>6. limiters'[ip] = None => balance'[ip] >= Cardinality(Purse(ip)')
    BY <1>2, <1>3 DEF Solvent
  <1> QED
    BY <1>1, <1>5, <1>6 DEF Solvent, Ahead

LEMMA GetSolvent ==
    ASSUME IndInv, TypeOK', NEW r \in Request, NEW a \in Ip, Get(r, a),
           NEW ip \in Ip
    PROVE  Solvent(ip)'
  <1>1. TypeOK /\ HasLimiter /\ Solvent(ip)
    BY DEF IndInv, PromiseInv
  <1>2. Owned(ip)' = Owned(ip) /\ UNCHANGED <<limiters, tokens, balance>>
    BY <1>1, GetOwned DEF Get, answers
  <1>3. \A l \in Owned(ip)' : tokens'[l] <= tokens[l]
    BY <1>1, <1>2 DEF TypeOK, Owned
  <1>4. CASE ip = a /\ limiters[ip] = None
    <2>1. balance[ip] \in Int /\ balance[ip] >= Cardinality(Purse(ip))
      BY <1>1, <1>4 DEF Solvent, TypeOK
    <2>2. /\ Cardinality(Purse(ip)) \in Nat /\ Cardinality(Purse(ip)') \in Nat
          /\ Cardinality(Purse(ip)') <= Cardinality(Purse(ip))
      BY <1>1, <1>2, <1>3, PurseShrinks
    <2>3. balance'[ip] \in Int /\ balance'[ip] >= Cardinality(Purse(ip)')
      BY <1>2, <2>1, <2>2
    <2>4. Missing(ip)' \in SUBSET Request
      BY DEF Missing
    <2>5. balance'[ip] + Ahead >= Cardinality(Purse(ip)') + Cardinality(Missing(ip)') * Burst
      BY <2>2, <2>3, <2>4, PaidIsSolvent
    <2> QED
      BY <2>3, <2>5 DEF Solvent, Ahead
  <1>5. CASE ip # a \/ limiters[ip] # None
    <2>1. Missing(ip)' = Missing(ip)
      BY <1>1, <1>5 DEF Missing, Get, TypeOK
    <2> QED
      BY <1>1, <1>2, <1>3, <2>1, StillSolvent
  <1> QED
    BY <1>4, <1>5

LEMMA SetSolvent ==
    ASSUME IndInv, TypeOK', NEW r \in Request, Set(r), NEW ip \in Ip
    PROVE  Solvent(ip)'
  <1>1. TypeOK /\ HasLimiter /\ Solvent(ip)
    BY DEF IndInv, PromiseInv
  <1>2. balance' = balance
    BY DEF Set, answers
  <1>3. CASE ip = from[r]
    <2> DEFINE k == Cardinality(Missing(ip))
    <2>1. r \in Missing(ip) /\ Missing(ip)' = Missing(ip) \ {r}
      BY <1>1, <1>3 DEF Missing, Set, TypeOK
    <2>2. Missing(ip) \in SUBSET Request
      BY DEF Missing
    <2>3. IsFiniteSet(Missing(ip)) /\ k \in Nat
      BY <2>2, SomeRequests
    <2>4. Cardinality(Missing(ip)') = k - 1
      BY <2>1, <2>3, FS_RemoveElement
    <2>5. \A m, b \in Int : (m - 1) * b = m * b - b /\ m * b \in Int
      OBVIOUS
    <2>6. /\ Cardinality(Purse(ip)) \in Nat /\ Cardinality(Purse(ip)') \in Nat
          /\ Cardinality(Purse(ip)') <= Cardinality(Purse(ip)) + Burst
      BY <1>1, <1>3, PurseGrows
    <2>7. balance[ip] + Ahead >= Cardinality(Purse(ip)) + k * Burst
      BY <1>1 DEF Solvent
    <2>8. balance[ip] \in Int /\ Ahead \in Nat /\ Burst \in Nat
      BY <1>1, AheadType, RateLimiterAssumption DEF TypeOK
    <2> HIDE DEF k
    <2>9. (k - 1) * Burst = k * Burst - Burst /\ k * Burst \in Int
      BY <2>3, <2>5, <2>8
    <2>10. balance'[ip] + Ahead >= Cardinality(Purse(ip)') + (k - 1) * Burst
      BY <1>2, <2>6, <2>7, <2>8, <2>9
    <2>11. limiters'[ip] # None
      BY <1>1, <1>3, NewLimiterFresh, RateLimiterAssumption DEF Set, TypeOK
    <2> QED
      BY <2>4, <2>10, <2>11 DEF Solvent, Ahead
  <1>4. CASE ip # from[r]
    <2>1. Owned(ip)' = Owned(ip) /\ NewLimiter \notin Owned(ip)
      BY <1>1, <1>4, SetOwned
    <2>2. \A l \in Owned(ip)' : tokens'[l] <= tokens[l]
      BY <1>1, <2>1 DEF Set, TypeOK, Owned
    <2>3. Missing(ip)' = Missing(ip)
      BY <1>1, <1>4 DEF Missing, Set, TypeOK
    <2>4. limiters'[ip] = limiters[ip]
      BY <1>1, <1>4 DEF Set, TypeOK
    <2> QED
      BY <1>1, <1>2, <2>1, <2>2, <2>3, <2>4, StillSolvent
  <1> QED
    BY <1>3, <1>4

LEMMA AllowSolvent ==
    ASSUME IndInv, TypeOK', NEW r \in Request, Allow(r), NEW ip \in Ip
    PROVE  Solvent(ip)'
  <1>1. TypeOK /\ HasLimiter /\ OneOwner /\ Solvent(ip)
    BY DEF IndInv, PromiseInv
  <1>2. limiters' = limiters /\ Missing(ip)' = Missing(ip)
    BY <1>1 DEF Allow, Answered, Missing, TypeOK
  <1>3. CASE ip = from[r]
    <2> DEFINE m == Cardinality(Missing(ip)) * Burst
    <2>1. m \in Nat /\ Ahead \in Nat /\ m = Cardinality(Missing(ip)') * Burst
      BY <1>2, SomeRequests, AheadType DEF Missing
    <2>2. balance[ip] \in Int /\ balance'[ip] = balance[ip] - 1
      BY <1>1, <1>3 DEF Allow, TypeOK
    <2>3. /\ Cardinality(Purse(ip)) \in Nat /\ Cardinality(Purse(ip)') \in Nat
          /\ Cardinality(Purse(ip)') <= Cardinality(Purse(ip)) - 1
      BY <1>1, <1>3, PursePays
    <2>4. balance[ip] + Ahead >= Cardinality(Purse(ip)) + m
      BY <1>1 DEF Solvent
    <2> HIDE DEF m
    <2>5. balance'[ip] + Ahead >= Cardinality(Purse(ip)') + m
      BY <2>1, <2>2, <2>3, <2>4
    <2>6. limiters'[ip] = None => balance'[ip] >= Cardinality(Purse(ip)')
      BY <1>1, <1>2, <2>2, <2>3 DEF Solvent
    <2> QED
      BY <2>1, <2>5, <2>6 DEF Solvent, Ahead
  <1>4. CASE ip # from[r]
    <2>1. Owned(ip)' \subseteq Owned(ip)
      BY <1>1, AnsweredOwned DEF Allow
    <2>2. using[r] \in Owned(from[r]) /\ from[r] \in Ip
      BY <1>1, UsedIsOwned DEF Allow
    <2>3. using[r] \notin Owned(ip)
      BY <1>1, <1>4, <2>2 DEF OneOwner
    <2>4. \A l \in Owned(ip)' : tokens'[l] <= tokens[l]
      BY <1>1, <2>1, <2>3 DEF Allow, TypeOK, Owned
    <2>5. balance'[ip] = balance[ip]
      BY <1>1, <1>4 DEF Allow, TypeOK
    <2> QED
      BY <1>1, <1>2, <2>1, <2>4, <2>5, StillSolvent
  <1> QED
    BY <1>3, <1>4

(* An entry is stale only when its address's balance has recovered. *)
LEMMA StaleIsPaid ==
    ASSUME TypeOK, NEW ip \in Ip, Recovers(ip), Covered,
           limiters[ip] # None, IsStale(limiters[ip])
    PROVE  balance[ip] = Burst /\ age[limiters[ip]] > 0
  <1> DEFINE n == age[limiters[ip]]
  <1>1. n = MaxAge + 1
    BY RateLimiterAssumption DEF TypeOK, IsStale
  <1>2. balance[ip] >= Capped((MaxAge + 1) * Rate - Ahead)
    BY <1>1 DEF Recovers
  <1>3. (MaxAge + 1) * Rate >= Ahead + Burst
    <2>1. \A m, b \in Int : (m + 1) * b = m * b + b /\ m * b \in Int
      OBVIOUS
    <2>2. Burst \in Int /\ Cardinality(Request) \in Int
      BY AheadType, RateLimiterAssumption
    <2> QED
      BY <2>1, <2>2, RetentionAssumption DEF Ahead
  <1>4. (MaxAge + 1) * Rate \in Nat
    <2>1. \A m, b \in Nat : (m + 1) * b \in Nat
      OBVIOUS
    <2> QED
      BY <2>1, RateLimiterAssumption
  <1>5. balance[ip] \in Int /\ balance[ip] <= Burst
    BY DEF TypeOK, Covered
  <1>6. (MaxAge + 1) * Rate - Ahead >= Burst
    BY <1>3, <1>4, AheadType, RateLimiterAssumption
  <1>7. Capped((MaxAge + 1) * Rate - Ahead) = Burst
    BY <1>4, <1>6, AheadType, RateLimiterAssumption DEF Capped
  <1>8. n > 0
    BY <1>1, RateLimiterAssumption
  <1> QED
    BY <1>2, <1>5, <1>7, <1>8, RateLimiterAssumption

(* Who loses its entry has a full balance, and no bucket but that one. *)
LEMMA CleanupSolvent ==
    ASSUME IndInv, TypeOK', Cleanup, NEW ip \in Ip
    PROVE  Solvent(ip)'
  <1>1. TypeOK /\ HasLimiter /\ Covered /\ Solvent(ip) /\ Recovers(ip)
    BY DEF IndInv, PromiseInv
  <1>2. UNCHANGED <<tokens, step, from, using, balance>>
    BY DEF Cleanup, answers
  <1>3. Owned(ip)' \subseteq Owned(ip)
    BY <1>1, CleanupOwned
  <1>4. Missing(ip)' = Missing(ip)
    BY <1>2 DEF Missing
  <1>5. CASE limiters[ip] # None /\ IsStale(limiters[ip])
    <2> DEFINE l == limiters[ip]
    <2>1. balance[ip] = Burst /\ age[l] > 0
      BY <1>1, <1>5, StaleIsPaid
    <2>2. l \in Limiter
      BY <1>1, <1>5 DEF TypeOK
    <2>3. limiters'[ip] = None
      BY <1>5 DEF Cleanup
    <2>4. Owned(ip)' \subseteq {l}
      <3> SUFFICES ASSUME NEW k \in Limiter, NEW r \in Request,
                          using[r] = k, from[r] = ip
                   PROVE  k = l
        BY <1>2, <2>3, RateLimiterAssumption DEF Owned
      <3>1. step[r] # "new"
        BY <1>1, RateLimiterAssumption DEF HasLimiter
      <3> QED
        BY <1>1, <1>5, <2>1, <3>1 DEF Recovers
    <2>5. Purse(ip)' \in SUBSET ({l} \X (1..Burst))
      BY <2>4 DEF Purse
    <2>6. Cardinality(Purse(ip)') \in Nat /\ Cardinality(Purse(ip)') <= Burst
      BY <2>2, <2>5, OneBucket
    <2>7. balance'[ip] = Burst /\ Burst \in Nat
      BY <1>2, <2>1, RateLimiterAssumption
    <2>8. balance'[ip] >= Cardinality(Purse(ip)')
      BY <2>6, <2>7
    <2>9. Missing(ip)' \in SUBSET Request
      BY DEF Missing
    <2>10. balance'[ip] + Ahead >=
               Cardinality(Purse(ip)') + Cardinality(Missing(ip)') * Burst
      BY <2>6, <2>7, <2>8, <2>9, PaidIsSolvent
    <2> QED
      BY <2>8, <2>10 DEF Solvent, Ahead
  <1>6. CASE ~(limiters[ip] # None /\ IsStale(limiters[ip]))
    <2>1. limiters'[ip] = limiters[ip]
      BY <1>6 DEF Cleanup
    <2>2. \A l \in Owned(ip)' : tokens'[l] <= tokens[l]
      BY <1>1, <1>2, <1>3 DEF TypeOK, Owned
    <2> QED
      BY <1>1, <1>2, <1>3, <1>4, <2>1, <2>2, StillSolvent
  <1> QED
    BY <1>5, <1>6

(* A balance earns no less than the bucket it is compared with. *)
LEMMA TickSolvent ==
    ASSUME IndInv, TypeOK', Tick, NEW ip \in Ip
    PROVE  Solvent(ip)'
  <1>1. TypeOK /\ HasLimiter /\ Solvent(ip)
    BY DEF IndInv, PromiseInv
  <1>2. Owned(ip)' = Owned(ip) /\ Owned(ip) = {limiters[ip]} \ {None}
    BY <1>1, SameOwned, GapOwned DEF Tick
  <1>3. /\ balance[ip] \in Int /\ balance'[ip] = Capped(balance[ip] + Rate)
        /\ limiters' = limiters
    BY <1>1 DEF Tick, TypeOK
  <1>4. Missing(ip) = {} /\ Missing(ip)' = {}
    BY DEF Missing, Tick, Gap
  <1>5. Cardinality(Missing(ip)) = 0 /\ Cardinality(Missing(ip)') = 0
    BY <1>4, FS_EmptySet
  <1>6. 0 * Burst = 0 /\ Ahead \in Nat
    BY AheadType, RateLimiterAssumption
  <1>7. CASE limiters[ip] = None
    <2>1. Purse(ip) = {} /\ Purse(ip)' = {}
      BY <1>2, <1>7 DEF Purse
    <2>2. Cardinality(Purse(ip)) = 0 /\ Cardinality(Purse(ip)') = 0
      BY <2>1, FS_EmptySet
    <2>3. balance[ip] >= 0
      BY <1>1, <1>7, <2>2 DEF Solvent
    <2>4. balance'[ip] \in Int /\ balance'[ip] >= 0
      BY <1>3, <2>3, RateLimiterAssumption DEF Capped
    <2>5. balance'[ip] + Ahead >= 0 + 0 * Burst
      BY <1>6, <2>4
    <2> QED
      BY <1>5, <2>2, <2>4, <2>5 DEF Solvent, Ahead
  <1>8. CASE limiters[ip] # None
    <2> DEFINE l == limiters[ip]
    <2>1. l \in Limiter /\ Owned(ip) = {l}
      BY <1>1, <1>2, <1>8 DEF TypeOK
    <2>2. tokens[l] \in 0..Burst /\ tokens'[l] \in 0..Burst
      BY <1>1, <2>1 DEF TypeOK
    <2>3. ~Fresh(l)
      BY <2>1, FreshUnowned
    <2>4. tokens'[l] = Capped(tokens[l] + Rate)
      BY <2>1, <2>3 DEF Tick
    <2> HIDE DEF l
    <2>5. /\ Cardinality(Purse(ip)) = tokens[l]
          /\ Cardinality(Purse(ip)') = tokens'[l]
      <3>1. Purse(ip) = {coin \in {l} \X (1..Burst) : coin[2] <= tokens[l]}
        BY <2>1 DEF Purse
      <3>2. Purse(ip)' = {coin \in {l} \X (1..Burst) : coin[2] <= tokens'[l]}
        BY <1>2, <2>1 DEF Purse
      <3> QED
        BY <2>1, <2>2, <3>1, <3>2, OnePurse
    <2>6. balance[ip] + Ahead >= tokens[l] + 0 * Burst
      BY <1>1, <1>5, <2>5 DEF Solvent
    <2>7. balance[ip] + Ahead >= tokens[l]
      BY <1>6, <2>2, <2>6
    <2>8. balance'[ip] + Ahead >= tokens'[l] + 0 * Burst
      BY <1>3, <1>6, <2>2, <2>4, <2>7, RateLimiterAssumption DEF Capped
    <2> QED
      BY <1>3, <1>5, <1>8, <2>5, <2>8 DEF Solvent, Ahead
  <1> QED
    BY <1>7, <1>8

LEMMA SolventStep ==
    ASSUME IndInv, TypeOK', [Next]_vars, NEW ip \in Ip
    PROVE  Solvent(ip)'
  <1>1. TypeOK /\ HasLimiter /\ Solvent(ip)
    BY DEF IndInv, PromiseInv
  <1>2. ASSUME Owned(ip)' \subseteq Owned(ip),
               UNCHANGED <<tokens, limiters, balance>>,
               Missing(ip)' = Missing(ip)
        PROVE  Solvent(ip)'
    <2>1. \A l \in Owned(ip)' : tokens'[l] <= tokens[l]
      BY <1>1, <1>2 DEF TypeOK, Owned
    <2> QED
      BY <1>1, <1>2, <2>1, StillSolvent
  <1>3. ASSUME NEW r \in Request, Touch(r) PROVE Solvent(ip)'
    <2>1. Missing(ip)' = Missing(ip)
      BY <1>1, <1>3 DEF Missing, Touch, TypeOK
    <2> QED
      BY <1>2, <1>3, <2>1, SameOwned DEF Touch, answers
  <1>4. ASSUME NEW r \in Request, Reject(r) PROVE Solvent(ip)'
    <2>1. Missing(ip)' = Missing(ip)
      BY <1>1, <1>4 DEF Missing, Reject, Answered, TypeOK
    <2> QED
      BY <1>1, <1>2, <1>4, <2>1, AnsweredOwned DEF Reject, Answered
  <1>5. CASE UNCHANGED vars
    <2>1. Missing(ip)' = Missing(ip)
      BY <1>5 DEF Missing, vars
    <2> QED
      BY <1>2, <1>5, <2>1, SameOwned DEF vars, answers
  <1> QED
    BY <1>3, <1>4, <1>5, GetSolvent, SetSolvent, AllowSolvent, CleanupSolvent,
       TickSolvent DEF Next

-----------------------------------------------------------------------------
(* No balance falls below what its address can be ahead. *)
LEMMA Floor ==
    ASSUME TypeOK', NEW ip \in Ip, Solvent(ip)'
    PROVE  balance'[ip] \in Int /\ balance'[ip] >= Capped(0 * Rate - Ahead)
  <1> DEFINE m == Cardinality(Missing(ip)') * Burst
             c == Cardinality(Purse(ip)')
  <1>1. m \in Nat
    BY SomeRequests DEF Missing
  <1>2. c \in Nat
    <2>1. Purse(ip)' \in SUBSET (Limiter \X (1..Burst))
      BY DEF Purse, Owned
    <2> QED
      BY <2>1, Coins
  <1>3. balance'[ip] + Ahead >= c + m
    BY DEF Solvent, Ahead
  <1>4. balance'[ip] \in Int /\ Ahead \in Nat
    BY AheadType DEF TypeOK
  <1> HIDE DEF m, c
  <1>5. 0 * Rate = 0 /\ Burst \in Nat
    BY RateLimiterAssumption
  <1> QED
    BY <1>1, <1>2, <1>3, <1>4, <1>5 DEF Capped

(* A new or touched entry has not aged. *)
LEMMA FreshRecovers ==
    ASSUME TypeOK', NEW ip \in Ip, Solvent(ip)', age'[limiters'[ip]] = 0
    PROVE  Recovers(ip)'
  <1>1. balance'[ip] >= Capped(0 * Rate - Ahead)
    BY Floor
  <1> QED
    BY <1>1 DEF Recovers, Ahead

(* The clauses of Recovers for an entry that stays and does not age. *)
LEMMA StillRecovers ==
    ASSUME NEW ip \in Ip, Recovers(ip), limiters'[ip] = limiters[ip],
           limiters[ip] # None =>
               /\ age'[limiters[ip]] = age[limiters[ip]]
               /\ balance'[ip] = balance[ip]
               /\ age[limiters[ip]] > 0 =>
                      \A r \in Request : step'[r] # "new" /\ from'[r] = ip =>
                          step'[r] = "found" /\ using'[r] = limiters[ip]
    PROVE  Recovers(ip)'
  BY DEF Recovers, Ahead

LEMMA TickRecovers ==
    ASSUME IndInv, Tick, NEW ip \in Ip
    PROVE  Recovers(ip)'
  <1> SUFFICES ASSUME limiters[ip] # None
               PROVE  balance'[ip] >= Capped(age'[limiters[ip]] * Rate - Ahead)
    BY DEF Tick, Gap, Recovers, Ahead
  <1> DEFINE l == limiters[ip]
             n == age[l]
  <1>1. TypeOK /\ Recovers(ip)
    BY DEF IndInv, PromiseInv
  <1>2. l \in Limiter /\ ~Fresh(l)
    BY <1>1 DEF TypeOK, Fresh
  <1>3. n \in Nat /\ (age'[l] = n \/ age'[l] = n + 1)
    BY <1>1, <1>2 DEF Tick, TypeOK
  <1>4. balance[ip] \in Int /\ balance'[ip] = Capped(balance[ip] + Rate)
    BY <1>1 DEF Tick, TypeOK
  <1>5. balance[ip] >= Capped(n * Rate - Ahead)
    BY <1>1 DEF Recovers
  <1>6. /\ n * Rate \in Int
        /\ (n + 1) * Rate = n * Rate + Rate
    <2>1. \A m, b \in Int : (m + 1) * b = m * b + b /\ m * b \in Int
      OBVIOUS
    <2> QED
      BY <1>3, <2>1, RateLimiterAssumption
  <1> HIDE DEF n
  <1> DEFINE x == n * Rate - Ahead
  <1>7. x \in Int /\ (n + 1) * Rate - Ahead = x + Rate
    BY <1>6, AheadType, RateLimiterAssumption
  <1> HIDE DEF x
  <1>8. /\ balance'[ip] >= Capped(x)
        /\ balance'[ip] >= Capped(x + Rate)
    <2>1. balance[ip] >= Capped(x)
      BY <1>5 DEF x
    <2> QED
      BY <1>4, <1>7, <2>1, RateLimiterAssumption DEF Capped
  <1>9. CASE age'[l] = n
    BY <1>8, <1>9 DEF x
  <1>10. CASE age'[l] = n + 1
    BY <1>7, <1>8, <1>10
  <1> QED
    BY <1>3, <1>9, <1>10

(* While an entry ages its address draws on nothing, and its balance recovers. *)
LEMMA RecoversStep ==
    ASSUME IndInv, TypeOK', [Next]_vars, NEW ip \in Ip, Solvent(ip)'
    PROVE  Recovers(ip)'
  <1> DEFINE l == limiters[ip]
  <1>1. TypeOK /\ HasLimiter /\ Recovers(ip)
    BY DEF IndInv, PromiseInv
  <1>2. ASSUME NEW r \in Request, NEW a \in Ip, Get(r, a) PROVE Recovers(ip)'
    <2>1. UNCHANGED <<limiters, age, balance>>
      BY <1>2 DEF Get, answers
    <2>2. ASSUME l # None, age[l] > 0, NEW q \in Request, step'[q] # "new", from'[q] = ip
          PROVE  step'[q] = "found" /\ using'[q] = l
      <3>1. CASE q = r
        BY <1>1, <1>2, <2>2, <3>1 DEF Get, TypeOK
      <3>2. CASE q # r
        BY <1>1, <1>2, <2>2, <3>2 DEF Get, TypeOK, Recovers
      <3> QED
        BY <3>1, <3>2
    <2> QED
      BY <1>1, <2>1, <2>2, StillRecovers
  <1>3. ASSUME NEW r \in Request, Touch(r) PROVE Recovers(ip)'
    <2>1. /\ UNCHANGED <<limiters, balance, from, using>>
          /\ \A q \in Request \ {r} : step'[q] = step[q]
          /\ step[r] = "found"
      BY <1>1, <1>3 DEF Touch, answers, TypeOK
    <2>2. using[r] \in Limiter /\ age' = [age EXCEPT ![using[r]] = 0]
      BY <1>1, <1>3, UsedIsOwned DEF Touch
    <2>3. CASE l = using[r]
      <3>1. age'[limiters'[ip]] = 0
        BY <1>1, <2>1, <2>2, <2>3 DEF TypeOK
      <3> QED
        BY <3>1, FreshRecovers
    <2>4. CASE l # using[r]
      <3>1. l # None => age'[l] = age[l]
        BY <1>1, <2>2, <2>4 DEF TypeOK
      <3>2. ASSUME l # None, age[l] > 0, NEW q \in Request, step'[q] # "new", from'[q] = ip
            PROVE  step'[q] = "found" /\ using'[q] = l
        BY <1>1, <2>1, <2>4, <3>2 DEF Recovers
      <3> QED
        BY <1>1, <2>1, <3>1, <3>2, StillRecovers
    <2> QED
      BY <2>3, <2>4
  <1>4. ASSUME NEW r \in Request, Set(r) PROVE Recovers(ip)'
    <2> DEFINE n == NewLimiter
    <2>1. n \in Limiter /\ Fresh(n)
      BY <1>1, <1>4, NewLimiterFresh DEF Set
    <2>2. /\ limiters' = [limiters EXCEPT ![from[r]] = n]
          /\ age' = [age EXCEPT ![n] = 0]
          /\ using' = [using EXCEPT ![r] = n]
          /\ step' = [step EXCEPT ![r] = "limited"]
          /\ UNCHANGED <<from, balance>>
      BY <1>4 DEF Set, answers
    <2> HIDE DEF n
    <2>3. CASE ip = from[r]
      <3>1. age'[limiters'[ip]] = 0
        BY <1>1, <2>1, <2>2, <2>3 DEF TypeOK
      <3> QED
        BY <3>1, FreshRecovers
    <2>4. CASE ip # from[r]
      <3>1. limiters'[ip] = l /\ l # n
        BY <1>1, <2>1, <2>2, <2>4 DEF TypeOK, Fresh
      <3>2. l # None => age'[l] = age[l]
        BY <1>1, <2>2, <3>1 DEF TypeOK
      <3>3. ASSUME l # None, age[l] > 0, NEW q \in Request, step'[q] # "new", from'[q] = ip
            PROVE  step'[q] = "found" /\ using'[q] = l
        BY <1>1, <2>2, <2>4, <3>3 DEF Recovers, TypeOK
      <3> QED
        BY <1>1, <2>2, <3>1, <3>2, <3>3, StillRecovers
    <2> QED
      BY <2>3, <2>4
  <1>5. ASSUME NEW r \in Request, Allow(r) \/ Reject(r) PROVE Recovers(ip)'
    <2>1. /\ UNCHANGED <<limiters, age, from>>
          /\ step[r] = "limited"
          /\ \A q \in Request : step'[q] = IF q = r THEN "new" ELSE step[q]
          /\ \A q \in Request \ {r} : using'[q] = using[q]
      BY <1>1, <1>5 DEF Allow, Reject, Answered, TypeOK
    <2>2. CASE l # None /\ from[r] = ip
      <3>1. age[l] = 0
        <4>1. ~(age[l] > 0)
          BY <1>1, <2>1, <2>2 DEF Recovers
        <4>2. age[l] \in Nat
          BY <1>1, <2>2, RateLimiterAssumption DEF TypeOK
        <4> QED
          BY <4>1, <4>2
      <3> QED
        BY <2>1, <3>1, FreshRecovers
    <2>3. CASE l = None \/ from[r] # ip
      <3>1. from[r] # ip => balance'[ip] = balance[ip]
        BY <1>1, <1>5 DEF Allow, Reject, TypeOK
      <3>2. ASSUME l # None, age[l] > 0, NEW q \in Request, step'[q] # "new", from'[q] = ip
            PROVE  step'[q] = "found" /\ using'[q] = l
        BY <1>1, <2>1, <2>3, <3>2 DEF Recovers
      <3> QED
        BY <1>1, <2>1, <2>3, <3>1, <3>2, StillRecovers
    <2> QED
      BY <2>2, <2>3
  <1>6. CASE Cleanup
    <2>1. UNCHANGED <<age, balance, step, from, using>>
      BY <1>6 DEF Cleanup, answers
    <2>2. CASE limiters'[ip] = None
      BY <2>2 DEF Recovers
    <2>3. CASE limiters'[ip] = l
      BY <1>1, <2>1, <2>3, StillRecovers DEF Recovers
    <2> QED
      BY <1>6, <2>2, <2>3 DEF Cleanup
  <1>7. CASE UNCHANGED vars
    BY <1>1, <1>7, StillRecovers DEF vars, answers, Recovers
  <1> QED
    BY <1>2, <1>3, <1>4, <1>5, <1>6, <1>7, TickRecovers DEF Next

-----------------------------------------------------------------------------
LEMMA IndInvStep == IndInv /\ [Next]_vars => IndInv'
  <1> SUFFICES ASSUME IndInv, [Next]_vars PROVE IndInv'
    OBVIOUS
  <1>1. TypeOK'
    BY TypeStep
  <1>2. HasLimiter' /\ OneOwner' /\ Covered'
    BY HasLimiterStep, OneOwnerStep, CoveredStep
  <1>3. ASSUME NEW ip \in Ip PROVE Solvent(ip)' /\ Recovers(ip)'
    BY <1>1, SolventStep, RecoversStep
  <1> QED
    BY <1>1, <1>2, <1>3 DEF IndInv, PromiseInv

(* The rate limiter keeps the types of its variables. *)
THEOREM TypeCorrect == Spec => []TypeOK
  <1>1. IndInv => TypeOK
    BY DEF IndInv
  <1> QED
    BY <1>1, InitInv, IndInvStep, PTL DEF Spec

(***************************************************************************)
(* An entry is never removed while its address still owes for it, and what *)
(* an address can draw from all its buckets stays within its balance and   *)
(* a burst per request.                                                    *)
(***************************************************************************)
THEOREM PromiseInvHolds == Spec => []PromiseInv
  <1>1. IndInv => PromiseInv
    BY DEF IndInv
  <1> QED
    BY <1>1, InitInv, IndInvStep, PTL DEF Spec

-----------------------------------------------------------------------------
(* Each step of the rate limiter is a step of the promise, or none. *)
LEMMA PromiseStep ==
    ASSUME IndInv, [Next]_vars
    PROVE  [Promise!Next]_<<balance, verdict>>
  <1>1. TypeOK /\ HasLimiter /\ Covered /\ \A ip \in Ip : Solvent(ip)
    BY DEF IndInv, PromiseInv
  <1>2. ASSUME NEW r \in Request, Allow(r) PROVE Promise!LetThrough(from[r])
    <2> DEFINE a == from[r]
    <2>1. using[r] \in Owned(a) /\ a \in Ip /\ using[r] \in Limiter
      BY <1>1, <1>2, UsedIsOwned DEF Allow
    <2>2. <<using[r], tokens[using[r]]>> \in Purse(a)
      BY <1>1, <1>2, <2>1 DEF Purse, Allow, TypeOK
    <2>3. Cardinality(Purse(a)) \in Nat /\ Cardinality(Purse(a)) # 0
      <3>1. IsFiniteSet(Purse(a)) /\ Cardinality(Purse(a)) \in Nat
        BY <2>1, PurseType, Coins
      <3> QED
        BY <2>2, <3>1, FS_EmptySet
    <2>4. balance[a] > -Ahead
      <3> DEFINE m == Cardinality(Missing(a)) * Burst
      <3>1. m \in Nat
        BY SomeRequests DEF Missing
      <3>2. balance[a] + Ahead >= Cardinality(Purse(a)) + m
        BY <1>1, <2>1 DEF Solvent
      <3>3. balance[a] \in Int /\ Ahead \in Nat
        BY <1>1, <2>1, AheadType DEF TypeOK
      <3> HIDE DEF m
      <3> QED
        BY <2>3, <3>1, <3>2, <3>3
    <2> QED
      BY <1>2, <2>4 DEF Promise!LetThrough, Allow, Answered, Ahead
  <1>3. ASSUME NEW r \in Request, Reject(r) PROVE Promise!TurnAway(from[r])
    <2>1. using[r] \in Owned(from[r]) /\ from[r] \in Ip
      BY <1>1, <1>3, UsedIsOwned DEF Reject
    <2>2. balance[from[r]] <= 0
      BY <1>1, <1>3, <2>1 DEF Covered, Reject
    <2> QED
      BY <1>3, <2>2 DEF Promise!TurnAway, Reject, Answered
  <1>4. ASSUME Tick PROVE Promise!Earn
    BY <1>4 DEF Promise!Earn, Promise!Capped, Tick, Capped
  <1>5. ASSUME UNCHANGED answers PROVE UNCHANGED <<balance, verdict>>
    BY <1>5 DEF answers
  <1>6. \A r \in Request : from[r] \in Ip
    BY <1>1 DEF TypeOK
  <1> QED
    BY <1>2, <1>3, <1>4, <1>5, <1>6
       DEF Next, Get, Touch, Set, Cleanup, vars, Promise!Next

(***************************************************************************)
(* The rate limiter implements one token bucket per address with a slack   *)
(* of a burst per request: Allow never turns away whom that bucket would   *)
(* let through, and lets nobody get further ahead, whatever the cleanup    *)
(* removes and however the calls on the cache interleave.                  *)
(***************************************************************************)
THEOREM KeepsPromiseHolds == Spec => KeepsPromise
  <1>1. Init => Promise!Init
    BY DEF Init, Promise!Init
  <1> QED
    BY <1>1, InitInv, IndInvStep, PromiseStep, PTL
       DEF Spec, KeepsPromise, Promise!Spec
=============================================================================
