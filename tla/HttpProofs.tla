------------------------------ MODULE HttpProofs ------------------------------
(***************************************************************************)
(* The read routes keep what the ledger reads and the key cache promise:   *)
(* every step of HttpApi is a step, or a stutter, of LedgerReads and of    *)
(* KeyCache.                                                               *)
(*                                                                         *)
(* The keys are right because the key set of a fetch is never older than   *)
(* the fetch (DocFresh), and the cache never older than its age and the    *)
(* fetch that filled it (CacheFresh).                                      *)
(***************************************************************************)
EXTENDS HttpApi, LedgerReadsProofs

-----------------------------------------------------------------------------
(* The key cache. *)

KeyTypes ==
  /\ status \in [Key -> {"future", "published", "retired"}]
  /\ retiredFor \in [Key -> Nat]
  /\ cached \subseteq Key
  /\ age \in 0..TTL
  /\ fetch \in [holder : Client \cup {None}, elapsed : 0..FetchTimeout,
                answered : BOOLEAN, doc : SUBSET Key]
  /\ asking \in [Client ->
       [state : {"idle"}, key : {None}]
         \cup [state : {"waiting", "granted", "refused", "failed"}, key : Key]]

\* Only a key that is retired has been so for a while.
OnlyRetiredAge == \A k \in Key : status[k] # "retired" => retiredFor[k] = 0

\* The one that fetches is waiting for it.
HolderWaits == \A c \in Client : Fetching(c) => Waiting(c)

\* Tokens are signed by keys that have been published.
AskedKnown == \A c \in Client : asking[c] # NoRequest => status[asking[c].key] # "future"

\* A key of the answer was published when the fetch began or later.
DocFresh ==
  fetch.answered => ~Unlocked /\ \A k \in fetch.doc : retiredFor[k] <= fetch.elapsed

\* The key that the fetch is for is in the answer, or retired.
DocComplete ==
  fetch.answered => \A c \in Client :
    Fetching(c) => asking[c].key \in fetch.doc \/ status[asking[c].key] = "retired"

CacheFresh == \A k \in cached : retiredFor[k] <= age + FetchTimeout

KeysInv ==
  /\ KeyTypes
  /\ OnlyRetiredAge
  /\ HolderWaits
  /\ AskedKnown
  /\ DocFresh
  /\ DocComplete
  /\ CacheFresh
  /\ SteadyKeyServed

\* The cache starts empty.
LEMMA KeysInvInit == KeysInit => KeysInv
<1> SUFFICES ASSUME KeysInit PROVE KeysInv
  OBVIOUS
<1>1. KeyTypes
  BY KeysAssumption DEF KeysInit, KeyTypes, NoFetch, NoRequest
<1>2. OnlyRetiredAge /\ CacheFresh
  BY DEF KeysInit, OnlyRetiredAge, CacheFresh
<1>3. HolderWaits /\ DocFresh /\ DocComplete
  BY KeysAssumption DEF KeysInit, HolderWaits, DocFresh, DocComplete, NoFetch, Fetching
<1>4. AskedKnown /\ SteadyKeyServed
  BY DEF KeysInit, AskedKnown, SteadyKeyServed, NoRequest
<1> QED BY <1>1, <1>2, <1>3, <1>4 DEF KeysInv

\* Ages grow by one and stop at a bound that the invariant stays below.
LEMMA TickedBy ==
  ASSUME NEW n \in Nat, NEW bound \in Nat
  PROVE  /\ Ticked(n, bound) \in Nat
         /\ Ticked(n, bound) <= n + 1
         /\ Ticked(n, bound) <= bound
         /\ n <= bound => n <= Ticked(n, bound)
         /\ n < bound => Ticked(n, bound) = n + 1
         /\ n = bound => Ticked(n, bound) = bound
BY DEF Ticked

\* Time passes: no answer gets older than the bound.
LEMMA TickPreserves ==
  ASSUME KeysInv, Tick
  PROVE  KeysInv'
<1> USE KeysAssumption
<1>1. /\ UNCHANGED <<status, cached, asking>>
      /\ age' = Ticked(age, TTL)
      /\ retiredFor' = [k \in Key |->
           IF status[k] = "retired" THEN Ticked(retiredFor[k], Horizon) ELSE 0]
  BY DEF Tick
<1>2. Horizon \in Nat /\ Horizon = TTL + FetchTimeout /\ age \in Nat /\ age <= TTL
  BY DEF Horizon, KeysInv, KeyTypes
<1>3. age' \in 0..TTL /\ age' = IF age < TTL THEN age + 1 ELSE TTL
  BY <1>1, <1>2 DEF Ticked
<1>4. ASSUME NEW k \in Key
      PROVE  /\ retiredFor[k] \in Nat /\ retiredFor'[k] \in Nat
             /\ retiredFor'[k] <= retiredFor[k] + 1
             /\ retiredFor'[k] <= Horizon
             /\ status'[k] # "retired" => retiredFor'[k] = 0
  <2>1. retiredFor[k] \in Nat
    BY DEF KeysInv, KeyTypes
  <2>2. retiredFor'[k] = IF status[k] = "retired" THEN Ticked(retiredFor[k], Horizon) ELSE 0
    BY <1>1
  <2>3. PICK n : n = Ticked(retiredFor[k], Horizon)
    OBVIOUS
  <2>4. n \in Nat /\ n <= retiredFor[k] + 1 /\ n <= Horizon
    BY <1>2, <2>1, <2>3, TickedBy
  <2> QED BY <1>1, <1>2, <2>1, <2>2, <2>3, <2>4
<1>5. /\ fetch'.holder = fetch.holder
      /\ fetch'.answered = fetch.answered
      /\ fetch'.doc = fetch.doc
      /\ ~Unlocked => fetch'.elapsed = fetch.elapsed + 1
      /\ fetch.elapsed \in Nat
      /\ fetch' \in [holder : Client \cup {None}, elapsed : 0..FetchTimeout,
                     answered : BOOLEAN, doc : SUBSET Key]
  BY DEF Tick, KeysInv, KeyTypes
<1>6. KeyTypes'
  BY <1>1, <1>3, <1>4, <1>5 DEF KeysInv, KeyTypes
<1>7. OnlyRetiredAge'
  BY <1>4 DEF OnlyRetiredAge
<1>8. DocFresh'
  <2>1. ASSUME fetch'.answered, NEW k \in fetch'.doc
        PROVE  ~Unlocked' /\ retiredFor'[k] <= fetch'.elapsed
    <3>1. k \in Key
      BY <1>5, <2>1 DEF KeysInv, KeyTypes
    <3>2. retiredFor[k] <= fetch.elapsed /\ ~Unlocked
      BY <1>5, <2>1 DEF KeysInv, DocFresh
    <3> QED BY <1>4, <1>5, <3>1, <3>2 DEF Unlocked, Fetching
  <2>2. fetch'.answered => ~Unlocked'
    BY <1>5 DEF KeysInv, DocFresh, Unlocked, Fetching
  <2> QED BY <2>1, <2>2 DEF DocFresh
<1>9. CacheFresh'
  <2>1. ASSUME NEW k \in cached
        PROVE  retiredFor'[k] <= age' + FetchTimeout
    <3>1. k \in Key /\ retiredFor[k] <= age + FetchTimeout
      BY DEF KeysInv, KeyTypes, CacheFresh
    <3> QED BY <1>2, <1>3, <1>4, <3>1
  <2> QED BY <1>1, <2>1 DEF CacheFresh
<1>10. HolderWaits' /\ DocComplete' /\ AskedKnown' /\ SteadyKeyServed'
  BY <1>1, <1>5 DEF KeysInv, HolderWaits, DocComplete, AskedKnown, SteadyKeyServed,
                    Fetching, Waiting
<1> QED BY <1>6, <1>7, <1>8, <1>9, <1>10 DEF KeysInv

\* The issuer publishes another document.
LEMMA RotatePreserves ==
  ASSUME KeysInv, Rotate
  PROVE  KeysInv'
<1>1. PICK k \in Key : Publish(k) \/ Retire(k)
  BY DEF Rotate
<1>2. /\ UNCHANGED <<retiredFor, cached, age, fetch, asking>>
      /\ status[k] # "retired"
      /\ \E s \in {"published", "retired"} : status' = [status EXCEPT ![k] = s]
  BY <1>1 DEF Publish, Retire
<1>3. /\ status' \in [Key -> {"future", "published", "retired"}]
      /\ \A j \in Key : /\ status[j] = "retired" => status'[j] = "retired"
                        /\ status[j] # "future" => status'[j] # "future"
                        /\ status'[j] # "retired" => status[j] # "retired"
  BY <1>2 DEF KeysInv, KeyTypes
<1>4. ASSUME NEW c \in Client, asking[c] # NoRequest
      PROVE  asking[c].key \in Key
  BY <1>4 DEF KeysInv, KeyTypes, NoRequest
<1>5. KeyTypes' /\ OnlyRetiredAge' /\ CacheFresh'
  BY <1>2, <1>3 DEF KeysInv, KeyTypes, OnlyRetiredAge, CacheFresh
<1>6. HolderWaits' /\ DocFresh'
  BY <1>2 DEF KeysInv, HolderWaits, DocFresh, Fetching, Waiting, Unlocked
<1>7. AskedKnown'
  BY <1>2, <1>3, <1>4 DEF KeysInv, AskedKnown
<1>8. ASSUME NEW c \in Client
      PROVE  asking[c].state \in {"waiting", "refused"} =>
               asking[c].key \in Key /\ asking[c] # NoRequest
  BY <1>4 DEF NoRequest
<1>9. DocComplete'
  BY <1>2, <1>3, <1>8 DEF KeysInv, DocComplete, HolderWaits, Fetching, Waiting
<1>10. SteadyKeyServed'
  BY <1>2, <1>3, <1>8 DEF KeysInv, SteadyKeyServed
<1> QED BY <1>5, <1>6, <1>7, <1>9, <1>10 DEF KeysInv

\* A request asks, is concluded without touching the cache, or leaves.
LEMMA AskingStep ==
  ASSUME KeysInv, NEW c \in Client, NEW r,
         r \in [state : {"idle"}, key : {None}]
               \cup [state : {"waiting", "granted", "refused", "failed"}, key : Key],
         r # NoRequest => status[r.key] # "future",
         r.state # "refused", ~Fetching(c) \/ fetch' = NoFetch,
         asking' = [asking EXCEPT ![c] = r],
         fetch' = fetch \/ fetch' = NoFetch,
         UNCHANGED <<status, retiredFor, cached, age>>
  PROVE  KeysInv'
<1>1. /\ fetch' \in [holder : Client \cup {None}, elapsed : 0..FetchTimeout,
                     answered : BOOLEAN, doc : SUBSET Key]
      /\ fetch'.answered => fetch' = fetch
      /\ \A d \in Client : fetch'.holder = d => fetch' = fetch
  <2>1. CASE fetch' = fetch
    BY <2>1 DEF KeysInv, KeyTypes
  <2>2. CASE fetch' = NoFetch
    BY <2>2, KeysAssumption DEF NoFetch
  <2> QED BY <2>1, <2>2
<1>2. \A d \in Client : asking'[d] = IF d = c THEN r ELSE asking[d]
  BY DEF KeysInv, KeyTypes
<1>3. KeyTypes' /\ OnlyRetiredAge' /\ CacheFresh'
  BY <1>1 DEF KeysInv, KeyTypes, OnlyRetiredAge, CacheFresh
<1>4. ASSUME NEW d \in Client, fetch'.holder = d
      PROVE  d # c /\ fetch' = fetch
  BY <1>1, <1>4, KeysAssumption DEF Fetching, NoFetch
<1>5. HolderWaits'
  BY <1>2, <1>4 DEF KeysInv, HolderWaits, Fetching, Waiting
<1>6. AskedKnown'
  BY <1>2 DEF KeysInv, AskedKnown
<1>7. DocFresh'
  BY <1>1 DEF KeysInv, DocFresh, Unlocked, Fetching
<1>8. DocComplete'
  BY <1>1, <1>2, <1>4 DEF KeysInv, DocComplete, Fetching
<1>9. SteadyKeyServed'
  BY <1>2 DEF KeysInv, SteadyKeyServed
<1> QED BY <1>3, <1>5, <1>6, <1>7, <1>8, <1>9 DEF KeysInv

\* A request looks a key up, and may start a fetch.
LEMMA RequestPreserves ==
  ASSUME KeysInv, NEW c \in Client,
         Leave(c) \/ KeyHit(c) \/ FetchFails(c) \/ \E k \in Key : Ask(c, k)
  PROVE  KeysInv'
<1>1. asking[c].state # "idle" =>
        /\ asking[c].state \in {"waiting", "granted", "refused", "failed"}
        /\ asking[c].key \in Key
        /\ status[asking[c].key] # "future"
        /\ \A state \in {"granted", "failed"} :
             [asking[c] EXCEPT !.state = state] = [state |-> state, key |-> asking[c].key]
  BY DEF KeysInv, KeyTypes, AskedKnown, NoRequest
<1>2. CASE Leave(c)
  <2>1. ~Fetching(c)
    BY <1>2 DEF Leave, KeysInv, HolderWaits, Waiting
  <2> QED BY <1>2, <2>1, AskingStep DEF Leave, NoRequest
<1>3. CASE KeyHit(c)
  <2>1. ~Fetching(c)
    BY <1>3, KeysAssumption DEF KeyHit, Unlocked, Fetching
  <2>2. PICK r : r = [state |-> "granted", key |-> asking[c].key]
    OBVIOUS
  <2>3. asking' = [asking EXCEPT ![c] = r] /\ asking[c].state # "idle"
    BY <1>1, <1>3, <2>2 DEF KeyHit, Conclude, Waiting, KeysInv, KeyTypes
  <2> QED BY <1>1, <1>3, <2>1, <2>2, <2>3, AskingStep DEF KeyHit
<1>4. CASE FetchFails(c)
  <2>1. PICK r : r = [state |-> "failed", key |-> asking[c].key]
    OBVIOUS
  <2>2. asking' = [asking EXCEPT ![c] = r] /\ asking[c].state # "idle"
    BY <1>1, <1>4, <2>1 DEF FetchFails, Conclude, Waiting, KeysInv, KeyTypes, HolderWaits
  <2> QED BY <1>1, <1>4, <2>1, <2>2, AskingStep DEF FetchFails
<1>5. CASE \E k \in Key : Ask(c, k)
  <2>1. PICK k \in Key : Ask(c, k)
    BY <1>5
  <2>2. PICK r : r = [state |-> "waiting", key |-> k]
    OBVIOUS
  <2>3. ~Fetching(c)
    BY <2>1 DEF Ask, NoRequest, KeysInv, HolderWaits, Waiting
  <2> QED BY <2>1, <2>2, <2>3, AskingStep DEF Ask
<1> QED BY <1>2, <1>3, <1>4, <1>5

\* A fetch ends, with a document or without.
LEMMA FetchPreserves ==
  ASSUME KeysInv, NEW c \in Client,
         KeyMiss(c) \/ (Fetching(c) /\ ServeKeys) \/ FetchReturns(c)
  PROVE  KeysInv'
<1>1. asking[c].state # "idle" =>
        /\ asking[c].key \in Key
        /\ status[asking[c].key] \in {"published", "retired"}
  BY DEF KeysInv, KeyTypes, AskedKnown, NoRequest
<1>2. CASE KeyMiss(c)
  <2>1. /\ fetch' = [holder |-> c, elapsed |-> 0, answered |-> FALSE, doc |-> {}]
        /\ UNCHANGED <<status, retiredFor, cached, age, asking>>
        /\ Waiting(c)
    BY <1>2 DEF KeyMiss, NoFetch
  <2> QED BY <2>1, KeysAssumption
          DEF KeysInv, KeyTypes, OnlyRetiredAge, HolderWaits, AskedKnown, DocFresh,
              DocComplete, CacheFresh, SteadyKeyServed, Fetching, Waiting
<1>3. CASE Fetching(c) /\ ServeKeys
  <2>1. /\ fetch'.holder = fetch.holder
        /\ fetch'.elapsed = fetch.elapsed /\ fetch.elapsed \in Nat
        /\ fetch'.answered = TRUE /\ fetch'.doc = Published
        /\ fetch' \in [holder : Client \cup {None}, elapsed : 0..FetchTimeout,
                       answered : BOOLEAN, doc : SUBSET Key]
        /\ UNCHANGED <<status, retiredFor, cached, age, asking>>
    <3>1. Published \subseteq Key
      BY DEF Published
    <3>2. fetch' = [holder |-> fetch.holder, elapsed |-> fetch.elapsed,
                    answered |-> TRUE, doc |-> Published]
      BY <1>3 DEF ServeKeys, KeysInv, KeyTypes
    <3>3. /\ fetch.holder \in Client \cup {None}
          /\ fetch.elapsed \in 0..FetchTimeout /\ fetch.elapsed \in Nat
      BY KeysAssumption DEF KeysInv, KeyTypes
    <3>4. UNCHANGED <<status, retiredFor, cached, age, asking>>
      BY <1>3 DEF ServeKeys
    <3> QED BY <3>1, <3>2, <3>3, <3>4
  <2>2. KeyTypes' /\ OnlyRetiredAge' /\ CacheFresh' /\ AskedKnown' /\ SteadyKeyServed'
    BY <2>1 DEF KeysInv, KeyTypes, OnlyRetiredAge, CacheFresh, AskedKnown, SteadyKeyServed
  <2>3. HolderWaits'
    BY <2>1 DEF KeysInv, HolderWaits, Fetching, Waiting
  <2>4. DocFresh'
    <3>1. ASSUME NEW k \in Published
          PROVE  retiredFor'[k] = 0
      BY <2>1 DEF KeysInv, OnlyRetiredAge, Published
    <3>2. ~Unlocked'
      BY <1>3, <2>1 DEF ServeKeys, Unlocked, Fetching
    <3> QED BY <2>1, <3>1, <3>2 DEF DocFresh
  <2>5. DocComplete'
    BY <1>1, <1>3, <2>1
       DEF KeysInv, DocComplete, Published, Fetching, HolderWaits, Waiting
  <2> QED BY <2>2, <2>3, <2>4, <2>5 DEF KeysInv
<1>4. CASE FetchReturns(c)
  <2>1. PICK s \in {"granted", "refused"} :
          /\ asking' = [asking EXCEPT ![c].state = s]
          /\ s = "refused" => asking[c].key \notin fetch.doc
    BY <1>4 DEF FetchReturns, Conclude
  <2>2. PICK r : r = [state |-> s, key |-> asking[c].key]
    OBVIOUS
  <2>3. /\ asking[c].state # "idle" /\ asking[c].key \in Key
        /\ asking' = [asking EXCEPT ![c] = r]
        /\ \A d \in Client : asking'[d] = IF d = c THEN r ELSE asking[d]
    <3>1. asking[c].state # "idle"
      BY <1>4 DEF FetchReturns, Waiting
    <3>2. [asking[c] EXCEPT !.state = s] = r
      BY <2>2, <3>1 DEF KeysInv, KeyTypes
    <3>3. asking' = [asking EXCEPT ![c] = r]
      BY <2>1, <3>2
    <3> QED BY <1>1, <3>1, <3>3 DEF KeysInv, KeyTypes
  <2>4. /\ fetch' = NoFetch /\ cached' = fetch.doc /\ age' = 0
        /\ UNCHANGED <<status, retiredFor>>
        /\ fetch.answered /\ fetch.holder = c
    BY <1>4 DEF FetchReturns, Fetching
  <2>5. KeyTypes' /\ OnlyRetiredAge'
    BY <2>2, <2>3, <2>4, KeysAssumption DEF KeysInv, KeyTypes, OnlyRetiredAge, NoFetch
  <2>6. CacheFresh'
    BY <2>4, KeysAssumption DEF KeysInv, KeyTypes, DocFresh, CacheFresh
  <2>7. HolderWaits' /\ DocFresh' /\ DocComplete'
    BY <2>4, KeysAssumption DEF HolderWaits, DocFresh, DocComplete, NoFetch, Fetching
  <2>8. AskedKnown'
    BY <1>1, <2>2, <2>3, <2>4 DEF KeysInv, AskedKnown
  <2>9. SteadyKeyServed'
    BY <2>1, <2>2, <2>3, <2>4 DEF KeysInv, SteadyKeyServed, DocComplete, Fetching
  <2> QED BY <2>5, <2>6, <2>7, <2>8, <2>9 DEF KeysInv
<1> QED BY <1>2, <1>3, <1>4

\* KeysInv holds in every reachable state of the cache.
LEMMA KeysInvariant == KeysSpec => []KeysInv
<1>1. KeysInv /\ [KeysNext]_keysVars => KeysInv'
  <2> SUFFICES ASSUME KeysInv, [KeysNext]_keysVars PROVE KeysInv'
    OBVIOUS
  <2>1. CASE UNCHANGED keysVars
    BY <2>1 DEF keysVars, KeysInv, KeyTypes, OnlyRetiredAge, HolderWaits, AskedKnown, DocFresh,
                DocComplete, CacheFresh, SteadyKeyServed, Fetching, Waiting, Unlocked
  <2> QED BY <2>1, TickPreserves, RotatePreserves, RequestPreserves, FetchPreserves
          DEF KeysNext, LookUp, FetchStep
<1> QED BY KeysInvInit, <1>1, PTL DEF KeysSpec

\* No request is refused because the cache does not know its key yet, nor
\* because of the fetches of others: a refused key is a retired key.
THEOREM PublishedKeysServed == KeysSpec => []SteadyKeyServed
<1>1. KeysInv => SteadyKeyServed
  BY DEF KeysInv
<1> QED BY <1>1, KeysInvariant, PTL

\* A key is never accepted TTL + FetchTimeout after it was retired.
THEOREM StalenessBounded == KeysSpec => BoundedStaleness
<1>1. ASSUME KeysInv, KeysNext, NEW c \in Client,
             asking'[c].state = "granted", asking[c].state # "granted"
      PROVE  retiredFor[asking[c].key] < Horizon
  <2>1. \/ KeyHit(c)
        \/ FetchReturns(c) /\ asking[c].key \in fetch.doc
    <3>1. asking' # asking
      BY <1>1
    <3>2. PICK d \in Client : \/ \E k \in Key : Ask(d, k)
                             \/ KeyHit(d)
                             \/ FetchReturns(d)
                             \/ FetchFails(d)
                             \/ Leave(d)
      BY <1>1, <3>1 DEF KeysNext, Rotate, Publish, Retire, Tick, LookUp, KeyMiss, FetchStep,
                        ServeKeys
    <3>3. PICK r : asking' = [asking EXCEPT ![d] = r]
      BY <3>2 DEF Ask, KeyHit, FetchReturns, FetchFails, Leave, Conclude
    <3>4. d = c
      BY <1>1, <3>3 DEF KeysInv, KeyTypes
    <3>5. CASE (\E k \in Key : Ask(c, k)) \/ Leave(c)
      BY <1>1, <3>5 DEF Ask, Leave, NoRequest, KeysInv, KeyTypes
    <3>6. CASE FetchFails(c)
      BY <1>1, <3>6 DEF FetchFails, Conclude, KeysInv, KeyTypes
    <3>7. CASE FetchReturns(c)
      BY <1>1, <3>7 DEF FetchReturns, Conclude, KeysInv, KeyTypes
    <3> QED BY <3>2, <3>4, <3>5, <3>6, <3>7
  <2>2. CASE KeyHit(c)
    <3>1. asking[c].key \in cached /\ age < TTL
      BY <2>2 DEF KeyHit, Usable
    <3>2. retiredFor[asking[c].key] <= age + FetchTimeout
      BY <1>1, <3>1 DEF KeysInv, CacheFresh
    <3>3. retiredFor[asking[c].key] \in Nat /\ age \in Nat
      BY <1>1, <3>1 DEF KeysInv, KeyTypes
    <3> QED BY <3>1, <3>2, <3>3, KeysAssumption DEF Horizon
  <2>3. CASE FetchReturns(c) /\ asking[c].key \in fetch.doc
    <3>1. /\ retiredFor[asking[c].key] <= fetch.elapsed
          /\ retiredFor[asking[c].key] \in Nat
          /\ fetch.elapsed \in 0..FetchTimeout
      BY <1>1, <2>3 DEF FetchReturns, KeysInv, KeyTypes, DocFresh
    <3> QED BY <3>1, KeysAssumption DEF Horizon
  <2> QED BY <2>1, <2>2, <2>3
<1>2. KeysInv /\ [KeysNext]_keysVars =>
        [\A c \in Client :
           asking'[c].state = "granted" /\ asking[c].state # "granted" =>
             retiredFor[asking[c].key] < Horizon]_keysVars
  BY <1>1
<1> QED BY <1>2, KeysInvariant, PTL DEF KeysSpec, BoundedStaleness

-----------------------------------------------------------------------------
(* The read routes. *)

\* Authentication and routing leave the ledger reads as they are: the routes
\* implement LedgerReads.
THEOREM RoutesImplementReads == Spec => ReadsSpec
<1>1. Init => ReadsInit
  BY DEF Init
<1>2. [Next]_vars => [ReadsNext]_readsVars
  BY ReadersAreClients
     DEF Next, vars, Surroundings, Send, Authenticate, Answer, Unauthorized, Elsewhere,
         Authorized, Serve, ReadsNext
<1> QED BY <1>1, <1>2, PTL DEF Spec, ReadsSpec

\* What the requests do elsewhere leaves the key cache as it is.
THEOREM RoutesImplementKeys == Spec => KeysSpec
<1>1. Init => KeysInit
  BY DEF Init
<1>2. [Next]_vars => [KeysNext]_keysVars
  BY DEF Next, vars, Surroundings, Send, Authenticate, Answer, Unauthorized, Elsewhere,
         Authorized, Serve, KeysNext
<1> QED BY <1>1, <1>2, PTL DEF Spec, KeysSpec

\* What the clients of the read routes may rely on, whoever rotates keys and
\* commits operations meanwhile.
THEOREM RoutesCorrect ==
  Spec => /\ []PagesExact
          /\ EndsComplete
          /\ []ReconcileConsistent
          /\ []SteadyKeyServed
          /\ BoundedStaleness
BY RoutesImplementReads, RoutesImplementKeys, ListingsAreExact, ListingsEndComplete,
   ReconciliationIsConsistent, PublishedKeysServed, StalenessBounded, PTL
=============================================================================
