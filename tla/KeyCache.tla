------------------------------ MODULE KeyCache ------------------------------
(***************************************************************************)
(* internal/adapters/http/oidc.go: the signing keys of the identity        *)
(* provider, cached for TTL and fetched again when the cache is too old or *)
(* does not know the key of a token.  A mutex lets one request at a time   *)
(* look into the cache, and keeps it while it fetches; the HTTP client     *)
(* gives a fetch up after FetchTimeout.                                    *)
(*                                                                         *)
(* Time goes by in ticks.  Ages are counted as far as a comparison tells   *)
(* them apart: the cache up to TTL, a retired key up to Horizon.           *)
(***************************************************************************)
EXTENDS Naturals, FiniteSets

CONSTANTS
  Client,          \* requests being authenticated, one at a time for each client
  Key,             \* key ids
  FirstKeys,       \* the keys published at the start
  TTL,             \* jwksCacheTTL
  FetchTimeout,    \* timeout of the HTTP client
  None

ASSUME KeysAssumption ==
  /\ FirstKeys \subseteq Key
  /\ TTL \in Nat \ {0}
  /\ FetchTimeout \in Nat
  /\ None \notin Client

VARIABLES
  status,          \* of each key at the identity provider
  retiredFor,      \* ticks since a key was retired
  cached,          \* the keys in the cache
  age,             \* ticks since they were fetched
  fetch,           \* the fetch under way
  asking           \* the request that each client has here

keysVars == <<status, retiredFor, cached, age, fetch, asking>>

Horizon == TTL + FetchTimeout

Ticked(n, bound) == IF n < bound THEN n + 1 ELSE bound

Published == {k \in Key : status[k] = "published"}

\* holder has the mutex and fetches; once the identity provider has answered,
\* doc is the key set of its answer.
NoFetch == [holder |-> None, elapsed |-> 0, answered |-> FALSE, doc |-> {}]

Fetching(c) == fetch.holder = c

\* No one fetches: the mutex can be had.
Unlocked == Fetching(None)

NoRequest == [state |-> "idle", key |-> None]

Waiting(c) == asking[c].state = "waiting"

Conclude(c, state) == asking' = [asking EXCEPT ![c].state = state]

-----------------------------------------------------------------------------
(* The identity provider rotates its keys. *)

Publish(k) ==
  /\ status[k] = "future"
  /\ status' = [status EXCEPT ![k] = "published"]
  /\ UNCHANGED <<retiredFor, cached, age, fetch, asking>>

\* It never stops publishing its last key.
Retire(k) ==
  /\ status[k] = "published"
  /\ Published # {k}
  /\ status' = [status EXCEPT ![k] = "retired"]
  /\ UNCHANGED <<retiredFor, cached, age, fetch, asking>>

\* A fetch that has used its time up ends before more time goes by.
Tick ==
  /\ ~Unlocked => fetch.elapsed < FetchTimeout
  /\ age' = Ticked(age, TTL)
  /\ retiredFor' = [k \in Key |->
       IF status[k] = "retired" THEN Ticked(retiredFor[k], Horizon) ELSE 0]
  /\ fetch' = IF Unlocked THEN fetch ELSE [fetch EXCEPT !.elapsed = @ + 1]
  /\ UNCHANGED <<status, cached, asking>>

-----------------------------------------------------------------------------
(* keyFor. *)

\* A request with a token signed by k, now or some time ago.
Ask(c, k) ==
  /\ asking[c] = NoRequest
  /\ status[k] # "future"
  /\ asking' = [asking EXCEPT ![c] = [state |-> "waiting", key |-> k]]
  /\ UNCHANGED <<status, retiredFor, cached, age, fetch>>

\* Mutant: keys stay good as long as nothing makes the cache fetch again.
Usable_Forever(k) == k \in cached

Usable(k) == k \in cached /\ age < TTL

KeyHit(c) ==
  /\ Waiting(c)
  /\ Unlocked
  /\ Usable(asking[c].key)
  /\ Conclude(c, "granted")
  /\ UNCHANGED <<status, retiredFor, cached, age, fetch>>

\* Mutant: an unknown key is not looked for.
KeyMiss_Refuses(c) ==
  /\ Waiting(c)
  /\ Unlocked
  /\ ~Usable(asking[c].key)
  /\ IF age = TTL
       THEN fetch' = [NoFetch EXCEPT !.holder = c] /\ UNCHANGED asking
       ELSE Conclude(c, "refused") /\ UNCHANGED fetch
  /\ UNCHANGED <<status, retiredFor, cached, age>>

KeyMiss(c) ==
  /\ Waiting(c)
  /\ Unlocked
  /\ ~Usable(asking[c].key)
  /\ fetch' = [NoFetch EXCEPT !.holder = c]
  /\ UNCHANGED <<status, retiredFor, cached, age, asking>>

\* The identity provider answers with the keys it publishes.
ServeKeys ==
  /\ ~Unlocked
  /\ ~fetch.answered
  /\ fetch' = [fetch EXCEPT !.answered = TRUE, !.doc = Published]
  /\ UNCHANGED <<status, retiredFor, cached, age, asking>>

\* The answer arrives: it replaces the cache, whose age starts now.
FetchReturns(c) ==
  /\ Fetching(c)
  /\ Waiting(c)
  /\ fetch.answered
  /\ cached' = fetch.doc
  /\ age' = 0
  /\ fetch' = NoFetch
  /\ Conclude(c, IF asking[c].key \in fetch.doc THEN "granted" ELSE "refused")
  /\ UNCHANGED <<status, retiredFor>>

\* Mutant: the mutex is not released on the error path.
FetchFails_KeepsLock(c) ==
  /\ Fetching(c)
  /\ Waiting(c)
  /\ Conclude(c, "failed")
  /\ UNCHANGED <<status, retiredFor, cached, age, fetch>>

\* The fetch times out or fails otherwise: the request is refused, the old
\* keys stay.
FetchFails(c) ==
  /\ Fetching(c)
  /\ fetch' = NoFetch
  /\ Conclude(c, "failed")
  /\ UNCHANGED <<status, retiredFor, cached, age>>

-----------------------------------------------------------------------------
KeysInit ==
  /\ status = [k \in Key |-> IF k \in FirstKeys THEN "published" ELSE "future"]
  /\ retiredFor = [k \in Key |-> 0]
  /\ cached = {}
  /\ age = TTL
  /\ fetch = NoFetch
  /\ asking = [c \in Client |-> NoRequest]

Rotate == \E k \in Key : Publish(k) \/ Retire(k)

\* One turn of keyFor with the mutex.
LookUp(c) == KeyHit(c) \/ KeyMiss(c)

FetchStep(c) == (Fetching(c) /\ ServeKeys) \/ FetchReturns(c) \/ FetchFails(c)

\* The token is accepted or not; the request goes on or is answered 401.
Leave(c) ==
  /\ asking[c].state \in {"granted", "refused", "failed"}
  /\ asking' = [asking EXCEPT ![c] = NoRequest]
  /\ UNCHANGED <<status, retiredFor, cached, age, fetch>>

KeysNext ==
  \/ Rotate
  \/ Tick
  \/ \E c \in Client : \/ \E k \in Key : Ask(c, k)
                       \/ LookUp(c)
                       \/ FetchStep(c)
                       \/ Leave(c)

KeysSpec == KeysInit /\ [][KeysNext]_keysVars

-----------------------------------------------------------------------------
(* Properties. *)

\* A key is accepted for less than TTL + FetchTimeout after the identity
\* provider retired it: not only may the cache be old, its answer may have
\* been on the way while the key was retired.
BoundedStaleness ==
  [][\A c \in Client :
       asking'[c].state = "granted" /\ asking[c].state # "granted" =>
         retiredFor[asking[c].key] < Horizon]_keysVars

\* A token whose key is published is refused only when a fetch fails: neither
\* a cache that does not know the key yet, nor the fetches and failures of
\* other requests, refuse it.
SteadyKeyServed ==
  \A c \in Client : asking[c].state = "refused" => status[asking[c].key] = "retired"
=============================================================================
