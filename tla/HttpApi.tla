------------------------------- MODULE HttpApi -------------------------------
(***************************************************************************)
(* The read routes of the HTTP API, internal/adapters/http: a request is   *)
(* authenticated against the key cache, authorized by its role, and served *)
(* by the ledger reads.  A client has one request at a time; a listing is  *)
(* many requests, each of them authenticated anew, while keys rotate,      *)
(* fetches fail, operations are committed and answers are lost.  Clients   *)
(* that are not readers use the other routes, of which only the            *)
(* authentication is modelled here.                                        *)
(***************************************************************************)
EXTENDS LedgerReads, KeyCache

ASSUME ReadersAreClients == Reader \subseteq Client

vars == <<readsVars, keysVars>>

\* A request arrives; its bearer token is signed by key k.  (Without a token
\* it is answered 401 at once.)
Send(c, k) ==
  /\ c \in Reader => Reads(c, "none")
  /\ Ask(c, k)
  /\ UNCHANGED readsVars

\* Its key is unknown or could not be looked up: 401.
Unauthorized(c) ==
  /\ asking[c].state \in {"refused", "failed"}
  /\ Leave(c)
  /\ UNCHANGED readsVars

\* The signature is good, but the token has expired or is from another realm
\* (401), or the caller has not the role (403); or the route is another one.
Elsewhere(c) ==
  /\ asking[c].state = "granted"
  /\ Leave(c)
  /\ UNCHANGED readsVars

\* The request reaches the handler of a read route.
Authorized(c) ==
  /\ c \in Reader
  /\ asking[c].state = "granted"
  /\ Leave(c)
  /\ BeginRead(c)

\* What goes on without the clients.
Surroundings ==
  \/ (Rotate \/ Tick) /\ UNCHANGED readsVars
  \/ Commits /\ UNCHANGED keysVars

Authenticate(c) == (LookUp(c) \/ FetchStep(c)) /\ UNCHANGED readsVars

Serve(c) == c \in Reader /\ ServeStep(c) /\ UNCHANGED keysVars

Answer(c) == Unauthorized(c) \/ Elsewhere(c) \/ Authorized(c) \/ Serve(c)

Init == ReadsInit /\ KeysInit

Next ==
  \/ Surroundings
  \/ \E c \in Client : \/ \E k \in Key : Send(c, k)
                       \/ Authenticate(c)
                       \/ Answer(c)

Spec == Init /\ [][Next]_vars

\* Go's mutex does not pass a waiter over for ever, a fetch ends with an
\* answer or with the timeout, and handlers run to their end.  Nothing is
\* assumed of the identity provider nor of the clients.
Fairness ==
  \A c \in Client : /\ SF_vars(LookUp(c) /\ UNCHANGED readsVars)
                    /\ WF_vars((FetchReturns(c) \/ FetchFails(c)) /\ UNCHANGED readsVars)
                    /\ WF_vars(Answer(c))

FairSpec == Spec /\ Fairness

-----------------------------------------------------------------------------
(* Properties. *)

InFlight(c) == asking[c] # NoRequest \/ (c \in Reader /\ ~Reads(c, "none"))

\* Every request is answered, although one request fetches keys for all and
\* the others wait for it: a fetch that hangs or fails is nobody's end.
EveryRequestAnswered == \A c \in Client : InFlight(c) ~> ~InFlight(c)
=============================================================================
