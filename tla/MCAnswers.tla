------------------------------ MODULE MCAnswers ------------------------------
(***************************************************************************)
(* A small instance of Answers.                                            *)
(***************************************************************************)
EXTENDS Answers, MCWagering

\* A BET, the same BET under a new key, a REFUND of it, which is parked if it
\* comes first and whose message has the id of the BET's, a BET on another,
\* empty wallet under the external id of the first and the key of the REFUND,
\* and a BET on somebody else's wallet.
Retries ==
  [bet    |-> [Req("ann", "w1", "b", "BET", 1, None) EXCEPT !.msg = "m1"],
   again  |-> [Req("ann", "w1", "b", "BET", 1, None) EXCEPT !.key = "a"],
   refund |-> [Req("ann", "w1", "f", "REFUND", 1, "b") EXCEPT !.msg = "m1"],
   clash  |-> [Req("bob", "w2", "b", "BET", 1, None) EXCEPT !.key = "f"],
   alien  |-> Req("bob", "w1", "x", "BET", 1, None)]

\* What the theorems about final answers assume holds here.
ASSUME FinalAnswers == \A r \in Request : Firm(r) /\ NoReuse(r)

\* So does what excludes deadlocks.
ASSUME NoDeadlocks == DependentsOnOneWallet
=============================================================================
