------------------------------ MODULE Account ------------------------------
(***************************************************************************)
(* What the wallets promise to everything that reads them: the history of  *)
(* a wallet is the sequence of the balances it had, one for each version,  *)
(* and it only ever grows at its end.  The wallet row is the last balance  *)
(* with the length of the history; the ledger entry of version v goes from *)
(* balance v - 1 to balance v.                                             *)
(*                                                                         *)
(* Wagering implements this specification, with its locks, retries,        *)
(* cascades and rollbacks; LedgerReads reads histories that change by it.  *)
(***************************************************************************)
EXTENDS Integers, Sequences

CONSTANT Wallet        \* wallet ids

VARIABLE history       \* the committed balances of each wallet, by version

NoHistory == [w \in Wallet |-> <<>>]

AccountInit == history = NoHistory

\* new continues old.
Continues(old, new) ==
  /\ Len(old) <= Len(new)
  /\ \A v \in 1..Len(old) : new[v] = old[v]

\* A commit may move several wallets, and each of them several times (a
\* cascade resumes many operations in one transaction).
AccountNext ==
  /\ \A w \in Wallet : Continues(history[w], history'[w])
  /\ \A w \in Wallet : \A v \in 1..Len(history'[w]) : history'[w][v] >= 0

AccountSpec == AccountInit /\ [][AccountNext]_history
=============================================================================
