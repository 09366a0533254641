---------------------------- MODULE WagerDomain ----------------------------
(***************************************************************************)
(* The pure rules of internal/domain: transaction kinds and states, the    *)
(* wallet aggregate's Credit and Debit, and the reversal matrix.  A rule   *)
(* that may refuse returns Ok or the failure code the Go error carries.    *)
(* Amounts are minor units; an addition beyond MaxMoney (int64 in the      *)
(* code) is the overflow error of Money.Add.                               *)
(***************************************************************************)
EXTENDS Integers

CONSTANT MaxMoney      \* the largest amount a Money can hold

ASSUME MoneyAssumption == MaxMoney \in Nat

Amount == 0..MaxMoney

Ok == "OK"
Overflow == "MONEY_OVERFLOW"
Insufficient == "INSUFFICIENT_BALANCE"

\* The codes a persisted rejection or failure can carry.
FailureCode ==
  {Insufficient, "ROLLBACK_INSUFFICIENT_BALANCE", "REFERENCE_PROVIDER_MISMATCH",
   "REFERENCE_PLAYER_MISMATCH", "REFERENCE_WALLET_MISMATCH",
   "REFERENCE_CURRENCY_MISMATCH", "REFERENCE_ROUND_MISMATCH", "AMOUNT_MISMATCH",
   "INVALID_REVERSAL", "ALREADY_REVERSED", "BET_HAS_ACTIVE_WIN",
   "REFERENCE_REVERSED", "REFERENCE_NOT_PROCESSED", "REFERENCE_NOT_FOUND",
   "INFRA_EXHAUSTED"}

ExternalKind == {"BET", "WIN", "LOSS", "REFUND", "ROLLBACK"}

\* PENDING is a state of the domain that no code path persists.
TransactionState ==
  {"PENDING", "PENDING_REFERENCE", "PROCESSED", "REJECTED", "FAILED"}

IsTerminal(state) == state \in {"PROCESSED", "REJECTED", "FAILED"}

IsReversalKind(kind) == kind \in {"REFUND", "ROLLBACK"}

ValidateAmountForKind(kind, amount) ==
  IF kind = "LOSS" THEN amount = 0 ELSE amount > 0

-----------------------------------------------------------------------------
(* The wallet aggregate: a row is its balance and its version. *)

Moved(row, balance) == [balance |-> balance, version |-> row.version + 1]

\* What Credit answers: Ok, or the error of the addition.
CreditCheck(row, amount) ==
  IF row.balance + amount > MaxMoney THEN Overflow ELSE Ok

Credit(row, amount) == Moved(row, row.balance + amount)

\* Mutant: off by one, a debit may exceed the balance.
DebitCheck_OffByOne(row, amount) ==
  IF row.balance + 1 < amount THEN Insufficient ELSE Ok

\* What Debit answers: Ok, or ErrInsufficientBalance.
DebitCheck(row, amount) ==
  IF row.balance < amount THEN Insufficient ELSE Ok

Debit(row, amount) == Moved(row, row.balance - amount)

-----------------------------------------------------------------------------
(* The reversal matrix. *)

\* A reversal and its reference agree on the parties, the round and the
\* whole value (no partial reversal).
ValidateReferenceAgreement(op, ref) ==
  IF op.provider # ref.provider THEN "REFERENCE_PROVIDER_MISMATCH"
  ELSE IF op.player # ref.player THEN "REFERENCE_PLAYER_MISMATCH"
  ELSE IF op.wallet # ref.wallet THEN "REFERENCE_WALLET_MISMATCH"
  ELSE IF op.currency # ref.currency THEN "REFERENCE_CURRENCY_MISMATCH"
  ELSE IF op.round # ref.round THEN "REFERENCE_ROUND_MISMATCH"
  ELSE IF op.amount # ref.amount THEN "AMOUNT_MISMATCH"
  ELSE Ok

Reversible(kind) ==
  IF kind = "REFUND" THEN {"BET"} ELSE {"BET", "WIN", "REFUND"}

\* Mutant: a BET with a live WIN can be reversed.
ValidateReversalTarget_IgnoresWin(kind, targetKind, targetState, reversed, hasActiveWin) ==
  IF targetState # "PROCESSED" \/ targetKind \notin Reversible(kind)
    THEN "INVALID_REVERSAL"
  ELSE IF reversed THEN "ALREADY_REVERSED"
  ELSE Ok

\* Mutant: whether it is already reversed is not asked.
ValidateReversalTarget_NoSlot(kind, targetKind, targetState, reversed, hasActiveWin) ==
  IF targetState # "PROCESSED" \/ targetKind \notin Reversible(kind)
    THEN "INVALID_REVERSAL"
  ELSE IF targetKind = "BET" /\ hasActiveWin THEN "BET_HAS_ACTIVE_WIN"
  ELSE Ok

ValidateReversalTarget(kind, targetKind, targetState, reversed, hasActiveWin) ==
  IF targetState # "PROCESSED" \/ targetKind \notin Reversible(kind)
    THEN "INVALID_REVERSAL"
  ELSE IF reversed THEN "ALREADY_REVERSED"
  ELSE IF targetKind = "BET" /\ hasActiveWin THEN "BET_HAS_ACTIVE_WIN"
  ELSE Ok

\* A WIN may only name a processed BET that has not been reversed, on whose
\* parties and round it agrees.
ValidateWinReference(win, bet, state, reversed) ==
  IF bet.kind # "BET" THEN "INVALID_REVERSAL"
  ELSE IF state # "PROCESSED" THEN "REFERENCE_NOT_PROCESSED"
  ELSE IF reversed THEN "REFERENCE_REVERSED"
  ELSE ValidateReferenceAgreement(win, bet)
=============================================================================
