------------------------------ MODULE Wagering ------------------------------
(***************************************************************************)
(* The transactional core of the wallet: internal/wagering over the        *)
(* PostgreSQL adapters.  HTTP and SQS handlers submit operations; a submit *)
(* locks the wallet row, decides, and commits transaction, balance,        *)
(* ledger, inbox, outbox and work rows together.  An operation whose       *)
(* reference has not arrived is parked as PENDING_REFERENCE with a work    *)
(* row; it is resumed either by the cascade that follows the commit of     *)
(* the BET it waits for, or by a polling worker that leases work rows.     *)
(*                                                                         *)
(* The database is two versions of the same six tables.  `committed' is    *)
(* what every READ COMMITTED statement sees of other transactions;         *)
(* `current' also holds the uncommitted writes of the session that has the *)
(* wallet row locked.  Every row belongs to one wallet, so a commit copies *)
(* the rows of the wallets the session holds and a rollback restores them. *)
(*                                                                         *)
(* Times are abstracted: a work row is due at any moment, a lease runs out *)
(* by a step of its own, and an attempt finds ReferenceTTL over or not.    *)
(***************************************************************************)
EXTENDS WagerDomain, FiniteSets

CONSTANTS
  Wallet,             \* wallet ids
  Request,            \* operations sent by providers; also the ids of their rows
  Input,              \* what each request carries (SubmitInput)
  Opening,            \* player, currency and initial amount of each wallet
  Handler,            \* HTTP and SQS handlers, each running one Submit at a time
  Worker,             \* polling workers
  MaxRefAttempts,     \* attempts to find a missing reference
  MaxInfraAttempts,   \* attempts that end in an error
  MaxFaults,          \* bound on crashes and lost transactions
  None                \* NULL, in a reference, a message id or a lock

Session == Handler \cup Worker

InputType ==
  [provider : STRING, ext : STRING, key : STRING, player : STRING,
   wallet : Wallet, round : STRING, kind : ExternalKind, amount : Amount,
   currency : STRING, ref : STRING \cup {None}, msg : STRING \cup {None}]

ASSUME ConstantsAssumption ==
  /\ Input \in [Request -> InputType]
  /\ Opening \in [Wallet -> [player : STRING, currency : STRING, amount : Amount]]
  /\ Handler \cap Worker = {}
  /\ Request \cap Wallet = {}
  /\ None \notin Request \cup Session
  /\ MaxRefAttempts \in Nat \ {0}
  /\ MaxInfraAttempts \in Nat \ {0}
  /\ MaxFaults \in Nat

VARIABLES
  committed,   \* the tables as committed
  current,     \* the tables with the uncommitted writes of the lock holders
  lock,        \* the session holding each wallet row FOR UPDATE, or None
  sess,        \* the volatile state of each session
  faults       \* crashes and lost transactions so far

vars == <<committed, current, lock, sess, faults>>

-----------------------------------------------------------------------------
(* Tables and rows.  An absent wallet has version 0, an absent transaction *)
(* has state ABSENT.  The OPENING transaction of a wallet is known by the  *)
(* wallet's id.                                                            *)

WalletRow == [balance : Amount, version : Nat]

NoWallet == [balance |-> 0, version |-> 0]

\* The columns the program writes; the immutable ones are those of Input.
TxRow ==
  [state : TransactionState \cup {"ABSENT"}, code : FailureCode \cup {Ok},
   balance : Amount, version : Nat, refTx : Request \cup {None}, reversedBy : Request \cup {None}]

NoTx == [state |-> "ABSENT", code |-> Ok, balance |-> 0, version |-> 0,
         refTx |-> None, reversedBy |-> None]

WorkRow ==
  [present : BOOLEAN, ref : 0..MaxRefAttempts, infra : 0..MaxInfraAttempts,
   leased : BOOLEAN]

NoWork == [present |-> FALSE, ref |-> 0, infra |-> 0, leased |-> FALSE]

Entry ==
  [wallet : Wallet, tx : Request \cup Wallet, dir : {"CREDIT", "DEBIT"},
   amount : Amount, before : Amount, after : Amount, version : Nat]

EventType == {"Processed", "BalanceChanged", "Rejected", "PendingReference"}

Event == [type : EventType, wallet : Wallet, tx : Request \cup Wallet,
          balance : Amount, version : Nat]

InboxRow == [msg : STRING, tx : Request]

Database ==
  [wallet : [Wallet -> WalletRow], tx : [Request -> TxRow],
   work : [Request -> WorkRow], ledger : SUBSET Entry,
   outbox : SUBSET Event, inbox : SUBSET InboxRow]

EmptyDatabase ==
  [wallet |-> [w \in Wallet |-> NoWallet], tx |-> [r \in Request |-> NoTx],
   work |-> [r \in Request |-> NoWork], ledger |-> {}, outbox |-> {},
   inbox |-> {}]

\* Database d with the rows of the wallets ws taken from e.
Merge(d, e, ws) ==
  [wallet |-> [w \in Wallet |-> IF w \in ws THEN e.wallet[w] ELSE d.wallet[w]],
   tx     |-> [r \in Request |->
                IF Input[r].wallet \in ws THEN e.tx[r] ELSE d.tx[r]],
   work   |-> [r \in Request |->
                IF Input[r].wallet \in ws THEN e.work[r] ELSE d.work[r]],
   ledger |-> {x \in d.ledger : x.wallet \notin ws}
                \cup {x \in e.ledger : x.wallet \in ws},
   outbox |-> {x \in d.outbox : x.wallet \notin ws}
                \cup {x \in e.outbox : x.wallet \in ws},
   inbox  |-> {x \in d.inbox : Input[x.tx].wallet \notin ws}
                \cup {x \in e.inbox : Input[x.tx].wallet \in ws}]

-----------------------------------------------------------------------------
(* Sessions.  op says which of Submit, ReevaluateDependents and            *)
(* ProcessDueWork is running; item is the operation in hand, with the      *)
(* counters its work row had when a worker claimed it; wal is the wallet   *)
(* row that LockForUpdate returned; todo is what is left of the dependents *)
(* found or of the batch claimed.                                          *)

Item == [tx : Request \cup {None}, ref : 0..MaxRefAttempts,
         infra : 0..MaxInfraAttempts]

ItemOf(r) == [tx |-> r, ref |-> 0, infra |-> 0]

SessionState ==
  [pc : {"idle", "lock", "apply", "commit", "find", "next"},
   op : {"none", "submit", "cascade", "work"},
   item : Item, todo : SUBSET Item, wal : WalletRow]

Idle == [pc |-> "idle", op |-> "none", item |-> ItemOf(None), todo |-> {},
         wal |-> NoWallet]

Held(s) == {w \in Wallet : lock[w] = s}

\* What the statements of session s read.
View(s) == Merge(committed, current, Held(s))

WalletOf(s) == Input[sess[s].item.tx].wallet

Goto(s, pc) == [sess[s] EXCEPT !.pc = pc]

\* Where a session goes when its SQL transaction is over: a worker takes the
\* next item of its batch, anything else returns to its caller.
AfterTx(s) ==
  IF sess[s].op = "work" /\ sess[s].todo # {}
    THEN [Idle EXCEPT !.pc = "next", !.op = "work", !.todo = sess[s].todo]
    ELSE Idle

\* Where a session goes when it has resumed one parked operation: a cascade
\* goes on in the same transaction.
AfterResume(s) ==
  IF sess[s].op = "cascade" /\ sess[s].todo # {}
    THEN [Idle EXCEPT !.pc = "next", !.op = "cascade", !.todo = sess[s].todo]
    ELSE Goto(s, "commit")

Release(s) == [w \in Wallet |-> IF lock[w] = s THEN None ELSE lock[w]]

\* Mutant: the work rows are deleted outside the transaction.
Rollback_WorkStaysDeleted(s, next) ==
  LET kept == [committed EXCEPT !.work = [r \in Request |->
                 IF Input[r].wallet \in Held(s) THEN current.work[r] ELSE @[r]]]
  IN /\ current' = Merge(current, kept, Held(s))
     /\ committed' = kept
     /\ lock' = Release(s)
     /\ sess' = [sess EXCEPT ![s] = next]

\* ROLLBACK of the open transaction; the session continues in state next.
Rollback(s, next) ==
  /\ current' = Merge(current, committed, Held(s))
  /\ lock' = Release(s)
  /\ sess' = [sess EXCEPT ![s] = next]
  /\ UNCHANGED committed

\* The statements of session s replace its view of the tables by view (bound
\* by a quantifier, which TLC evaluates once).
Write(s, view) == \E d \in {view} : current' = Merge(current, d, Held(s))

-----------------------------------------------------------------------------
(* Reads. *)

Present(d, r) == d.tx[r].state # "ABSENT"

FindByProviderKey(d, r) ==
  {q \in Request : /\ Present(d, q)
                   /\ Input[q].provider = Input[r].provider
                   /\ Input[q].key = Input[r].key}

FindByProviderExternal(d, provider, ext) ==
  {q \in Request : /\ Present(d, q)
                   /\ Input[q].provider = provider
                   /\ Input[q].ext = ext}

FindDependents(d, r) ==
  {q \in Request : /\ Present(d, q)
                   /\ Input[q].provider = Input[r].provider
                   /\ Input[q].ref = Input[r].ext}

HasActiveWin(d, bet) ==
  \E q \in Request : /\ d.tx[q].refTx = bet
                     /\ Input[q].kind = "WIN"
                     /\ d.tx[q].state = "PROCESSED"
                     /\ d.tx[q].reversedBy = None

\* The business fields: everything but the idempotency key and the transport
\* (the game id, which nothing else reads, is left out).
PayloadHash(r) ==
  [f \in {"provider", "ext", "player", "wallet", "round", "kind",
          "amount", "currency", "ref"} |-> Input[r][f]]

-----------------------------------------------------------------------------
(* Decisions.  A verdict says what becomes of an operation, with the       *)
(* failure code of a rejection, the direction of a movement and the        *)
(* resolved reference.                                                     *)

Verdict(outcome, code, dir, refTx) ==
  [outcome |-> outcome, code |-> code, dir |-> dir, refTx |-> refTx]

Process(dir, refTx) == Verdict("PROCESSED", Ok, dir, refTx)
Reject(code, refTx) == Verdict("REJECTED", code, "NONE", refTx)
Park == Verdict("PENDING_REFERENCE", Ok, "NONE", None)
Error == Verdict("ERROR", Overflow, "NONE", None)

CreditVerdict(row, amount, refTx) ==
  IF CreditCheck(row, amount) = Ok THEN Process("CREDIT", refTx) ELSE Error

DebitVerdict(row, amount, refTx, refusal) ==
  IF DebitCheck(row, amount) = Ok THEN Process("DEBIT", refTx)
  ELSE Reject(refusal, refTx)

JudgeWin(d, row, r, t) ==
  LET code == ValidateWinReference(Input[r], Input[t], d.tx[t].state,
                                   d.tx[t].reversedBy # None)
  IN IF code # Ok THEN Reject(code, t)
     ELSE CreditVerdict(row, Input[r].amount, t)

JudgeReversal(d, row, r, t) ==
  LET kind == Input[r].kind
      agreement == ValidateReferenceAgreement(Input[r], Input[t])
      target == ValidateReversalTarget(kind, Input[t].kind, d.tx[t].state,
                                       d.tx[t].reversedBy # None,
                                       HasActiveWin(d, t))
  IN IF agreement # Ok THEN Reject(agreement, t)
     ELSE IF target # Ok THEN Reject(target, t)
     ELSE IF kind = "REFUND" \/ Input[t].kind = "BET"
       THEN CreditVerdict(row, Input[r].amount, t)
     ELSE DebitVerdict(row, Input[r].amount, t, "ROLLBACK_INSUFFICIENT_BALANCE")

\* A WIN is judged against its BET, a reversal against its target.
Judge(d, row, r, t) ==
  IF Input[r].kind = "WIN" THEN JudgeWin(d, row, r, t)
  ELSE JudgeReversal(d, row, r, t)

\* A missing or pending reference parks, a processed one is judged, any
\* other is final.
applyWithReference(d, row, r) ==
  LET found == FindByProviderExternal(d, Input[r].provider, Input[r].ref)
      t == CHOOSE q \in found : TRUE
  IN IF found = {} THEN Park
     ELSE IF d.tx[t].state \in {"PENDING", "PENDING_REFERENCE"} THEN Park
     ELSE IF d.tx[t].state = "PROCESSED" THEN Judge(d, row, r, t)
     ELSE Reject("REFERENCE_NOT_PROCESSED", t)

applyOperation(d, row, r) ==
  CASE Input[r].kind = "BET" ->
         DebitVerdict(row, Input[r].amount, None, Insufficient)
    [] Input[r].kind = "LOSS" -> Process("NONE", None)
    [] Input[r].kind = "WIN" /\ Input[r].ref = None ->
         CreditVerdict(row, Input[r].amount, None)
    [] OTHER -> applyWithReference(d, row, r)

-----------------------------------------------------------------------------
(* Effects on the tables, each a database with the rows of operation r     *)
(* written.  row is the wallet row the session holds.                      *)

\* Mutant: the balance event is forgotten.
emitProcessed_NoBalance(d, e, after, r) ==
  d.outbox \cup {[type |-> "Processed", wallet |-> Input[r].wallet, tx |-> r,
                  balance |-> after.balance, version |-> after.version]}

emitProcessed(d, e, after, r) ==
  d.outbox \cup {[type |-> type, wallet |-> Input[r].wallet, tx |-> r,
                  balance |-> after.balance, version |-> after.version] :
                 type \in IF e = {} THEN {"Processed"}
                          ELSE {"Processed", "BalanceChanged"}}

emitRejected(d, row, r) ==
  d.outbox \cup {[type |-> "Rejected", wallet |-> Input[r].wallet, tx |-> r,
                  balance |-> row.balance, version |-> row.version]}

emitPendingRef(d, row, r) ==
  d.outbox \cup {[type |-> "PendingReference", wallet |-> Input[r].wallet,
                  tx |-> r, balance |-> 0, version |-> row.version]}

\* Mutant: the outcome columns are not written.
UpdateState_NoResult(d, r, state, code, row, refTx) ==
  [d.tx EXCEPT ![r] = [@ EXCEPT !.state = state, !.refTx = refTx]]

\* State and outcome columns; the reversal slot is written by others.
UpdateState(d, r, state, code, row, refTx) ==
  [d.tx EXCEPT ![r] = [state |-> state, code |-> code,
                       balance |-> row.balance, version |-> row.version,
                       refTx |-> refTx, reversedBy |-> @.reversedBy]]

\* Mutant: voiding a REFUND does not free the BET.
MarkReversed_NoClear(d, txs, r, t) == [txs EXCEPT ![t].reversedBy = r]

\* MarkReversed on the target and, when a ROLLBACK voids a REFUND,
\* ClearReversal on the BET that the REFUND had reversed.
MarkReversed(d, txs, r, t) ==
  LET freed == IF Input[r].kind = "ROLLBACK" /\ Input[t].kind = "REFUND"
                 THEN d.tx[t].refTx ELSE None
  IN [q \in Request |->
       IF q = t THEN [txs[q] EXCEPT !.reversedBy = r]
       ELSE IF q = freed THEN [txs[q] EXCEPT !.reversedBy = None]
       ELSE txs[q]]

\* The ledger entry of a movement, or no entry for a LOSS.
NewLedgerEntry(r, dir, row, after) ==
  IF dir = "NONE" THEN {}
  ELSE {[wallet |-> Input[r].wallet, tx |-> r, dir |-> dir,
         amount |-> Input[r].amount, before |-> row.balance,
         after |-> after.balance, version |-> after.version]}

Apply(row, dir, amount) ==
  CASE dir = "CREDIT" -> Credit(row, amount)
    [] dir = "DEBIT" -> Debit(row, amount)
    [] OTHER -> row

\* The row, the ledger entry, the balance, the events and the reversal slots
\* of a processed operation.
processed(d, row, r, v) ==
  LET after == Apply(row, v.dir, Input[r].amount)
      e == NewLedgerEntry(r, v.dir, row, after)
      txs == UpdateState(d, r, "PROCESSED", Ok, after, v.refTx)
  IN [d EXCEPT !.tx = IF IsReversalKind(Input[r].kind)
                        THEN MarkReversed(d, txs, r, v.refTx) ELSE txs,
               !.ledger = @ \cup e,
               !.wallet = IF e = {} THEN @
                            ELSE [@ EXCEPT ![Input[r].wallet] = after],
               !.outbox = emitProcessed(d, e, after, r)]

rejected(d, row, r, v) ==
  [d EXCEPT !.tx = UpdateState(d, r, "REJECTED", v.code, row, v.refTx),
            !.outbox = emitRejected(d, row, r)]

parkReference(d, row, r) ==
  [d EXCEPT !.tx = [@ EXCEPT ![r] = [NoTx EXCEPT !.state = "PENDING_REFERENCE"]],
            !.work = [@ EXCEPT ![r] = [NoWork EXCEPT !.present = TRUE]],
            !.outbox = emitPendingRef(d, row, r)]

\* The message of an SQS delivery is recorded in the commit that treats it.
InsertInbox(d, r) ==
  IF Input[r].msg = None THEN d
  ELSE [d EXCEPT !.inbox = @ \cup {[msg |-> Input[r].msg, tx |-> r]}]

\* What an accepted operation writes.
Accept(d, row, r, v) ==
  InsertInbox(CASE v.outcome = "PROCESSED" -> processed(d, row, r, v)
                [] v.outcome = "REJECTED" -> rejected(d, row, r, v)
                [] OTHER -> parkReference(d, row, r), r)

DeleteWork(d, r) == [d EXCEPT !.work = [@ EXCEPT ![r] = NoWork]]

\* An UPDATE of a work row that is gone changes nothing.  ref saturates at
\* MaxRefAttempts, beyond which no test tells its values apart.
TouchWork(d, r, ref, infra, clearLease) ==
  IF ~d.work[r].present THEN d
  ELSE [d EXCEPT !.work =
         [@ EXCEPT ![r] =
           [present |-> TRUE,
            ref |-> IF ref < MaxRefAttempts THEN ref ELSE MaxRefAttempts,
            infra |-> infra,
            leased |-> d.work[r].leased /\ ~clearLease]]]

settleProcessedExisting(d, row, r, v) == DeleteWork(processed(d, row, r, v), r)

\* Mutant: the work row of a rejected operation is left behind.
settleRejectedExisting_KeepsWork(d, row, r, v) == rejected(d, row, r, v)

settleRejectedExisting(d, row, r, v) == DeleteWork(rejected(d, row, r, v), r)

\* Mutant: a missing reference is looked for without limit.
Exhausted_Never(d, r, expired) == ~d.work[r].present

\* The TTL is over or the attempts are used up; a missing work row counts as
\* expired.
Exhausted(d, r, expired) ==
  \/ ~d.work[r].present
  \/ expired
  \/ d.work[r].ref + 1 >= MaxRefAttempts

\* One infrastructure attempt, counted from the claim; past the budget the
\* operation is FAILED, without an event.
noteInfra(d, item) ==
  LET r == item.tx
      next == item.infra + 1
  IN IF next >= MaxInfraAttempts
       THEN DeleteWork([d EXCEPT !.tx =
              [@ EXCEPT ![r] = [d.tx[r] EXCEPT !.state = "FAILED",
                                               !.code = "INFRA_EXHAUSTED"]]], r)
       ELSE TouchWork(d, r, item.ref, next, FALSE)

\* resumeOne without its locking: the verdict on a parked operation.
resumeOne(d, row, r, expired) ==
  LET found == FindByProviderExternal(d, Input[r].provider, Input[r].ref)
  IN IF found = {} /\ Exhausted(d, r, expired)
       THEN Reject("REFERENCE_NOT_FOUND", None)
     ELSE applyWithReference(d, row, r)

\* What the verdict on a parked operation writes.
Settle(d, row, r, v) ==
  CASE v.outcome = "PROCESSED" -> settleProcessedExisting(d, row, r, v)
    [] v.outcome = "REJECTED" -> settleRejectedExisting(d, row, r, v)
    [] OTHER -> TouchWork(d, r, d.work[r].ref + 1, 0, TRUE)

\* Mutant: no UNIQUE constraint on the ledger.
LedgerClash_NoConstraint(d, r, v) == FALSE

\* UNIQUE (wallet_id, transaction_id) refuses a second entry of r.
LedgerClash(d, r, v) ==
  /\ v.outcome = "PROCESSED"
  /\ \E e \in d.ledger : e.tx = r /\ e.wallet = Input[r].wallet

-----------------------------------------------------------------------------
(* OpenWallet: the wallet row and, for a positive opening, the OPENING     *)
(* entry and its two events.  (player, currency) is unique.                *)

OpeningEntry(w) ==
  IF Opening[w].amount = 0 THEN {}
  ELSE {[wallet |-> w, tx |-> w, dir |-> "CREDIT", amount |-> Opening[w].amount,
         before |-> 0, after |-> Opening[w].amount, version |-> 1]}

Opened(d, w) ==
  [d EXCEPT !.wallet = [@ EXCEPT ![w] = [balance |-> Opening[w].amount,
                                         version |-> 1]],
            !.ledger = @ \cup OpeningEntry(w),
            !.outbox = @ \cup {[type |-> type, wallet |-> w, tx |-> w,
                                balance |-> Opening[w].amount, version |-> 1] :
                               type \in IF OpeningEntry(w) = {} THEN {}
                                        ELSE {"Processed", "BalanceChanged"}}]

WalletExists(d, w) == d.wallet[w].version > 0

\* Mutant: the row is inserted or overwritten.
OpenWallet_Upsert(w) ==
  /\ committed' = Opened(committed, w)
  /\ current' = Opened(current, w)
  /\ UNCHANGED <<lock, sess, faults>>

OpenWallet(w) ==
  /\ ~WalletExists(committed, w)
  /\ \A x \in Wallet : WalletExists(committed, x) =>
       \/ Opening[x].player # Opening[w].player
       \/ Opening[x].currency # Opening[w].currency
  /\ committed' = Opened(committed, w)
  /\ current' = Opened(current, w)
  /\ UNCHANGED <<lock, sess, faults>>

-----------------------------------------------------------------------------
(* Submit. *)

ValidInput(r) ==
  /\ ValidateAmountForKind(Input[r].kind, Input[r].amount)
  /\ IsReversalKind(Input[r].kind) => Input[r].ref # None

\* The message was treated before with other content.
Poison(d, r) ==
  \E x \in d.inbox : x.msg = Input[r].msg /\ PayloadHash(x.tx) # PayloadHash(r)

\* A request arrives, for the first time or again.  Correctable errors and a
\* poisoned message end it here, before any transaction.
SubmitBegin(s, r) ==
  /\ sess[s].pc = "idle"
  /\ ValidInput(r)
  /\ ~Poison(committed, r)
  /\ sess' = [sess EXCEPT ![s] = [Idle EXCEPT !.pc = "lock", !.op = "submit",
                                              !.item = ItemOf(r)]]
  /\ UNCHANGED <<committed, current, lock, faults>>

\* Mutant: a plain SELECT, which does not wait for the row.
LockFree_NoWait(s, w) == TRUE

\* SELECT ... FOR UPDATE waits for the row and returns its newest version.
LockFree(s, w) == lock[w] \in {None, s}

LockForUpdate(s) ==
  LET w == WalletOf(s)
  IN /\ sess[s].pc = "lock"
     /\ WalletExists(committed, w)
     /\ LockFree(s, w)
     /\ lock' = [lock EXCEPT ![w] = s]
     /\ sess' = [sess EXCEPT ![s] = [@ EXCEPT !.pc = "apply",
                                              !.wal = View(s).wallet[w]]]
     /\ UNCHANGED <<committed, current, faults>>

\* The wallet is missing: nothing is locked and the request is correctable.
SubmitNoWallet(s) ==
  /\ sess[s].pc = "lock"
  /\ sess[s].op = "submit"
  /\ ~WalletExists(committed, WalletOf(s))
  /\ sess' = [sess EXCEPT ![s] = Idle]
  /\ UNCHANGED <<committed, current, lock, faults>>

Submitting(s) == sess[s].pc = "apply" /\ sess[s].op = "submit"

PartyMatches(r) ==
  /\ Input[r].player = Opening[Input[r].wallet].player
  /\ Input[r].currency = Opening[Input[r].wallet].currency

\* The rows that already carry the key or the external id of r.
Priors(d, r) ==
  FindByProviderKey(d, r)
    \cup FindByProviderExternal(d, Input[r].provider, Input[r].ext)

\* The operation names a player or a currency that is not the wallet's.
SubmitMismatch(s) ==
  /\ Submitting(s)
  /\ ~PartyMatches(sess[s].item.tx)
  /\ Rollback(s, Idle)
  /\ UNCHANGED faults

\* The persisted result is replayed, or 409 for divergent content; no row is
\* written either way.
SubmitReplay(s) ==
  /\ Submitting(s)
  /\ PartyMatches(sess[s].item.tx)
  /\ Priors(View(s), sess[s].item.tx) # {}
  /\ Rollback(s, Idle)
  /\ UNCHANGED faults

Fresh(s) ==
  /\ Submitting(s)
  /\ PartyMatches(sess[s].item.tx)
  /\ Priors(View(s), sess[s].item.tx) = {}

\* The credit overflows: the transaction is rolled back.
SubmitError(s) ==
  /\ Fresh(s)
  /\ applyOperation(View(s), sess[s].wal, sess[s].item.tx).outcome = "ERROR"
  /\ Rollback(s, Idle)
  /\ UNCHANGED faults

SubmitApply(s) ==
  /\ Fresh(s)
  /\ \E d \in {View(s)} :
       LET r == sess[s].item.tx
           v == applyOperation(d, sess[s].wal, r)
       IN /\ v.outcome # "ERROR"
          /\ Write(s, Accept(d, sess[s].wal, r, v))
  /\ sess' = [sess EXCEPT ![s] = Goto(s, "commit")]
  /\ UNCHANGED <<committed, lock, faults>>

-----------------------------------------------------------------------------
(* Commit.  An INSERT that meets an uncommitted row with the same unique   *)
(* key waits for its transaction, so the first to commit wins and the      *)
(* other gets a unique violation.                                          *)

\* The rows that session s has inserted.
Inserted(s) ==
  {r \in Request : /\ Input[r].wallet \in Held(s)
                   /\ Present(current, r)
                   /\ ~Present(committed, r)}

\* Mutant: only the inbox has a unique key.
UniqueViolation_InboxOnly(s) ==
  \E r \in Inserted(s) : \E x \in committed.inbox : x.msg = Input[r].msg

\* Mutant: only the transaction table has unique keys.
UniqueViolation_TxOnly(s) == \E r \in Inserted(s) : Priors(committed, r) # {}

UniqueViolation(s) ==
  \E r \in Inserted(s) :
    \/ Priors(committed, r) # {}
    \/ \E x \in committed.inbox : x.msg = Input[r].msg

\* A processed BET is followed by the re-evaluation of its dependents.
AfterCommit(s) ==
  IF /\ sess[s].op = "submit"
     /\ Input[sess[s].item.tx].kind = "BET"
     /\ current.tx[sess[s].item.tx].state = "PROCESSED"
    THEN [Idle EXCEPT !.pc = "find", !.op = "cascade", !.item = sess[s].item]
    ELSE AfterTx(s)

Commit(s) ==
  /\ sess[s].pc = "commit"
  /\ ~UniqueViolation(s)
  /\ committed' = Merge(committed, current, Held(s))
  /\ lock' = Release(s)
  /\ sess' = [sess EXCEPT ![s] = AfterCommit(s)]
  /\ UNCHANGED <<current, faults>>

CommitRefused(s) ==
  /\ sess[s].pc = "commit"
  /\ UniqueViolation(s)
  /\ Rollback(s, AfterTx(s))
  /\ UNCHANGED faults

-----------------------------------------------------------------------------
(* ReevaluateDependents: a follow-up transaction that reads the parked     *)
(* dependents first and locks their wallets one by one.                    *)

\* Mutant: dependents are resumed whatever their state.
CascadeFind_AnyState(s) ==
  LET deps == FindDependents(committed, sess[s].item.tx)
  IN /\ sess[s].pc = "find"
     /\ sess' = [sess EXCEPT ![s] =
          IF deps = {} THEN Idle
          ELSE [Idle EXCEPT !.pc = "next", !.op = "cascade",
                            !.todo = {ItemOf(q) : q \in deps}]]
     /\ UNCHANGED <<committed, current, lock, faults>>

CascadeFind(s) ==
  LET deps == {q \in FindDependents(committed, sess[s].item.tx) :
                 committed.tx[q].state = "PENDING_REFERENCE"}
  IN /\ sess[s].pc = "find"
     /\ sess' = [sess EXCEPT ![s] =
          IF deps = {} THEN Idle
          ELSE [Idle EXCEPT !.pc = "next", !.op = "cascade",
                            !.todo = {ItemOf(q) : q \in deps}]]
     /\ UNCHANGED <<committed, current, lock, faults>>

CascadeNext(s) ==
  /\ sess[s].pc = "next"
  /\ sess[s].op = "cascade"
  /\ \E i \in sess[s].todo :
       sess' = [sess EXCEPT ![s] = [@ EXCEPT !.pc = "lock", !.item = i,
                                             !.todo = sess[s].todo \ {i}]]
  /\ UNCHANGED <<committed, current, lock, faults>>

-----------------------------------------------------------------------------
(* ProcessDueWork: claim a batch of due rows, then one transaction each.   *)

\* SKIP LOCKED passes over a row with an uncommitted version.
Claimable(r) ==
  /\ committed.work[r].present
  /\ ~committed.work[r].leased
  /\ current.work[r] = committed.work[r]

Leased(d, rs, leased) ==
  [d EXCEPT !.work = [r \in Request |->
     IF r \in rs /\ d.work[r].present
       THEN [d.work[r] EXCEPT !.leased = leased] ELSE d.work[r]]]

ClaimWork(s, rs) ==
  /\ sess[s].pc = "idle"
  /\ \A r \in rs : Claimable(r)
  /\ committed' = Leased(committed, rs, TRUE)
  /\ current' = Leased(current, rs, TRUE)
  /\ sess' = [sess EXCEPT ![s] =
       [Idle EXCEPT !.pc = "next", !.op = "work",
                    !.todo = {[tx |-> r, ref |-> committed.work[r].ref,
                               infra |-> committed.work[r].infra] : r \in rs}]]
  /\ UNCHANGED <<lock, faults>>

\* processWorkItem reads the row, then locks the wallet.  A terminal row only
\* loses its work item.
WorkGet(s) ==
  /\ sess[s].pc = "next"
  /\ sess[s].op = "work"
  /\ \E i \in sess[s].todo :
       LET rest == [sess[s] EXCEPT !.todo = @ \ {i}]
       IN IF IsTerminal(committed.tx[i.tx].state)
            THEN /\ committed' = DeleteWork(committed, i.tx)
                 /\ current' = DeleteWork(current, i.tx)
                 /\ sess' = [sess EXCEPT ![s] =
                      IF rest.todo = {} THEN Idle ELSE rest]
            ELSE /\ sess' = [sess EXCEPT ![s] =
                      [rest EXCEPT !.pc = "lock", !.item = i]]
                 /\ UNCHANGED <<committed, current>>
  /\ UNCHANGED <<lock, faults>>

-----------------------------------------------------------------------------
(* resumeOne, under the wallet lock, for the cascade and for the worker.   *)
(* The row itself is not read again.                                       *)

Resuming(s) == sess[s].pc = "apply" /\ sess[s].op \in {"cascade", "work"}

ResumeSettle(s, expired) ==
  /\ Resuming(s)
  /\ \E d \in {View(s)} :
       LET r == sess[s].item.tx
           v == resumeOne(d, sess[s].wal, r, expired)
       IN /\ v.outcome # "ERROR"
          /\ ~LedgerClash(d, r, v)
          /\ Write(s, Settle(d, sess[s].wal, r, v))
  /\ sess' = [sess EXCEPT ![s] = AfterResume(s)]
  /\ UNCHANGED <<committed, lock, faults>>

\* The ledger refuses the entry: every later statement of the transaction
\* fails too, so nothing of it is kept.
ResumeClash(s, expired) ==
  /\ Resuming(s)
  /\ \E d \in {View(s)} :
       LET r == sess[s].item.tx
       IN LedgerClash(d, r, resumeOne(d, sess[s].wal, r, expired))
  /\ Rollback(s, AfterTx(s))
  /\ UNCHANGED faults

\* The credit overflows before anything is written: a cascade skips the
\* dependent, a worker notes the attempt.
ResumeError(s, expired) ==
  /\ Resuming(s)
  /\ resumeOne(View(s), sess[s].wal, sess[s].item.tx, expired).outcome = "ERROR"
  /\ IF sess[s].op = "work" THEN Write(s, noteInfra(View(s), sess[s].item))
     ELSE UNCHANGED current
  /\ sess' = [sess EXCEPT ![s] = AfterResume(s)]
  /\ UNCHANGED <<committed, lock, faults>>

-----------------------------------------------------------------------------
(* Time, deadlocks, faults. *)

LeaseExpires(r) ==
  /\ committed.work[r].leased
  /\ committed' = Leased(committed, {r}, FALSE)
  /\ current' = Leased(current, {r}, FALSE)
  /\ UNCHANGED <<lock, sess, faults>>

WaitsFor(s, t) ==
  /\ s # t
  /\ sess[s].pc = "lock"
  /\ lock[WalletOf(s)] = t

\* Every member of ss waits for a member of ss.
Deadlocked(ss) == ss # {} /\ \A s \in ss : \E t \in ss : WaitsFor(s, t)

\* PostgreSQL's deadlock detector aborts one transaction of a minimal cycle.
DeadlockVictim(s) ==
  /\ sess[s].pc = "lock"
  /\ \E ss \in SUBSET Session :
       /\ s \in ss
       /\ Deadlocked(ss)
       /\ \A tt \in SUBSET ss : Deadlocked(tt) => tt = ss
  /\ Rollback(s, AfterTx(s))
  /\ UNCHANGED faults

\* A worker's transaction fails (connection lost, statement error); the
\* worker goes on with its batch.
TxFails(s) ==
  /\ faults < MaxFaults
  /\ sess[s].pc \in {"lock", "apply", "commit"}
  /\ Rollback(s, AfterTx(s))
  /\ faults' = faults + 1

\* The process dies, or the handler's transaction fails.
Crash(s) ==
  /\ faults < MaxFaults
  /\ sess[s].pc # "idle"
  /\ Rollback(s, Idle)
  /\ faults' = faults + 1

-----------------------------------------------------------------------------
Init ==
  /\ committed = EmptyDatabase
  /\ current = EmptyDatabase
  /\ lock = [w \in Wallet |-> None]
  /\ sess = [s \in Session |-> Idle]
  /\ faults = 0

\* The steps a session takes by itself once it has something to do.
SessionStep(s) ==
  \/ LockForUpdate(s)
  \/ SubmitNoWallet(s)
  \/ SubmitMismatch(s)
  \/ SubmitReplay(s)
  \/ SubmitError(s)
  \/ SubmitApply(s)
  \/ Commit(s)
  \/ CommitRefused(s)
  \/ CascadeFind(s)
  \/ CascadeNext(s)
  \/ WorkGet(s)
  \/ \E expired \in BOOLEAN : \/ ResumeSettle(s, expired)
                              \/ ResumeClash(s, expired)
                              \/ ResumeError(s, expired)
  \/ DeadlockVictim(s)

Next ==
  \/ \E w \in Wallet : OpenWallet(w)
  \/ \E s \in Handler, r \in Request : SubmitBegin(s, r)
  \/ \E s \in Session : SessionStep(s)
  \/ \E s \in Worker, rs \in (SUBSET Request) \ {{}} : ClaimWork(s, rs)
  \/ \E s \in Worker : TxFails(s)
  \/ \E s \in Session : Crash(s)
  \/ \E r \in Request : LeaseExpires(r)

Spec == Init /\ [][Next]_vars

\* A session goes on with what it began and PostgreSQL's queue for a row lock
\* serves every waiter; workers keep polling and ClaimWork takes the rows in
\* the order they fell due, so none is passed over for ever; leases run out.
\* Nobody promises to submit anything, and faults are finitely many.
Fairness ==
  /\ \A s \in Session : WF_vars(SessionStep(s)) /\ SF_vars(LockForUpdate(s))
  /\ \A r \in Request :
       /\ SF_vars(\E s \in Worker, rs \in SUBSET Request :
                   r \in rs /\ ClaimWork(s, rs))
       /\ WF_vars(LeaseExpires(r))

FairSpec == Spec /\ Fairness

-----------------------------------------------------------------------------
(* Properties.  DbProperty(d) is a property of one version of the tables;  *)
(* the invariant is about the committed one.                               *)

\* Type invariant: the tables hold rows of their types, every lock is free
\* or held by a session, and every session is in a legal control state.
TypeOK ==
  /\ committed \in Database
  /\ current \in Database
  /\ lock \in [Wallet -> Session \cup {None}]
  /\ sess \in [Session -> SessionState]
  /\ faults \in 0..MaxFaults

\* The first version that has a ledger entry: a zero opening writes none.
FirstVersion(w) == IF Opening[w].amount = 0 THEN 2 ELSE 1

EntriesOf(d, w) == {e \in d.ledger : e.wallet = w}

\* entries lead without a gap from zero to the wallet row; the first of them
\* has version first.
Chain(row, entries, first) ==
  /\ \A e \in entries : e.version \in first..row.version
  /\ \A v \in first..row.version : \E e \in entries : e.version = v
  /\ \A e, f \in entries : e.version = f.version => e = f
  /\ \A e, f \in entries : f.version = e.version + 1 => f.before = e.after
  /\ \A e \in entries : e.version = first => e.before = 0
  /\ \A e \in entries : e.version = row.version => e.after = row.balance
  /\ row.version < first => row.balance = 0
  /\ \A e \in entries : /\ e.dir = "CREDIT" => e.after = e.before + e.amount
                        /\ e.dir = "DEBIT" => e.before = e.after + e.amount

Chained(d, w) == Chain(d.wallet[w], EntriesOf(d, w), FirstVersion(w))

\* The ledger of every wallet is one unbroken chain of movements from zero to
\* the wallet's balance: versions have no gap and no duplicate, every entry
\* starts where the one before it ended, and the last one ends at the balance
\* (what Reconcile recomputes).  Two sessions that moved the wallet from the
\* same balance, or a commit that kept a part of a movement, would break it.
LedgerChain == \A w \in Wallet : Chained(committed, w)

\* The balance of entry v.
BalanceAt(d, w, v) ==
  (CHOOSE e \in EntriesOf(d, w) : e.version = v).after

\* The balances of a wallet so far: the last is that of its row, the others
\* are in the ledger (a zero opening has no entry).
HistoryOf(d, w) ==
  [v \in 1..d.wallet[w].version |->
     IF v = d.wallet[w].version THEN d.wallet[w].balance
     ELSE IF v < FirstVersion(w) THEN 0
     ELSE BalanceAt(d, w, v)]

Histories(d) == [w \in Wallet |-> HistoryOf(d, w)]

Ledger == INSTANCE Account WITH history <- Histories(committed)

\* The wallets implement Account: whatever interleaving of submits, cascades,
\* workers, deadlocks and crashes led to a commit, it only adds versions to
\* the histories that were visible before, of one wallet or of several.
ImplementsAccount == Ledger!AccountSpec

\* However often a request is retried, redelivered, resumed by the cascade
\* and resumed by workers whose lease ran out, it moves money at most once.
OneMovementPerTransaction ==
  \A e, f \in committed.ledger : e.tx = f.tx => e = f

\* Two accepted operations of a provider never share an idempotency key or
\* an external id, even when they arrive together on different wallets.
OneOperationPerKey ==
  \A r, q \in Request :
    /\ r # q
    /\ Present(committed, r)
    /\ Present(committed, q)
    /\ Input[r].provider = Input[q].provider
    => Input[r].key # Input[q].key /\ Input[r].ext # Input[q].ext

\* The ledger entries that reverse t, by the request that wrote them.
ReversalsOf(d, t) ==
  {e \in d.ledger :
     /\ e.tx \in Request
     /\ IsReversalKind(Input[e.tx].kind)
     /\ Input[e.tx].provider = Input[t].provider
     /\ Input[e.tx].ref = Input[t].ext}

\* The reversals of t that were not themselves voided by a ROLLBACK.
StandingReversals(d, t) == {e \in ReversalsOf(d, t) : ReversalsOf(d, e.tx) = {}}

\* The stake of a BET is given back at most once: of the movements that
\* reverse an operation at most one stands, whatever chain of REFUND, ROLLBACK
\* and ROLLBACK of the REFUND led there and in whatever order the parked ones
\* were resumed.  While one stands, the reversal slot of the row is taken.
StakeReturnedOnce ==
  \A t \in {q \in Request : Present(committed, q)} :
    LET standing == StandingReversals(committed, t)
    IN /\ \A e, f \in standing : e = f
       /\ (committed.tx[t].reversedBy # None) <=> standing # {}

\* No player keeps both the stake and the prize: a BET that has been reversed
\* has no processed, unreversed WIN that names it.
NoStakeBackWithLiveWin ==
  \A b \in Request :
    committed.tx[b].reversedBy # None => ~HasActiveWin(committed, b)

\* A transaction is parked exactly when a work row will bring it back: no
\* interleaving of cascade, worker, rollback and crash loses the work row of a
\* parked operation or leaves one behind for a finished operation.
ParkedIffWork ==
  \A r \in Request :
    committed.tx[r].state = "PENDING_REFERENCE" <=> committed.work[r].present

\* A message id is recorded for one operation only, and only together with
\* the operation itself.
InboxOfAccepted ==
  \A x \in committed.inbox :
    /\ Present(committed, x.tx)
    /\ \A y \in committed.inbox : y.msg = x.msg => y = x

\* The outbox tells every movement exactly: the BalanceChanged events are the
\* ledger entries (transaction, version, balance after), and each goes with
\* the Processed event of the same transaction and version.
EventsMatchLedger ==
  LET told(type) == {<<v.wallet, v.tx, v.version, v.balance>> :
                     v \in {x \in committed.outbox : x.type = type}}
      moved == {<<e.wallet, e.tx, e.version, e.after>> : e \in committed.ledger}
  IN told("BalanceChanged") = moved /\ moved \subseteq told("Processed")

\* The operations that may be parked, to wait for what they name.
Parkable(r) == IsReversalKind(Input[r].kind) \/ (Input[r].kind = "WIN" /\ Input[r].ref # None)

\* The external id of r, and the one that r names, each with its provider.
Own(r) == <<Input[r].provider, Input[r].ext>>
Named(r) == <<Input[r].provider, Input[r].ref>>

\* At most one party can resume r: the cascade of the one BET it names, or the
\* one worker there is.
Sole(r) ==
  /\ \A k, l \in Worker : k = l
  /\ Worker = {} \/ \A b \in Request : Input[b].kind = "BET" => Own(b) # Named(r)

\* The operations of which nobody resumes what somebody else has settled.
Firm(r) == ~Parkable(r) \/ Sole(r)

\* All that waits for one BET is of one wallet.
DependentsOnOneWallet ==
  \A b, p, q \in Request :
    /\ Input[b].kind = "BET"
    /\ Parkable(p) /\ Named(p) = Own(b)
    /\ Parkable(q) /\ Named(q) = Own(b)
    => Input[p].wallet = Input[q].wallet

\* A transaction in a terminal state never changes state again.
TerminalIsFinal ==
  [][\A r \in Request : IsTerminal(committed.tx[r].state) =>
       committed'.tx[r].state = committed.tx[r].state]_committed

\* An operation other than LOSS whose row says PROCESSED has moved money, and
\* the balance and version that replays of it answer are those of its ledger
\* entry, whoever settled it and whatever other sessions did to the wallet in
\* between.  (The converse fails with TerminalIsFinal: a second resume can
\* reject what has moved.)
ResultMatchesLedger ==
  \A r \in Request :
    LET row == committed.tx[r]
    IN Input[r].kind # "LOSS" /\ row.state = "PROCESSED" =>
         \E e \in committed.ledger :
           e.tx = r /\ e.after = row.balance /\ e.version = row.version

\* Every parked operation is settled in the end, by the arrival of what it
\* refers to or by the attempt limit, whatever crashes, leases that run out
\* and requests that keep coming do meanwhile.
ParkedSettles ==
  \A r \in Request : committed.tx[r].state = "PENDING_REFERENCE"
                       ~> IsTerminal(committed.tx[r].state)

\* No sessions wait for each other's wallet rows in a cycle.
NoLockCycle == \A ss \in SUBSET Session : ~Deadlocked(ss)
=============================================================================
