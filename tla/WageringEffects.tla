-------------------------- MODULE WageringEffects --------------------------
(***************************************************************************)
(* What the verdicts and the effects of Wagering do to a database value,   *)
(* for every value of the constants: lemmas without steps.  The tables are *)
(* changed in three ways: an effect of a session on its view, a merge of   *)
(* two versions by wallet, and the steps outside any wallet lock (opening, *)
(* leases, deletion of work rows).  Each keeps the types and DbInv.        *)
(***************************************************************************)
EXTENDS Wagering, TLAPS

-----------------------------------------------------------------------------
(* Types of the tables. *)

\* What Input and Opening hold.
LEMMA InputFacts ==
  /\ \A r \in Request : /\ Input[r].wallet \in Wallet
                        /\ Input[r].kind \in ExternalKind
                        /\ Input[r].amount \in Amount
                        /\ Input[r].amount \in Int
  /\ \A w \in Wallet : Opening[w].amount \in Amount
  /\ MaxMoney \in Nat
BY ConstantsAssumption, MoneyAssumption DEF InputType, Amount

\* The merge of two databases is a database.
LEMMA MergeType ==
  ASSUME NEW d \in Database, NEW e \in Database, NEW ws
  PROVE  Merge(d, e, ws) \in Database
<1>1. [w \in Wallet |-> IF w \in ws THEN e.wallet[w] ELSE d.wallet[w]]
        \in [Wallet -> WalletRow]
  BY DEF Database
<1>2. [r \in Request |-> IF Input[r].wallet \in ws THEN e.tx[r] ELSE d.tx[r]]
        \in [Request -> TxRow]
  BY DEF Database
<1>3. [r \in Request |->
         IF Input[r].wallet \in ws THEN e.work[r] ELSE d.work[r]]
        \in [Request -> WorkRow]
  BY DEF Database
<1>4. {x \in d.ledger : x.wallet \notin ws}
        \cup {x \in e.ledger : x.wallet \in ws} \in SUBSET Entry
  BY DEF Database
<1>5. {x \in d.outbox : x.wallet \notin ws}
        \cup {x \in e.outbox : x.wallet \in ws} \in SUBSET Event
  BY DEF Database
<1>6. {x \in d.inbox : Input[x.tx].wallet \notin ws}
        \cup {x \in e.inbox : Input[x.tx].wallet \in ws} \in SUBSET InboxRow
  BY DEF Database
<1> QED
  BY <1>1, <1>2, <1>3, <1>4, <1>5, <1>6 DEF Merge, Database

\* Verdicts that a processed movement can carry out on the wallet row.
Outcome == {"PROCESSED", "REJECTED", "PENDING_REFERENCE", "ERROR"}

VerdictType ==
  [outcome : Outcome, code : FailureCode \cup {Ok, Overflow}, dir : {"CREDIT", "DEBIT", "NONE"},
   refTx : Request \cup {None}]

Fits(v, row, r) ==
  /\ v.dir = "CREDIT" => row.balance + Input[r].amount =< MaxMoney
  /\ v.dir = "DEBIT" => Input[r].amount =< row.balance
  /\ v.outcome = "PROCESSED" /\ IsReversalKind(Input[r].kind) => v.refTx \in Request
  /\ v.outcome = "REJECTED" => v.code \in FailureCode

Sound(v, row, r) == v \in VerdictType /\ Fits(v, row, r)

\* The simple verdicts are sound.
LEMMA SoundReject ==
  ASSUME NEW row, NEW r, NEW code \in FailureCode, NEW t \in Request \cup {None}
  PROVE  Sound(Reject(code, t), row, r)
BY DEF Sound, Fits, VerdictType, Outcome, Reject, Verdict

\* Parking and erring claim no movement, so they are sound verdicts.
LEMMA SoundPark ==
  ASSUME NEW row, NEW r
  PROVE  Sound(Park, row, r) /\ Sound(Error, row, r)
BY DEF Sound, Fits, VerdictType, Outcome, Park, Error, Verdict, Ok, Overflow

\* A credit that CreditCheck lets through does not overflow.
LEMMA SoundCredit ==
  ASSUME NEW row \in WalletRow, NEW r \in Request, NEW t \in Request \cup {None},
         IsReversalKind(Input[r].kind) => t \in Request
  PROVE  Sound(CreditVerdict(row, Input[r].amount, t), row, r)
<1>1. CASE CreditCheck(row, Input[r].amount) = Ok
  <2>1. row.balance + Input[r].amount =< MaxMoney
    BY <1>1, InputFacts DEF CreditCheck, Ok, Overflow, WalletRow, Amount
  <2> QED
    BY <1>1, <2>1 DEF CreditVerdict, Process, Verdict, Sound, Fits, VerdictType, Outcome, Ok
<1>2. CASE CreditCheck(row, Input[r].amount) # Ok
  BY <1>2, SoundPark DEF CreditVerdict
<1> QED BY <1>1, <1>2

\* A debit that DebitCheck lets through leaves a balance that is not negative.
LEMMA SoundDebit ==
  ASSUME NEW row \in WalletRow, NEW r \in Request, NEW t \in Request \cup {None},
         NEW refusal \in FailureCode,
         IsReversalKind(Input[r].kind) => t \in Request
  PROVE  Sound(DebitVerdict(row, Input[r].amount, t, refusal), row, r)
<1>1. CASE DebitCheck(row, Input[r].amount) = Ok
  <2>1. Input[r].amount =< row.balance
    BY <1>1, InputFacts DEF DebitCheck, Ok, Insufficient, WalletRow, Amount
  <2> QED
    BY <1>1, <2>1 DEF DebitVerdict, Process, Verdict, Sound, Fits, VerdictType, Outcome, Ok
<1>2. CASE DebitCheck(row, Input[r].amount) # Ok
  BY <1>2, SoundReject DEF DebitVerdict
<1> QED BY <1>1, <1>2

\* The verdict on an operation whose reference is processed is sound.
LEMMA SoundJudge ==
  ASSUME NEW d \in Database, NEW row \in WalletRow, NEW r \in Request,
         NEW t \in Request
  PROVE  Sound(Judge(d, row, r, t), row, r)
<1>1. CASE Input[r].kind = "WIN"
  <2> DEFINE code == ValidateWinReference(Input[r], Input[t], d.tx[t].state,
                                          d.tx[t].reversedBy # None)
  <2>1. code \in FailureCode \cup {Ok}
    BY DEF ValidateWinReference, ValidateReferenceAgreement, FailureCode
  <2>2. code # Ok => Sound(Reject(code, t), row, r)
    BY <2>1, SoundReject
  <2>3. Sound(CreditVerdict(row, Input[r].amount, t), row, r)
    BY SoundCredit
  <2> QED BY <1>1, <2>2, <2>3 DEF Judge, JudgeWin
<1>2. CASE Input[r].kind # "WIN"
  <2> DEFINE agreement == ValidateReferenceAgreement(Input[r], Input[t])
             target == ValidateReversalTarget(Input[r].kind, Input[t].kind,
                         d.tx[t].state, d.tx[t].reversedBy # None,
                         HasActiveWin(d, t))
  <2>1. agreement \in FailureCode \cup {Ok} /\ target \in FailureCode \cup {Ok}
    BY DEF ValidateReferenceAgreement, ValidateReversalTarget, FailureCode
  <2>2. /\ agreement # Ok => Sound(Reject(agreement, t), row, r)
        /\ target # Ok => Sound(Reject(target, t), row, r)
    BY <2>1, SoundReject
  <2>3. Sound(CreditVerdict(row, Input[r].amount, t), row, r)
    BY SoundCredit
  <2>4. Sound(DebitVerdict(row, Input[r].amount, t,
                           "ROLLBACK_INSUFFICIENT_BALANCE"), row, r)
    BY SoundDebit DEF FailureCode
  <2> HIDE DEF agreement, target
  <2>5. \/ agreement # Ok /\ Judge(d, row, r, t) = Reject(agreement, t)
        \/ target # Ok /\ Judge(d, row, r, t) = Reject(target, t)
        \/ Judge(d, row, r, t) = CreditVerdict(row, Input[r].amount, t)
        \/ Judge(d, row, r, t) = DebitVerdict(row, Input[r].amount, t,
                                              "ROLLBACK_INSUFFICIENT_BALANCE")
    BY <1>2 DEF Judge, JudgeReversal, agreement, target
  <2> QED BY <2>2, <2>3, <2>4, <2>5
<1> QED BY <1>1, <1>2

\* The verdict on any operation that names a reference is sound.
LEMMA SoundWithReference ==
  ASSUME NEW d \in Database, NEW row \in WalletRow, NEW r \in Request
  PROVE  Sound(applyWithReference(d, row, r), row, r)
<1> DEFINE found == FindByProviderExternal(d, Input[r].provider, Input[r].ref)
           t == CHOOSE q \in found : TRUE
<1>1. CASE found = {}
  BY <1>1, SoundPark DEF applyWithReference
<1>2. CASE found # {}
  <2>1. t \in Request
    BY <1>2 DEF FindByProviderExternal
  <2> HIDE DEF found, t
  <2>2. applyWithReference(d, row, r) \in
          {Park, Judge(d, row, r, t), Reject("REFERENCE_NOT_PROCESSED", t)}
    BY <1>2 DEF applyWithReference, found, t
  <2>3. Sound(Judge(d, row, r, t), row, r)
    BY <2>1, SoundJudge
  <2>4. Sound(Reject("REFERENCE_NOT_PROCESSED", t), row, r)
    BY <2>1, SoundReject DEF FailureCode
  <2> QED BY <2>2, <2>3, <2>4, SoundPark
<1> QED BY <1>1, <1>2

\* The verdict of a first submission and of a resume is sound.
LEMMA SoundVerdicts ==
  ASSUME NEW d \in Database, NEW row \in WalletRow, NEW r \in Request,
         NEW expired \in BOOLEAN
  PROVE  /\ Sound(applyOperation(d, row, r), row, r)
         /\ Sound(resumeOne(d, row, r, expired), row, r)
<1>1. Sound(DebitVerdict(row, Input[r].amount, None, Insufficient), row, r)
        \/ Input[r].kind # "BET"
  BY SoundDebit DEF FailureCode, IsReversalKind
<1>2. Sound(Process("NONE", None), row, r) \/ Input[r].kind # "LOSS"
  BY DEF Sound, Fits, VerdictType, Outcome, Process, Verdict, Ok, IsReversalKind
<1>3. Sound(CreditVerdict(row, Input[r].amount, None), row, r)
        \/ Input[r].kind # "WIN"
  BY SoundCredit DEF IsReversalKind
<1>4. Sound(applyWithReference(d, row, r), row, r)
  BY SoundWithReference
<1>5. Sound(Reject("REFERENCE_NOT_FOUND", None), row, r)
  BY SoundReject DEF FailureCode
<1>6. Sound(applyOperation(d, row, r), row, r)
  <2>1. CASE Input[r].kind = "BET"
    BY <2>1, <1>1 DEF applyOperation
  <2>2. CASE Input[r].kind = "LOSS"
    BY <2>2, <1>2 DEF applyOperation
  <2>3. CASE Input[r].kind = "WIN" /\ Input[r].ref = None
    BY <2>3, <1>3 DEF applyOperation
  <2>4. CASE /\ Input[r].kind # "BET"
             /\ Input[r].kind # "LOSS"
             /\ ~(Input[r].kind = "WIN" /\ Input[r].ref = None)
    BY <2>4, <1>4 DEF applyOperation
  <2> QED BY <2>1, <2>2, <2>3, <2>4
<1>7. Sound(resumeOne(d, row, r, expired), row, r)
  BY <1>4, <1>5 DEF resumeOne
<1> QED BY <1>6, <1>7

-----------------------------------------------------------------------------
(* The effects write rows of their types. *)

\* The wallet row after a movement that a sound verdict allows is typed.
LEMMA AppliedType ==
  ASSUME NEW row \in WalletRow, NEW r \in Request, NEW v, Sound(v, row, r)
  PROVE  Apply(row, v.dir, Input[r].amount) \in WalletRow
<1> DEFINE a == Input[r].amount
<1>1. a \in Nat /\ a =< MaxMoney /\ MaxMoney \in Nat
  BY InputFacts DEF Amount
<1>2. /\ row.balance \in Nat
      /\ row.balance =< MaxMoney
      /\ row.version \in Nat
  BY <1>1 DEF WalletRow, Amount
<1>3. CASE v.dir = "CREDIT"
  <2>1. row.balance + a \in Amount
    BY <1>1, <1>2, <1>3 DEF Sound, Fits, Amount
  <2> QED BY <1>2, <1>3, <2>1 DEF Apply, Credit, Moved, WalletRow
<1>4. CASE v.dir = "DEBIT"
  <2>1. row.balance - a \in Amount
    BY <1>1, <1>2, <1>4 DEF Sound, Fits, Amount
  <2> QED BY <1>2, <1>4, <2>1 DEF Apply, Debit, Moved, WalletRow
<1>5. CASE v.dir \notin {"CREDIT", "DEBIT"}
  BY <1>5 DEF Apply
<1> QED BY <1>3, <1>4, <1>5

\* Writing the outcome columns of one transaction keeps the table typed.
LEMMA UpdateStateType ==
  ASSUME NEW d \in Database, NEW r \in Request, NEW state \in TransactionState,
         NEW code \in FailureCode \cup {Ok}, NEW row \in WalletRow,
         NEW t \in Request \cup {None}
  PROVE  UpdateState(d, r, state, code, row, t) \in [Request -> TxRow]
<1>1. d.tx \in [Request -> TxRow]
  BY DEF Database
<1>2. [state |-> state, code |-> code, balance |-> row.balance,
       version |-> row.version, refTx |-> t, reversedBy |-> d.tx[r].reversedBy]
        \in TxRow
  BY <1>1 DEF TxRow, WalletRow
<1> QED BY <1>1, <1>2 DEF UpdateState

\* Taking and freeing reversal slots keeps the table typed.
LEMMA MarkReversedType ==
  ASSUME NEW d \in Database, NEW txs \in [Request -> TxRow],
         NEW r \in Request, NEW t
  PROVE  MarkReversed(d, txs, r, t) \in [Request -> TxRow]
<1>1. \A q \in Request : /\ [txs[q] EXCEPT !.reversedBy = r] \in TxRow
                         /\ [txs[q] EXCEPT !.reversedBy = None] \in TxRow
                         /\ txs[q] \in TxRow
  BY DEF TxRow
<1> QED BY <1>1 DEF MarkReversed

\* The ledger entry of a movement, if any, is typed.
LEMMA NewLedgerEntryType ==
  ASSUME NEW row \in WalletRow, NEW after \in WalletRow, NEW r \in Request,
         NEW dir \in {"CREDIT", "DEBIT", "NONE"}
  PROVE  NewLedgerEntry(r, dir, row, after) \in SUBSET Entry
BY InputFacts DEF NewLedgerEntry, Entry, WalletRow

\* The outbox rows of every kind are typed.
LEMMA EmitType ==
  ASSUME NEW d \in Database, NEW row \in WalletRow, NEW r \in Request, NEW e
  PROVE  /\ emitProcessed(d, e, row, r) \in SUBSET Event
         /\ emitRejected(d, row, r) \in SUBSET Event
         /\ emitPendingRef(d, row, r) \in SUBSET Event
<1>1. d.outbox \in SUBSET Event
  BY DEF Database
<1>2. Input[r].wallet \in Wallet /\ 0 \in Amount
  BY InputFacts DEF Amount
<1>3. row.balance \in Amount /\ row.version \in Nat
  BY DEF WalletRow
<1>4. \A type \in EventType, b \in Amount :
        [type |-> type, wallet |-> Input[r].wallet, tx |-> r,
         balance |-> b, version |-> row.version] \in Event
  BY <1>2, <1>3 DEF Event
<1>5. emitProcessed(d, e, row, r) \in SUBSET Event
  BY <1>1, <1>3, <1>4 DEF emitProcessed, EventType
<1>6. emitRejected(d, row, r) \in SUBSET Event
  BY <1>1, <1>3, <1>4 DEF emitRejected, EventType
<1>7. emitPendingRef(d, row, r) \in SUBSET Event
  BY <1>1, <1>2, <1>4 DEF emitPendingRef, EventType
<1> QED BY <1>5, <1>6, <1>7

\* What a processed operation writes is a database.
LEMMA ProcessedType ==
  ASSUME NEW d \in Database, NEW row \in WalletRow, NEW r \in Request,
         NEW v, Sound(v, row, r), v.outcome = "PROCESSED"
  PROVE  processed(d, row, r, v) \in Database
<1> DEFINE after == Apply(row, v.dir, Input[r].amount)
           e == NewLedgerEntry(r, v.dir, row, after)
           txs == UpdateState(d, r, "PROCESSED", Ok, after, v.refTx)
           newtx == IF IsReversalKind(Input[r].kind)
                      THEN MarkReversed(d, txs, r, v.refTx) ELSE txs
           wallet == IF e = {} THEN d.wallet
                     ELSE [d.wallet EXCEPT ![Input[r].wallet] = after]
<1>1. after \in WalletRow
  BY AppliedType
<1>2. v.dir \in {"CREDIT", "DEBIT", "NONE"} /\ v.refTx \in Request \cup {None}
  BY DEF Sound, VerdictType
<1> HIDE DEF after
<1>3. e \in SUBSET Entry
  BY <1>1, <1>2, NewLedgerEntryType
<1>4. txs \in [Request -> TxRow]
  BY <1>1, <1>2, UpdateStateType DEF TransactionState
<1> HIDE DEF e, txs
<1>5. newtx \in [Request -> TxRow]
  BY <1>4, MarkReversedType
<1>6. wallet \in [Wallet -> WalletRow]
  BY <1>1, InputFacts DEF Database
<1>7. emitProcessed(d, e, after, r) \in SUBSET Event
  BY <1>1, EmitType
<1>8. processed(d, row, r, v) =
        [d EXCEPT !.tx = newtx, !.ledger = d.ledger \cup e,
                  !.wallet = wallet, !.outbox = emitProcessed(d, e, after, r)]
  BY DEF processed, after, e, txs
<1> HIDE DEF newtx, wallet
<1> QED BY <1>3, <1>5, <1>6, <1>7, <1>8, ZenonT(40) DEF Database

\* What a rejected operation writes is a database.
LEMMA RejectedType ==
  ASSUME NEW d \in Database, NEW row \in WalletRow, NEW r \in Request,
         NEW v, Sound(v, row, r), v.outcome = "REJECTED"
  PROVE  rejected(d, row, r, v) \in Database
<1>1. UpdateState(d, r, "REJECTED", v.code, row, v.refTx) \in [Request -> TxRow]
  BY UpdateStateType DEF Sound, Fits, VerdictType, TransactionState
<1>2. emitRejected(d, row, r) \in SUBSET Event
  BY EmitType
<1> QED BY <1>1, <1>2 DEF rejected, Database

\* Changing one work row keeps the type.
LEMMA WorkType ==
  ASSUME NEW d \in Database, NEW r \in Request, NEW x \in WorkRow
  PROVE  [d EXCEPT !.work = [@ EXCEPT ![r] = x]] \in Database
BY DEF Database

\* The absent work row is typed.
LEMMA NoWorkType ==
  NoWork \in WorkRow /\ [NoWork EXCEPT !.present = TRUE] \in WorkRow
<1>1. 0 \in 0..MaxRefAttempts /\ 0 \in 0..MaxInfraAttempts
  BY ConstantsAssumption
<1> QED BY <1>1 DEF NoWork, WorkRow

\* Deleting a work row leaves a database.
LEMMA DeleteWorkType ==
  ASSUME NEW d \in Database, NEW r \in Request
  PROVE  DeleteWork(d, r) \in Database
BY WorkType, NoWorkType DEF DeleteWork

\* What a parked operation writes is a database.
LEMMA ParkType ==
  ASSUME NEW d \in Database, NEW row \in WalletRow, NEW r \in Request
  PROVE  parkReference(d, row, r) \in Database
<1>1. [NoTx EXCEPT !.state = "PENDING_REFERENCE"] \in TxRow
  BY InputFacts DEF NoTx, TxRow, TransactionState, Amount
<1>2. emitPendingRef(d, row, r) \in SUBSET Event
  BY EmitType
<1>3. [d.tx EXCEPT ![r] = [NoTx EXCEPT !.state = "PENDING_REFERENCE"]]
        \in [Request -> TxRow]
  BY <1>1 DEF Database
<1>4. [d.work EXCEPT ![r] = [NoWork EXCEPT !.present = TRUE]]
        \in [Request -> WorkRow]
  BY NoWorkType DEF Database
<1> QED BY <1>2, <1>3, <1>4 DEF parkReference, Database

\* Rescheduling a work row leaves a database: the counters stay in range.
LEMMA TouchWorkType ==
  ASSUME NEW d \in Database, NEW r \in Request, NEW ref \in Nat,
         NEW infra \in 0..MaxInfraAttempts, NEW clear \in BOOLEAN
  PROVE  TouchWork(d, r, ref, infra, clear) \in Database
<1> DEFINE x == [present |-> TRUE,
                 ref |-> IF ref < MaxRefAttempts THEN ref ELSE MaxRefAttempts,
                 infra |-> infra,
                 leased |-> d.work[r].leased /\ ~clear]
<1>1. MaxRefAttempts \in Nat
  BY ConstantsAssumption
<1>2. (IF ref < MaxRefAttempts THEN ref ELSE MaxRefAttempts) \in 0..MaxRefAttempts
  BY <1>1
<1>3. d.work[r] \in WorkRow
  BY DEF Database
<1>4. x \in WorkRow
  BY <1>2, <1>3 DEF WorkRow
<1>5. TouchWork(d, r, ref, infra, clear) \in
        {d, [d EXCEPT !.work = [@ EXCEPT ![r] = x]]}
  BY DEF TouchWork, Database
<1> HIDE DEF x
<1> QED BY <1>4, <1>5, WorkType

\* What a first submission writes is a database.
LEMMA AcceptType ==
  ASSUME NEW d \in Database, NEW row \in WalletRow, NEW r \in Request,
         NEW v, Sound(v, row, r)
  PROVE  Accept(d, row, r, v) \in Database
<1> DEFINE x == CASE v.outcome = "PROCESSED" -> processed(d, row, r, v)
                  [] v.outcome = "REJECTED" -> rejected(d, row, r, v)
                  [] OTHER -> parkReference(d, row, r)
<1>1. x \in Database
  <2>1. CASE v.outcome = "PROCESSED"
    BY <2>1, ProcessedType
  <2>2. CASE v.outcome = "REJECTED"
    BY <2>2, RejectedType
  <2>3. CASE v.outcome \notin {"PROCESSED", "REJECTED"}
    BY <2>3, ParkType
  <2> QED BY <2>1, <2>2, <2>3
<1> HIDE DEF x
<1>2. InsertInbox(x, r) \in Database
  <2>1. CASE Input[r].msg = None
    BY <1>1, <2>1 DEF InsertInbox
  <2>2. CASE Input[r].msg # None
    <3>1. Input[r].msg \in STRING
      BY <2>2, ConstantsAssumption DEF InputType
    <3>2. [msg |-> Input[r].msg, tx |-> r] \in InboxRow
      BY <3>1 DEF InboxRow
    <3> QED BY <1>1, <2>2, <3>2 DEF InsertInbox, Database
  <2> QED BY <2>1, <2>2
<1> QED BY <1>2 DEF Accept, x

\* What a resume writes is a database.
LEMMA SettleType ==
  ASSUME NEW d \in Database, NEW row \in WalletRow, NEW r \in Request,
         NEW v, Sound(v, row, r)
  PROVE  Settle(d, row, r, v) \in Database
<1>1. CASE v.outcome = "PROCESSED"
  BY <1>1, ProcessedType, DeleteWorkType DEF Settle, settleProcessedExisting
<1>2. CASE v.outcome = "REJECTED"
  BY <1>2, RejectedType, DeleteWorkType DEF Settle, settleRejectedExisting
<1>3. CASE v.outcome \notin {"PROCESSED", "REJECTED"}
  <2>1. d.work[r].ref + 1 \in Nat /\ 0 \in 0..MaxInfraAttempts
    BY ConstantsAssumption DEF Database, WorkRow
  <2>2. Settle(d, row, r, v) = TouchWork(d, r, d.work[r].ref + 1, 0, TRUE)
    BY <1>3 DEF Settle
  <2> QED BY <2>1, <2>2, TouchWorkType
<1> QED BY <1>1, <1>2, <1>3

\* What a failed attempt of a worker writes is a database.
LEMMA noteInfraType ==
  ASSUME NEW d \in Database, NEW i \in Item, i.tx \in Request
  PROVE  noteInfra(d, i) \in Database
<1> DEFINE x == [d EXCEPT !.tx = [@ EXCEPT ![i.tx] =
                   [d.tx[i.tx] EXCEPT !.state = "FAILED",
                                      !.code = "INFRA_EXHAUSTED"]]]
<1>1. i.infra \in 0..MaxInfraAttempts /\ i.ref \in Nat /\ MaxInfraAttempts \in Nat
  BY ConstantsAssumption DEF Item
<1>2. CASE i.infra + 1 >= MaxInfraAttempts
  <2>1. [d.tx[i.tx] EXCEPT !.state = "FAILED", !.code = "INFRA_EXHAUSTED"] \in TxRow
    <3>1. d.tx[i.tx] \in TxRow
      BY DEF Database
    <3> QED BY <3>1 DEF TxRow, TransactionState, FailureCode
  <2>2. x \in Database
    BY <2>1 DEF Database
  <2> HIDE DEF x
  <2>3. DeleteWork(x, i.tx) \in Database
    BY <2>2, DeleteWorkType
  <2> QED BY <1>2, <2>3 DEF noteInfra, x
<1>3. CASE ~(i.infra + 1 >= MaxInfraAttempts)
  <2>1. i.infra + 1 \in 0..MaxInfraAttempts
    BY <1>1, <1>3
  <2>2. TouchWork(d, i.tx, i.ref, i.infra + 1, FALSE) \in Database
    BY <1>1, <2>1, TouchWorkType
  <2> QED BY <1>3, <2>2 DEF noteInfra
<1> QED BY <1>2, <1>3

\* Leasing work rows, or letting leases run out, leaves a database.
LEMMA LeasedType ==
  ASSUME NEW d \in Database, NEW rs, NEW leased \in BOOLEAN
  PROVE  Leased(d, rs, leased) \in Database
<1>1. \A r \in Request : /\ d.work[r] \in WorkRow
                         /\ [d.work[r] EXCEPT !.leased = leased] \in WorkRow
  BY DEF Database, WorkRow
<1>2. [r \in Request |-> IF r \in rs /\ d.work[r].present
         THEN [d.work[r] EXCEPT !.leased = leased] ELSE d.work[r]]
        \in [Request -> WorkRow]
  BY <1>1
<1> QED BY <1>2 DEF Leased, Database

\* What the opening of a wallet writes is a database.
LEMMA OpenedType ==
  ASSUME NEW d \in Database, NEW w \in Wallet
  PROVE  Opened(d, w) \in Database
<1>1. Opening[w].amount \in Amount /\ 0 \in Amount
  BY InputFacts DEF Amount
<1>2. [d.wallet EXCEPT ![w] = [balance |-> Opening[w].amount, version |-> 1]]
        \in [Wallet -> WalletRow]
  BY <1>1 DEF Database, WalletRow
<1>3. OpeningEntry(w) \in SUBSET Entry
  BY <1>1 DEF OpeningEntry, Entry
<1>4. \A type \in {"Processed", "BalanceChanged"} :
        [type |-> type, wallet |-> w, tx |-> w,
         balance |-> Opening[w].amount, version |-> 1] \in Event
  BY <1>1 DEF Event, EventType
<1>5. {[type |-> type, wallet |-> w, tx |-> w,
        balance |-> Opening[w].amount, version |-> 1] :
         type \in IF OpeningEntry(w) = {} THEN {}
                  ELSE {"Processed", "BalanceChanged"}} \in SUBSET Event
  BY <1>4
<1> QED BY <1>2, <1>3, <1>5 DEF Opened, Database

-----------------------------------------------------------------------------
(* The ledger of one version of the tables.  LedgerChain and               *)
(* OneMovementPerTransaction are not inductive: they are about the         *)
(* committed tables, and a movement is made on the current ones.  DbInv is *)
(* kept by both versions; Owned ties an entry to the row it belongs to, so *)
(* that a merge by wallet takes both or neither.                           *)

Owned(d) ==
  \A e \in d.ledger :
    /\ e.tx \in Request => Present(d, e.tx) /\ e.wallet = Input[e.tx].wallet
    /\ e.tx \in Wallet => e.wallet = e.tx

MovedOnce(d) == \A e, f \in d.ledger : e.tx = f.tx => e = f

DbInv(d) == (\A w \in Wallet : Chained(d, w)) /\ Owned(d) /\ MovedOnce(d)

\* A movement that starts at the balance extends the chain by one version.
LEMMA ExtendChain ==
  ASSUME NEW row \in WalletRow, NEW after \in WalletRow, NEW es \in SUBSET Entry,
         NEW e \in Entry, NEW first \in {1, 2},
         Chain(row, es, first), row.version + 1 >= first,
         after.version = row.version + 1, e.version = after.version,
         e.before = row.balance, e.after = after.balance,
         e.dir = "CREDIT" => e.after = e.before + e.amount,
         e.dir = "DEBIT" => e.before = e.after + e.amount
  PROVE  Chain(after, es \cup {e}, first)
<1> DEFINE fs == es \cup {e}
<1>1. /\ row.version \in Nat /\ first \in Nat /\ e.version = row.version + 1
      /\ \A f \in es : f.version \in Nat
  BY DEF WalletRow, Entry
<1>2. \A f \in es : f.version \in first..row.version
  BY DEF Chain
<1>3. \A f \in fs : f.version \in first..after.version
  BY <1>1, <1>2
<1>4. \A v \in first..after.version : \E f \in fs : f.version = v
  <2> SUFFICES ASSUME NEW v \in first..after.version
               PROVE  \E f \in fs : f.version = v
    OBVIOUS
  <2>1. CASE v = after.version
    BY <2>1
  <2>2. CASE v # after.version
    <3>1. v \in first..row.version
      BY <1>1, <2>2
    <3> QED BY <3>1 DEF Chain
  <2> QED BY <2>1, <2>2
<1>5. \A f, g \in fs : f.version = g.version => f = g
  BY <1>1, <1>2 DEF Chain
<1>6. \A f, g \in fs : g.version = f.version + 1 => g.before = f.after
  BY <1>1, <1>2 DEF Chain
<1>7. \A f \in fs : f.version = first => f.before = 0
  BY <1>1, <1>2 DEF Chain
<1>8. \A f \in fs : f.version = after.version => f.after = after.balance
  BY <1>1, <1>2
<1>9. ~(after.version < first)
  BY <1>1
<1>10. \A f \in fs : /\ f.dir = "CREDIT" => f.after = f.before + f.amount
                     /\ f.dir = "DEBIT" => f.before = f.after + f.amount
  BY DEF Chain
<1> QED
  BY <1>3, <1>4, <1>5, <1>6, <1>7, <1>8, <1>9, <1>10 DEF Chain

\* A change that keeps wallets, ledger and present rows keeps DbInv.
LEMMA QuietInv ==
  ASSUME NEW d, NEW x, DbInv(d), x.wallet = d.wallet, x.ledger = d.ledger,
         \A q \in Request : Present(d, q) => Present(x, q)
  PROVE  DbInv(x)
<1>1. \A w \in Wallet : Chained(x, w)
  BY DEF DbInv, Chained, EntriesOf
<1> QED BY <1>1 DEF DbInv, Owned, MovedOnce

\* A merge by wallet takes a whole chain from the one or from the other.
LEMMA MergeInv ==
  ASSUME NEW d \in Database, NEW e \in Database, NEW ws \in SUBSET Wallet,
         DbInv(d), DbInv(e)
  PROVE  DbInv(Merge(d, e, ws))
<1> DEFINE m == Merge(d, e, ws)
<1>1. m.ledger = {x \in d.ledger : x.wallet \notin ws}
                   \cup {x \in e.ledger : x.wallet \in ws}
  BY DEF Merge
<1>2. \A w \in Wallet : m.wallet[w] = IF w \in ws THEN e.wallet[w] ELSE d.wallet[w]
  BY DEF Merge
<1>3. \A r \in Request :
        m.tx[r] = IF Input[r].wallet \in ws THEN e.tx[r] ELSE d.tx[r]
  BY DEF Merge
<1> HIDE DEF m
<1>4. \A w \in Wallet : Chained(m, w)
  <2> SUFFICES ASSUME NEW w \in Wallet PROVE Chained(m, w)
    OBVIOUS
  <2>1. CASE w \in ws
    <3>1. EntriesOf(m, w) = EntriesOf(e, w) /\ m.wallet[w] = e.wallet[w]
      BY <1>1, <1>2, <2>1 DEF EntriesOf
    <3> QED BY <3>1 DEF DbInv, Chained
  <2>2. CASE w \notin ws
    <3>1. EntriesOf(m, w) = EntriesOf(d, w) /\ m.wallet[w] = d.wallet[w]
      BY <1>1, <1>2, <2>2 DEF EntriesOf
    <3> QED BY <3>1 DEF DbInv, Chained
  <2> QED BY <2>1, <2>2
<1>5. Owned(m)
  BY <1>1, <1>3 DEF DbInv, Owned, Present
<1>6. MovedOnce(m)
  <2> SUFFICES ASSUME NEW x \in m.ledger, NEW y \in m.ledger, x.tx = y.tx
               PROVE  x = y
    BY DEF MovedOnce
  <2>1. x.tx \in Request \cup Wallet /\ x.wallet = y.wallet
    BY <1>1 DEF Database, Entry, DbInv, Owned
  <2>2. (x \in d.ledger /\ y \in d.ledger) \/ (x \in e.ledger /\ y \in e.ledger)
    BY <1>1, <2>1
  <2> QED BY <2>2 DEF DbInv, MovedOnce
<1> QED BY <1>4, <1>5, <1>6 DEF DbInv, m

\* A processed operation whose wallet row is the one it was judged on keeps
\* DbInv, unless it has moved already.
LEMMA ProcessedInv ==
  ASSUME NEW d \in Database, NEW r \in Request, NEW v, NEW row,
         DbInv(d), row = d.wallet[Input[r].wallet], row.version > 0,
         Sound(v, row, r), v.outcome = "PROCESSED",
         \A e \in d.ledger : e.tx # r
  PROVE  DbInv(processed(d, row, r, v))
<1> DEFINE w == Input[r].wallet
           a == Input[r].amount
           after == Apply(row, v.dir, a)
           new == NewLedgerEntry(r, v.dir, row, after)
           x == processed(d, row, r, v)
           e == [wallet |-> w, tx |-> r, dir |-> v.dir, amount |-> a,
                 before |-> row.balance, after |-> after.balance,
                 version |-> after.version]
<1>1. w \in Wallet /\ a \in Amount /\ row \in WalletRow
  BY InputFacts DEF Database
<1>2. after \in WalletRow
  BY <1>1, AppliedType
<1>3. v.dir \in {"CREDIT", "DEBIT", "NONE"}
  BY SMTT(30) DEF Sound, VerdictType
<1>4. /\ x \in Database
      /\ x.ledger = d.ledger \cup new
      /\ x.wallet = IF new = {} THEN d.wallet ELSE [d.wallet EXCEPT ![w] = after]
  <2>1. x \in Database
    BY <1>1, ProcessedType
  <2> QED BY <2>1 DEF processed, Database
<1>5. \A q \in Request : Present(d, q) \/ q = r => Present(x, q)
  <2> DEFINE txs == UpdateState(d, r, "PROCESSED", Ok, after, v.refTx)
  <2>1. txs \in [Request -> TxRow]
    BY <1>2, UpdateStateType DEF Sound, VerdictType, TransactionState
  <2>2. \A q \in Request : txs[q].state = IF q = r THEN "PROCESSED" ELSE d.tx[q].state
    BY DEF UpdateState, Database
  <2> HIDE DEF txs
  <2>3. x.tx = IF IsReversalKind(Input[r].kind)
                 THEN MarkReversed(d, txs, r, v.refTx) ELSE txs
    BY DEF processed, Database, txs
  <2>4. \A q \in Request : x.tx[q].state = txs[q].state
    <3>1. \A q \in Request : MarkReversed(d, txs, r, v.refTx)[q].state = txs[q].state
      BY <2>1 DEF MarkReversed, TxRow
    <3> QED BY <2>3, <3>1
  <2> HIDE DEF x
  <2> QED BY <2>2, <2>4 DEF Present
<1>6. CASE v.dir = "NONE"
  <2>1. new = {}
    BY <1>6 DEF NewLedgerEntry
  <2>2. x.ledger = d.ledger /\ x.wallet = d.wallet
    BY <1>4, <2>1
  <2> QED BY <1>5, <2>2, QuietInv
<1>7. CASE v.dir \in {"CREDIT", "DEBIT"}
  <2>1. new = {e}
    BY <1>7 DEF NewLedgerEntry
  <2>2. e \in Entry
    BY <1>1, <1>2, <1>7, SMTT(30) DEF Entry, WalletRow
  <2>3. x.ledger = d.ledger \cup {e} /\ x.wallet = [d.wallet EXCEPT ![w] = after]
    BY <1>4, <2>1
  <2>4. /\ after.version = row.version + 1
        /\ v.dir = "CREDIT" => after.balance = row.balance + a
        /\ v.dir = "DEBIT" => row.balance = after.balance + a
    BY <1>1, <1>7 DEF Apply, Credit, Debit, Moved, WalletRow, Amount
  <2>5. /\ e.wallet = w /\ e.tx = r /\ e.dir = v.dir /\ e.amount = a
        /\ e.before = row.balance /\ e.after = after.balance
        /\ e.version = after.version
    OBVIOUS
  <2> HIDE DEF e, after, x, new
  <2>6. \A u \in Wallet : Chained(x, u)
    <3> SUFFICES ASSUME NEW u \in Wallet PROVE Chained(x, u)
      OBVIOUS
    <3>1. CASE u = w
      <4>1. EntriesOf(x, u) = EntriesOf(d, u) \cup {e} /\ x.wallet[u] = after
        BY <2>3, <2>5, <3>1 DEF EntriesOf, Database
      <4>2. Chain(row, EntriesOf(d, u), FirstVersion(u))
        BY <3>1 DEF DbInv, Chained
      <4>3. EntriesOf(d, u) \in SUBSET Entry /\ FirstVersion(u) \in {1, 2}
        BY DEF EntriesOf, Database, FirstVersion
      <4>4. row.version + 1 >= FirstVersion(u)
        BY <1>1, <4>3 DEF WalletRow
      <4>5. Chain(after, EntriesOf(d, u) \cup {e}, FirstVersion(u))
        BY <1>1, <1>2, <2>2, <2>4, <2>5, <4>2, <4>3, <4>4, ExtendChain
      <4> QED BY <4>1, <4>5 DEF Chained
    <3>2. CASE u # w
      <4>1. EntriesOf(x, u) = EntriesOf(d, u) /\ x.wallet[u] = d.wallet[u]
        BY <2>3, <2>5, <3>2 DEF EntriesOf, Database
      <4> QED BY <4>1 DEF DbInv, Chained
    <3> QED BY <3>1, <3>2
  <2>7. Owned(x)
    BY <1>5, <2>3, <2>5, ConstantsAssumption DEF DbInv, Owned
  <2>8. MovedOnce(x)
    BY <2>3, <2>5 DEF DbInv, MovedOnce
  <2> QED BY <2>6, <2>7, <2>8 DEF DbInv, x
<1> QED BY <1>3, <1>6, <1>7

\* A rejection, a parking, a work row or an inbox row move no money.
LEMMA RejectedInv ==
  ASSUME NEW d \in Database, NEW row \in WalletRow, NEW r \in Request, NEW v,
         DbInv(d), Sound(v, row, r), v.outcome = "REJECTED"
  PROVE  DbInv(rejected(d, row, r, v))
<1> DEFINE x == rejected(d, row, r, v)
<1>1. x.wallet = d.wallet /\ x.ledger = d.ledger
  BY DEF rejected, Database
<1>2. x.tx = UpdateState(d, r, "REJECTED", v.code, row, v.refTx)
  BY DEF rejected, Database
<1>3. \A q \in Request : Present(d, q) => Present(x, q)
  BY <1>2 DEF Present, UpdateState, Database
<1> QED BY <1>1, <1>3, QuietInv

\* Deleting a work row moves no money.
LEMMA DeleteWorkInv ==
  ASSUME NEW d \in Database, NEW r, DbInv(d)
  PROVE  DbInv(DeleteWork(d, r))
<1> DEFINE x == DeleteWork(d, r)
<1>1. x.wallet = d.wallet /\ x.ledger = d.ledger /\ x.tx = d.tx
  BY DEF DeleteWork, Database
<1> QED BY <1>1, QuietInv DEF Present

\* Rescheduling a work row moves no money.
LEMMA TouchWorkInv ==
  ASSUME NEW d \in Database, NEW r, NEW ref, NEW infra, NEW clear, DbInv(d)
  PROVE  DbInv(TouchWork(d, r, ref, infra, clear))
<1> DEFINE x == TouchWork(d, r, ref, infra, clear)
<1>1. x.wallet = d.wallet /\ x.ledger = d.ledger /\ x.tx = d.tx
  BY DEF TouchWork, Database
<1> QED BY <1>1, QuietInv DEF Present

\* Leasing work rows moves no money.
LEMMA LeasedInv ==
  ASSUME NEW d \in Database, NEW rs, NEW leased, DbInv(d)
  PROVE  DbInv(Leased(d, rs, leased))
<1> DEFINE x == Leased(d, rs, leased)
<1>1. x.wallet = d.wallet /\ x.ledger = d.ledger /\ x.tx = d.tx
  BY DEF Leased, Database
<1> QED BY <1>1, QuietInv DEF Present

\* Parking an operation moves no money.
LEMMA ParkInv ==
  ASSUME NEW d \in Database, NEW row, NEW r \in Request, DbInv(d)
  PROVE  DbInv(parkReference(d, row, r))
<1> DEFINE x == parkReference(d, row, r)
<1>1. x.wallet = d.wallet /\ x.ledger = d.ledger
  BY DEF parkReference, Database
<1>2. x.tx = [d.tx EXCEPT ![r] = [NoTx EXCEPT !.state = "PENDING_REFERENCE"]]
  BY DEF parkReference, Database
<1>3. \A q \in Request : Present(d, q) => Present(x, q)
  BY <1>2 DEF Present, NoTx, Database
<1> QED BY <1>1, <1>3, QuietInv

\* Recording a message in the inbox moves no money.
LEMMA InsertInboxInv ==
  ASSUME NEW d \in Database, NEW r, DbInv(d)
  PROVE  DbInv(InsertInbox(d, r))
<1> DEFINE x == InsertInbox(d, r)
<1>1. x.wallet = d.wallet /\ x.ledger = d.ledger /\ x.tx = d.tx
  BY DEF InsertInbox, Database
<1> QED BY <1>1, QuietInv DEF Present

\* A failed attempt of a worker moves no money.
LEMMA noteInfraInv ==
  ASSUME NEW d \in Database, NEW i \in Item, i.tx \in Request, DbInv(d)
  PROVE  DbInv(noteInfra(d, i))
<1> DEFINE row == [d.tx[i.tx] EXCEPT !.state = "FAILED", !.code = "INFRA_EXHAUSTED"]
           x == [d EXCEPT !.tx = [@ EXCEPT ![i.tx] = row]]
<1>1. d.tx[i.tx] \in TxRow
  BY DEF Database
<1>2. row \in TxRow /\ row.state = "FAILED"
  BY <1>1 DEF TxRow, TransactionState, FailureCode
<1> HIDE DEF row
<1>3. /\ x \in Database
      /\ x.wallet = d.wallet
      /\ x.ledger = d.ledger
      /\ x.tx = [d.tx EXCEPT ![i.tx] = row]
  BY <1>2 DEF Database
<1>4. \A q \in Request : Present(d, q) => Present(x, q)
  BY <1>2, <1>3 DEF Present, Database
<1> HIDE DEF x
<1>5. DbInv(DeleteWork(x, i.tx))
  BY <1>3, <1>4, QuietInv, DeleteWorkInv
<1>6. DbInv(TouchWork(d, i.tx, i.ref, i.infra + 1, FALSE))
  BY TouchWorkInv
<1> QED BY <1>5, <1>6 DEF noteInfra, x, row

\* What a first submission writes keeps DbInv.
LEMMA AcceptInv ==
  ASSUME NEW d \in Database, NEW r \in Request, NEW v, NEW row,
         DbInv(d), row = d.wallet[Input[r].wallet], row.version > 0,
         Sound(v, row, r), \A e \in d.ledger : e.tx # r
  PROVE  DbInv(Accept(d, row, r, v))
<1> DEFINE x == CASE v.outcome = "PROCESSED" -> processed(d, row, r, v)
                  [] v.outcome = "REJECTED" -> rejected(d, row, r, v)
                  [] OTHER -> parkReference(d, row, r)
<1>1. row \in WalletRow
  BY InputFacts DEF Database
<1>2. x \in Database /\ DbInv(x)
  <2>1. CASE v.outcome = "PROCESSED"
    BY <1>1, <2>1, ProcessedInv, ProcessedType
  <2>2. CASE v.outcome = "REJECTED"
    BY <1>1, <2>2, RejectedInv, RejectedType
  <2>3. CASE v.outcome \notin {"PROCESSED", "REJECTED"}
    BY <1>1, <2>3, ParkInv, ParkType
  <2> QED BY <2>1, <2>2, <2>3
<1> HIDE DEF x
<1>3. DbInv(InsertInbox(x, r))
  BY <1>2, InsertInboxInv
<1> QED BY <1>3 DEF Accept, x

\* What a resume writes keeps DbInv, since the ledger refuses a second entry.
LEMMA SettleInv ==
  ASSUME NEW d \in Database, NEW r \in Request, NEW v, NEW row,
         DbInv(d), row = d.wallet[Input[r].wallet], row.version > 0,
         Sound(v, row, r), ~LedgerClash(d, r, v)
  PROVE  DbInv(Settle(d, row, r, v))
<1>1. row \in WalletRow
  BY InputFacts DEF Database
<1>2. CASE v.outcome = "PROCESSED"
  <2>1. \A e \in d.ledger : e.tx # r
    BY <1>2 DEF LedgerClash, DbInv, Owned
  <2>2. processed(d, row, r, v) \in Database /\ DbInv(processed(d, row, r, v))
    BY <1>1, <1>2, <2>1, ProcessedInv, ProcessedType
  <2> QED BY <1>2, <2>2, DeleteWorkInv DEF Settle, settleProcessedExisting
<1>3. CASE v.outcome = "REJECTED"
  <2>1. rejected(d, row, r, v) \in Database /\ DbInv(rejected(d, row, r, v))
    BY <1>1, <1>3, RejectedInv, RejectedType
  <2> QED BY <1>3, <2>1, DeleteWorkInv DEF Settle, settleRejectedExisting
<1>4. CASE v.outcome \notin {"PROCESSED", "REJECTED"}
  BY <1>4, TouchWorkInv DEF Settle
<1> QED BY <1>2, <1>3, <1>4

\* Effects never lose a wallet.
Keeps(d, x) == \A w \in Wallet : WalletExists(d, w) => WalletExists(x, w)

\* A processed operation loses no wallet: its version only grows.
LEMMA ProcessedKeeps ==
  ASSUME NEW d \in Database, NEW row \in WalletRow, NEW r \in Request, NEW v,
         Sound(v, row, r), v.outcome = "PROCESSED", row.version > 0
  PROVE  Keeps(d, processed(d, row, r, v))
<1> DEFINE after == Apply(row, v.dir, Input[r].amount)
           x == processed(d, row, r, v)
<1>1. after \in WalletRow /\ after.version > 0
  <2>1. after.version \in {row.version, row.version + 1}
    BY DEF Apply, Credit, Debit, Moved
  <2> QED BY <2>1, AppliedType DEF WalletRow
<1> HIDE DEF after
<1>2. x.wallet \in {d.wallet, [d.wallet EXCEPT ![Input[r].wallet] = after]}
  BY DEF processed, Database, after
<1> HIDE DEF x
<1>3. \A w \in Wallet : x.wallet[w] \in {d.wallet[w], after}
  BY <1>2 DEF Database
<1> QED BY <1>1, <1>3 DEF Keeps, WalletExists, x

\* Deleting a work row leaves the wallets alone.
LEMMA DeleteWorkKeeps ==
  ASSUME NEW d \in Database, NEW r
  PROVE  DeleteWork(d, r).wallet = d.wallet
BY DEF DeleteWork, Database

\* No accepted or resumed operation loses a wallet.
LEMMA EffectsKeep ==
  ASSUME NEW d \in Database, NEW row \in WalletRow, NEW r \in Request, NEW v,
         Sound(v, row, r), row.version > 0
  PROVE  Keeps(d, Accept(d, row, r, v)) /\ Keeps(d, Settle(d, row, r, v))
<1>1. CASE v.outcome = "PROCESSED"
  <2> DEFINE x == processed(d, row, r, v)
  <2>1. x \in Database /\ Keeps(d, x)
    BY <1>1, ProcessedType, ProcessedKeeps
  <2>2. Accept(d, row, r, v) = InsertInbox(x, r) /\ Settle(d, row, r, v) = DeleteWork(x, r)
    BY <1>1 DEF Accept, Settle, settleProcessedExisting
  <2> HIDE DEF x
  <2>3. InsertInbox(x, r).wallet = x.wallet /\ DeleteWork(x, r).wallet = x.wallet
    BY <2>1, DeleteWorkKeeps DEF InsertInbox, Database
  <2> QED BY <2>1, <2>2, <2>3 DEF Keeps, WalletExists
<1>2. CASE v.outcome = "REJECTED"
  <2> DEFINE x == rejected(d, row, r, v)
  <2>1. x \in Database /\ x.wallet = d.wallet
    BY <1>2, RejectedType DEF rejected, Database
  <2>2. Accept(d, row, r, v) = InsertInbox(x, r) /\ Settle(d, row, r, v) = DeleteWork(x, r)
    BY <1>2 DEF Accept, Settle, settleRejectedExisting
  <2> HIDE DEF x
  <2>3. InsertInbox(x, r).wallet = x.wallet /\ DeleteWork(x, r).wallet = x.wallet
    BY <2>1, DeleteWorkKeeps DEF InsertInbox, Database
  <2> QED BY <2>1, <2>2, <2>3 DEF Keeps, WalletExists
<1>3. CASE v.outcome \notin {"PROCESSED", "REJECTED"}
  <2> DEFINE x == parkReference(d, row, r)
             y == TouchWork(d, r, d.work[r].ref + 1, 0, TRUE)
  <2>1. x \in Database /\ x.wallet = d.wallet
    BY ParkType DEF parkReference, Database
  <2>2. y.wallet = d.wallet
    BY DEF TouchWork, Database
  <2>3. Accept(d, row, r, v) = InsertInbox(x, r) /\ Settle(d, row, r, v) = y
    BY <1>3 DEF Accept, Settle
  <2> HIDE DEF x, y
  <2>4. InsertInbox(x, r).wallet = x.wallet
    BY <2>1 DEF InsertInbox, Database
  <2> QED BY <2>1, <2>2, <2>3, <2>4 DEF Keeps, WalletExists
<1> QED BY <1>1, <1>2, <1>3

\* A failed attempt of a worker loses no wallet.
LEMMA noteInfraKeeps ==
  ASSUME NEW d \in Database, NEW i
  PROVE  Keeps(d, noteInfra(d, i))
<1>1. noteInfra(d, i).wallet = d.wallet
  BY DEF noteInfra, DeleteWork, TouchWork, Database
<1> QED BY <1>1 DEF Keeps, WalletExists

\* The opening of a wallet starts its chain.
LEMMA OpenedInv ==
  ASSUME NEW d \in Database, NEW w \in Wallet, DbInv(d), ~WalletExists(d, w)
  PROVE  DbInv(Opened(d, w))
<1> DEFINE x == Opened(d, w)
           row == [balance |-> Opening[w].amount, version |-> 1]
           e == [wallet |-> w, tx |-> w, dir |-> "CREDIT",
                 amount |-> Opening[w].amount, before |-> 0,
                 after |-> Opening[w].amount, version |-> 1]
<1>1. /\ x.wallet = [d.wallet EXCEPT ![w] = row]
      /\ x.ledger = d.ledger \cup OpeningEntry(w)
      /\ x.tx = d.tx
  BY DEF Opened, Database
<1>2. Opening[w].amount \in Nat
  BY InputFacts DEF Amount
<1>3. d.wallet[w].version = 0
  BY DEF WalletExists, Database, WalletRow
<1>4. EntriesOf(d, w) = {}
  <2>1. \A f \in EntriesOf(d, w) : f.version \in FirstVersion(w)..0
    BY <1>3 DEF DbInv, Chained, Chain
  <2>2. FirstVersion(w) \in {1, 2}
    BY DEF FirstVersion
  <2> QED BY <2>1, <2>2
<1>5. OpeningEntry(w) = IF Opening[w].amount = 0 THEN {} ELSE {e}
  BY DEF OpeningEntry
<1>6. e.wallet = w /\ e.tx = w /\ e.version = 1 /\ e.before = 0
        /\ e.after = Opening[w].amount /\ e.amount = e.after /\ e.dir = "CREDIT"
  OBVIOUS
<1>7. row.balance = Opening[w].amount /\ row.version = 1
  OBVIOUS
<1> HIDE DEF e, x, row
<1>8. \A u \in Wallet : Chained(x, u)
  <2> SUFFICES ASSUME NEW u \in Wallet PROVE Chained(x, u)
    OBVIOUS
  <2>1. CASE u = w
    <3>1. EntriesOf(x, u) = OpeningEntry(w) /\ x.wallet[u] = row
      BY <1>1, <1>4, <1>5, <1>6, <2>1 DEF EntriesOf, Database
    <3>2. CASE Opening[w].amount = 0
      <4>1. FirstVersion(w) = 2 /\ OpeningEntry(w) = {}
        BY <1>5, <3>2 DEF FirstVersion
      <4>2. Chain(row, {}, 2)
        BY <1>7, <3>2 DEF Chain
      <4> QED BY <2>1, <3>1, <4>1, <4>2 DEF Chained
    <3>3. CASE Opening[w].amount # 0
      <4>1. FirstVersion(w) = 1 /\ OpeningEntry(w) = {e}
        BY <1>5, <3>3 DEF FirstVersion
      <4>2. Chain(row, {e}, 1)
        BY <1>2, <1>6, <1>7 DEF Chain
      <4> QED BY <2>1, <3>1, <4>1, <4>2 DEF Chained
    <3> QED BY <3>2, <3>3
  <2>2. CASE u # w
    <3>1. EntriesOf(x, u) = EntriesOf(d, u) /\ x.wallet[u] = d.wallet[u]
      BY <1>1, <1>5, <1>6, <2>2 DEF EntriesOf, Database
    <3> QED BY <3>1 DEF DbInv, Chained
  <2> QED BY <2>1, <2>2
<1>9. Owned(x)
  BY <1>1, <1>5, <1>6, ConstantsAssumption DEF DbInv, Owned, Present
<1>10. MovedOnce(x)
  <2>1. \A f \in d.ledger : f.tx # w
    BY <1>4 DEF DbInv, Owned, EntriesOf
  <2> QED BY <1>1, <1>5, <1>6, <2>1 DEF DbInv, MovedOnce
<1> QED BY <1>8, <1>9, <1>10 DEF DbInv, x

=============================================================================
