------------------------------ MODULE RowsProofs ------------------------------
(***************************************************************************)
(* More theorems of Wagering for every value of its constants, on top of   *)
(* the invariant of WageringProofs.                                        *)
(*                                                                         *)
(* First part: what the rows of one operation say of each other.  RowsInv  *)
(* is about one version of the tables and is kept by every effect and by   *)
(* every merge, since it relates rows of one wallet only; it also needs    *)
(* that what is final in the committed tables is final in the current ones *)
(* (RowsAhead), or a worker that deletes the work row of a finished        *)
(* operation would delete one that another session still counts on.        *)
(*                                                                         *)
(* Second part: unique keys.  A key is inserted without a look at what     *)
(* other sessions insert at the same time; the commit finds out.           *)
(*                                                                         *)
(* Third part: reversals.  The reversal slot of a transaction names the    *)
(* one standing reversal of it that the ledger has, if there is one.       *)
(***************************************************************************)
EXTENDS WageringProofs

-----------------------------------------------------------------------------
(* Rows of one operation. *)

Parked(d, r) == d.tx[r].state = "PENDING_REFERENCE" <=> d.work[r].present

\* A processed operation other than LOSS has the entry that its row tells of.
Moving(d, r) ==
  Input[r].kind # "LOSS" /\ d.tx[r].state = "PROCESSED" =>
    \E e \in d.ledger : /\ e.wallet = Input[r].wallet
                        /\ e.tx = r
                        /\ e.after = d.tx[r].balance
                        /\ e.version = d.tx[r].version

EventOf(e, type) == [type |-> type, wallet |-> e.wallet, tx |-> e.tx,
                     balance |-> e.after, version |-> e.version]

\* Every entry has its two events, every balance event its entry.
Told(d) ==
  /\ \A e \in d.ledger : {EventOf(e, "Processed"), EventOf(e, "BalanceChanged")}
                           \subseteq d.outbox
  /\ \A v \in d.outbox : v.type = "BalanceChanged" =>
       \E e \in d.ledger : v = EventOf(e, "BalanceChanged")

RowsInv(d) ==
  /\ \A r \in Request : Parked(d, r) /\ Moving(d, r)
  /\ Told(d)

\* Nothing final or present in d is taken back in x.
RowsGrow(d, x) ==
  \A r \in Request : /\ IsTerminal(d.tx[r].state) => IsTerminal(x.tx[r].state)
                     /\ Present(d, r) => Present(x, r)

RowsAhead == RowsGrow(committed, current)

RInv == RowsInv(committed) /\ RowsInv(current) /\ RowsAhead

\* A merge takes the rows of an operation all from one version.
LEMMA MergeRowsInv ==
  ASSUME NEW d \in Database, NEW e \in Database, NEW ws, RowsInv(d), RowsInv(e)
  PROVE  RowsInv(Merge(d, e, ws))
<1> DEFINE m == Merge(d, e, ws)
<1>1. /\ \A r \in Request : m.tx[r] = IF Input[r].wallet \in ws THEN e.tx[r] ELSE d.tx[r]
      /\ \A r \in Request : m.work[r] = IF Input[r].wallet \in ws THEN e.work[r] ELSE d.work[r]
      /\ m.ledger = {x \in d.ledger : x.wallet \notin ws} \cup {x \in e.ledger : x.wallet \in ws}
      /\ m.outbox = {x \in d.outbox : x.wallet \notin ws} \cup {x \in e.outbox : x.wallet \in ws}
  BY DEF Merge
<1> HIDE DEF m
<1>2. ASSUME NEW r \in Request PROVE Parked(m, r)
  BY <1>1 DEF RowsInv, Parked
<1>3. ASSUME NEW r \in Request PROVE Moving(m, r)
  <2>1. CASE Input[r].wallet \in ws
    BY <1>1, <2>1 DEF RowsInv, Moving
  <2>2. CASE Input[r].wallet \notin ws
    BY <1>1, <2>2 DEF RowsInv, Moving
  <2> QED BY <2>1, <2>2
<1>4. \A x, type : EventOf(x, type).wallet = x.wallet
  BY DEF EventOf
<1>5. ASSUME NEW x \in m.ledger, NEW type \in {"Processed", "BalanceChanged"}
      PROVE  EventOf(x, type) \in m.outbox
  BY <1>1, <1>4, <1>5 DEF RowsInv, Told
<1>6. ASSUME NEW v \in m.outbox, v.type = "BalanceChanged"
      PROVE  \E x \in m.ledger : v = EventOf(x, "BalanceChanged")
  BY <1>1, <1>4, <1>6 DEF RowsInv, Told
<1> QED BY <1>2, <1>3, <1>5, <1>6 DEF RowsInv, Told, m

\* States that do not change take nothing back.
LEMMA RowsGrowReflexive ==
  ASSUME NEW d, NEW x, x.tx = d.tx
  PROVE  RowsGrow(d, x)
BY DEF RowsGrow, Present

-----------------------------------------------------------------------------
(* The effects. *)

\* A verdict that processes an operation other than LOSS moves money.
Moves(v, r) ==
  v.outcome = "PROCESSED" /\ Input[r].kind # "LOSS" => v.dir \in {"CREDIT", "DEBIT"}

\* Every verdict of the program moves money when it processes.
LEMMA VerdictsMove ==
  ASSUME NEW d, NEW row, NEW r \in Request, NEW expired
  PROVE  /\ Moves(applyOperation(d, row, r), r)
         /\ Moves(resumeOne(d, row, r, expired), r)
<1>1. ASSUME NEW code, NEW t PROVE Moves(Reject(code, t), r)
  BY DEF Moves, Reject, Verdict
<1>2. Moves(Park, r) /\ Moves(Error, r)
  BY DEF Moves, Park, Error, Verdict
<1>3. ASSUME NEW t PROVE Moves(CreditVerdict(row, Input[r].amount, t), r)
  <2>1. Moves(Process("CREDIT", t), r)
    BY DEF Moves, Process, Verdict
  <2> QED BY <1>2, <2>1 DEF CreditVerdict
<1>4. ASSUME NEW t, NEW code PROVE Moves(DebitVerdict(row, Input[r].amount, t, code), r)
  <2>1. Moves(Process("DEBIT", t), r)
    BY DEF Moves, Process, Verdict
  <2> QED BY <1>1, <2>1 DEF DebitVerdict
<1>5. ASSUME NEW t PROVE Moves(Judge(d, row, r, t), r)
  <2>1. CASE Input[r].kind = "WIN"
    BY <1>1, <1>3, <2>1 DEF Judge, JudgeWin
  <2>2. CASE Input[r].kind # "WIN"
    BY <1>1, <1>3, <1>4, <2>2 DEF Judge, JudgeReversal
  <2> QED BY <2>1, <2>2
<1>6. Moves(applyWithReference(d, row, r), r)
  BY <1>1, <1>2, <1>5 DEF applyWithReference
<1>7. Moves(applyOperation(d, row, r), r)
  <2>1. CASE Input[r].kind = "BET"
    BY <1>4, <2>1 DEF applyOperation
  <2>2. CASE Input[r].kind = "LOSS"
    BY <2>2 DEF Moves
  <2>3. CASE Input[r].kind = "WIN" /\ Input[r].ref = None
    BY <1>3, <2>3 DEF applyOperation
  <2>4. CASE /\ Input[r].kind \notin {"BET", "LOSS"}
             /\ ~(Input[r].kind = "WIN" /\ Input[r].ref = None)
    BY <1>6, <2>4 DEF applyOperation
  <2> QED BY <2>1, <2>2, <2>3, <2>4
<1> QED BY <1>1, <1>6, <1>7 DEF resumeOne

\* What a processed operation writes, row by row.
LEMMA ProcessedRows ==
  ASSUME NEW d \in Database, NEW row \in WalletRow, NEW r \in Request, NEW v,
         Sound(v, row, r), v.outcome = "PROCESSED"
  PROVE  LET x == processed(d, row, r, v)
             after == Apply(row, v.dir, Input[r].amount)
             e == NewLedgerEntry(r, v.dir, row, after)
         IN /\ \A q \in Request \ {r} : /\ x.tx[q].state = d.tx[q].state
                                        /\ x.tx[q].balance = d.tx[q].balance
                                        /\ x.tx[q].version = d.tx[q].version
            /\ x.tx[r].state = "PROCESSED"
            /\ x.tx[r].balance = after.balance
            /\ x.tx[r].version = after.version
            /\ x.work = d.work
            /\ x.ledger = d.ledger \cup e
            /\ x.outbox = emitProcessed(d, e, after, r)
            /\ x.inbox = d.inbox
<1> DEFINE after == Apply(row, v.dir, Input[r].amount)
           e == NewLedgerEntry(r, v.dir, row, after)
           txs == UpdateState(d, r, "PROCESSED", Ok, after, v.refTx)
           newtx == IF IsReversalKind(Input[r].kind)
                      THEN MarkReversed(d, txs, r, v.refTx) ELSE txs
           x == processed(d, row, r, v)
<1>1. /\ x.tx = newtx
      /\ x.work = d.work
      /\ x.ledger = d.ledger \cup e
      /\ x.outbox = emitProcessed(d, e, after, r)
      /\ x.inbox = d.inbox
  BY DEF processed, Database
<1>2. after \in WalletRow /\ txs \in [Request -> TxRow]
  BY AppliedType, UpdateStateType DEF Sound, VerdictType, TransactionState
<1> HIDE DEF after, e
<1>3. /\ txs[r].state = "PROCESSED"
      /\ txs[r].balance = after.balance
      /\ txs[r].version = after.version
      /\ \A q \in Request \ {r} : txs[q] = d.tx[q]
  BY DEF UpdateState, Database
<1> HIDE DEF txs
<1>4. \A q \in Request : /\ newtx[q].state = txs[q].state
                         /\ newtx[q].balance = txs[q].balance
                         /\ newtx[q].version = txs[q].version
  BY <1>2 DEF MarkReversed, TxRow
<1> HIDE DEF newtx, x
<1> QED BY <1>1, <1>3, <1>4 DEF x, after, e

\* A processed operation keeps all of RowsInv, except that its work row may
\* still be there.
LEMMA ProcessedRowsInv ==
  ASSUME NEW d \in Database, NEW row \in WalletRow, NEW r \in Request, NEW v,
         RowsInv(d), Sound(v, row, r), v.outcome = "PROCESSED", Moves(v, r)
  PROVE  LET x == processed(d, row, r, v)
         IN /\ \A q \in Request : Moving(x, q)
            /\ \A q \in Request \ {r} : Parked(x, q)
            /\ x.tx[r].state = "PROCESSED"
            /\ \A q \in Request \ {r} : x.tx[q].state = d.tx[q].state
            /\ Told(x)
            /\ RowsGrow(d, x)
            /\ x.work = d.work
            /\ x.inbox = d.inbox
<1> DEFINE x == processed(d, row, r, v)
           after == Apply(row, v.dir, Input[r].amount)
           e == NewLedgerEntry(r, v.dir, row, after)
           new == [wallet |-> Input[r].wallet, tx |-> r, dir |-> v.dir,
                   amount |-> Input[r].amount, before |-> row.balance,
                   after |-> after.balance, version |-> after.version]
<1>1. /\ \A q \in Request \ {r} : /\ x.tx[q].state = d.tx[q].state
                                  /\ x.tx[q].balance = d.tx[q].balance
                                  /\ x.tx[q].version = d.tx[q].version
      /\ x.tx[r].state = "PROCESSED"
      /\ x.tx[r].balance = after.balance
      /\ x.tx[r].version = after.version
      /\ x.work = d.work
      /\ x.ledger = d.ledger \cup e
      /\ x.outbox = emitProcessed(d, e, after, r)
      /\ x.inbox = d.inbox
  BY ProcessedRows
<1>2. e = {} \/ e = {new}
  BY DEF NewLedgerEntry
<1>3. Input[r].kind # "LOSS" => e = {new}
  BY DEF Moves, NewLedgerEntry
<1>4. /\ new.wallet = Input[r].wallet
      /\ new.tx = r
      /\ new.after = after.balance
      /\ new.version = after.version
  OBVIOUS
<1>5. x.outbox = d.outbox \cup (IF e = {} THEN {EventOf(new, "Processed")}
                                ELSE {EventOf(new, "Processed"), EventOf(new, "BalanceChanged")})
  BY <1>1 DEF emitProcessed, EventOf
<1> HIDE DEF x, e, new, after
<1>6. ASSUME NEW q \in Request PROVE Moving(x, q)
  <2>1. CASE q = r
    BY <1>1, <1>3, <1>4, <2>1 DEF Moving
  <2>2. CASE q # r
    <3>1. Moving(d, q)
      BY DEF RowsInv
    <3> QED BY <1>1, <2>2, <3>1 DEF Moving
  <2> QED BY <2>1, <2>2
<1>7. ASSUME NEW q \in Request \ {r} PROVE Parked(x, q)
  BY <1>1 DEF RowsInv, Parked
<1>8. Told(x)
  <2>1. EventOf(new, "Processed").type # "BalanceChanged"
    BY DEF EventOf
  <2> QED BY <1>1, <1>2, <1>5, <2>1 DEF RowsInv, Told
<1>9. RowsGrow(d, x)
  BY <1>1 DEF RowsGrow, Present, IsTerminal
<1> QED BY <1>1, <1>6, <1>7, <1>8, <1>9 DEF x

\* The same of a rejected operation.
LEMMA RejectedRowsInv ==
  ASSUME NEW d \in Database, NEW row \in WalletRow, NEW r \in Request, NEW v,
         RowsInv(d)
  PROVE  LET x == rejected(d, row, r, v)
         IN /\ \A q \in Request : Moving(x, q)
            /\ \A q \in Request \ {r} : Parked(x, q)
            /\ x.tx[r].state = "REJECTED"
            /\ \A q \in Request \ {r} : x.tx[q].state = d.tx[q].state
            /\ Told(x)
            /\ RowsGrow(d, x)
            /\ x.work = d.work
            /\ x.inbox = d.inbox
<1> DEFINE x == rejected(d, row, r, v)
           told == [type |-> "Rejected", wallet |-> Input[r].wallet, tx |-> r,
                    balance |-> row.balance, version |-> row.version]
<1>1. /\ x.tx[r].state = "REJECTED"
      /\ \A q \in Request \ {r} : x.tx[q] = d.tx[q]
      /\ x.work = d.work
      /\ x.ledger = d.ledger
      /\ x.inbox = d.inbox
  BY DEF rejected, UpdateState, Database
<1>2. told.type = "Rejected" /\ x.outbox = d.outbox \cup {told}
  BY DEF rejected, emitRejected, Database
<1> HIDE DEF x, told
<1>3. \A q \in Request : Moving(x, q)
  BY <1>1 DEF RowsInv, Moving
<1>4. \A q \in Request \ {r} : Parked(x, q)
  BY <1>1 DEF RowsInv, Parked
<1>5. Told(x)
  BY <1>1, <1>2 DEF RowsInv, Told
<1>6. RowsGrow(d, x)
  BY <1>1 DEF RowsGrow, Present, IsTerminal
<1> QED BY <1>1, <1>3, <1>4, <1>5, <1>6 DEF x

\* An operation that was absent is parked together with its work row.
LEMMA ParkRowsInv ==
  ASSUME NEW d \in Database, NEW row \in WalletRow, NEW r \in Request,
         RowsInv(d), ~Present(d, r)
  PROVE  LET x == parkReference(d, row, r)
         IN /\ RowsInv(x)
            /\ RowsGrow(d, x)
            /\ x.tx[r].state = "PENDING_REFERENCE"
            /\ \A q \in Request \ {r} : x.tx[q].state = d.tx[q].state
            /\ x.inbox = d.inbox
<1> DEFINE x == parkReference(d, row, r)
           told == [type |-> "PendingReference", wallet |-> Input[r].wallet,
                    tx |-> r, balance |-> 0, version |-> row.version]
<1>1. /\ x.tx[r].state = "PENDING_REFERENCE"
      /\ x.work[r].present
      /\ \A q \in Request \ {r} : x.tx[q] = d.tx[q] /\ x.work[q] = d.work[q]
      /\ x.ledger = d.ledger
      /\ x.inbox = d.inbox
  BY DEF parkReference, NoTx, NoWork, Database
<1>2. told.type = "PendingReference" /\ x.outbox = d.outbox \cup {told}
  BY DEF parkReference, emitPendingRef, Database
<1> HIDE DEF x, told
<1>3. ASSUME NEW q \in Request PROVE Moving(x, q) /\ Parked(x, q)
  <2>1. CASE q = r
    BY <1>1, <2>1 DEF Moving, Parked
  <2>2. CASE q # r
    <3>1. Moving(d, q) /\ Parked(d, q)
      BY DEF RowsInv
    <3> QED BY <1>1, <2>2, <3>1 DEF Moving, Parked
  <2> QED BY <2>1, <2>2
<1>4. Told(x)
  BY <1>1, <1>2 DEF RowsInv, Told
<1>5. RowsGrow(d, x)
  BY <1>1 DEF RowsGrow, Present, IsTerminal
<1> QED BY <1>1, <1>3, <1>4, <1>5 DEF x, RowsInv

\* The inbox is no part of RowsInv.
LEMMA InboxRowsInv ==
  ASSUME NEW d \in Database, NEW r \in Request, RowsInv(d)
  PROVE  LET x == InsertInbox(d, r)
         IN /\ RowsInv(x)
            /\ x.tx = d.tx
            /\ \A n \in x.inbox : n \in d.inbox \/ (n.tx = r /\ n.msg = Input[r].msg)
<1> DEFINE x == InsertInbox(d, r)
<1>1. /\ x.tx = d.tx /\ x.work = d.work
      /\ x.ledger = d.ledger /\ x.outbox = d.outbox
  BY DEF InsertInbox, Database
<1>2. x.inbox = d.inbox \/ x.inbox = d.inbox \cup {[msg |-> Input[r].msg, tx |-> r]}
  BY DEF InsertInbox, Database
<1> HIDE DEF x
<1>3. RowsInv(x)
  <2>1. \A q \in Request : Parked(x, q) /\ Moving(x, q)
    BY <1>1 DEF RowsInv, Parked, Moving
  <2>2. Told(x)
    BY <1>1 DEF RowsInv, Told
  <2> QED BY <2>1, <2>2 DEF RowsInv
<1>4. \A n \in x.inbox : n \in d.inbox \/ (n.tx = r /\ n.msg = Input[r].msg)
  BY <1>2
<1> QED BY <1>1, <1>3, <1>4 DEF x

\* The work row of an operation that is not parked can be deleted.
LEMMA DeleteRowsInv ==
  ASSUME NEW d \in Database, NEW r \in Request,
         \A q \in Request : Moving(d, q),
         \A q \in Request \ {r} : Parked(d, q),
         d.tx[r].state # "PENDING_REFERENCE", Told(d)
  PROVE  LET x == DeleteWork(d, r)
         IN RowsInv(x) /\ x.tx = d.tx /\ x.inbox = d.inbox
<1> DEFINE x == DeleteWork(d, r)
<1>1. /\ x.tx = d.tx /\ x.ledger = d.ledger
      /\ x.outbox = d.outbox /\ x.inbox = d.inbox
      /\ \A q \in Request : x.work[q] = IF q = r THEN NoWork ELSE d.work[q]
  BY DEF DeleteWork, Database
<1> HIDE DEF x
<1>2. ASSUME NEW q \in Request PROVE Parked(x, q)
  <2>1. CASE q = r
    BY <1>1, <2>1 DEF Parked, NoWork
  <2>2. CASE q # r
    BY <1>1, <2>2 DEF Parked
  <2> QED BY <2>1, <2>2
<1>3. \A q \in Request : Moving(x, q)
  BY <1>1 DEF Moving
<1>4. Told(x)
  BY <1>1 DEF Told
<1> QED BY <1>1, <1>2, <1>3, <1>4 DEF RowsInv, x

\* Changing a work row that is there keeps RowsInv.
LEMMA TouchRowsInv ==
  ASSUME NEW d \in Database, NEW r \in Request, NEW ref, NEW infra, NEW clear \in BOOLEAN,
         RowsInv(d)
  PROVE  LET x == TouchWork(d, r, ref, infra, clear)
         IN RowsInv(x) /\ x.tx = d.tx /\ x.inbox = d.inbox
<1> DEFINE x == TouchWork(d, r, ref, infra, clear)
<1>1. /\ x.tx = d.tx /\ x.ledger = d.ledger
      /\ x.outbox = d.outbox /\ x.inbox = d.inbox
      /\ \A q \in Request : x.work[q].present <=> d.work[q].present
  BY DEF TouchWork, Database
<1> HIDE DEF x
<1> QED BY <1>1 DEF RowsInv, Parked, Moving, Told, x

\* Leases are no part of RowsInv.
LEMMA LeasedRowsInv ==
  ASSUME NEW d \in Database, NEW rs, NEW leased, RowsInv(d)
  PROVE  LET x == Leased(d, rs, leased)
         IN RowsInv(x) /\ x.tx = d.tx /\ x.inbox = d.inbox
<1> DEFINE x == Leased(d, rs, leased)
<1>1. /\ x.tx = d.tx /\ x.ledger = d.ledger
      /\ x.outbox = d.outbox /\ x.inbox = d.inbox
      /\ \A q \in Request : x.work[q].present <=> d.work[q].present
  BY DEF Leased, Database, WorkRow
<1> HIDE DEF x
<1> QED BY <1>1 DEF RowsInv, Parked, Moving, Told, x

\* An opening tells its own entry.
LEMMA OpenedRowsInv ==
  ASSUME NEW d \in Database, NEW w \in Wallet, RowsInv(d)
  PROVE  LET x == Opened(d, w)
         IN RowsInv(x) /\ x.tx = d.tx /\ x.inbox = d.inbox
<1> DEFINE x == Opened(d, w)
           e == [wallet |-> w, tx |-> w, dir |-> "CREDIT", amount |-> Opening[w].amount,
                 before |-> 0, after |-> Opening[w].amount, version |-> 1]
<1>1. /\ x.tx = d.tx /\ x.work = d.work /\ x.inbox = d.inbox
      /\ x.ledger = d.ledger \cup OpeningEntry(w)
      /\ x.outbox = d.outbox \cup {[type |-> type, wallet |-> w, tx |-> w,
                                    balance |-> Opening[w].amount, version |-> 1] :
                                   type \in IF OpeningEntry(w) = {} THEN {}
                                            ELSE {"Processed", "BalanceChanged"}}
  BY DEF Opened, Database
<1>2. OpeningEntry(w) = {} \/ OpeningEntry(w) = {e}
  BY DEF OpeningEntry
<1>3. \A type : [type |-> type, wallet |-> w, tx |-> w,
                 balance |-> Opening[w].amount, version |-> 1] = EventOf(e, type)
  BY DEF EventOf
<1> HIDE DEF x, e
<1>4. Told(x)
  <2>1. CASE OpeningEntry(w) = {}
    BY <1>1, <2>1 DEF RowsInv, Told
  <2>2. CASE OpeningEntry(w) = {e} /\ OpeningEntry(w) # {}
    <3>1. x.outbox = d.outbox \cup {EventOf(e, "Processed"), EventOf(e, "BalanceChanged")}
      BY <1>1, <1>3, <2>2
    <3>2. EventOf(e, "Processed").type # "BalanceChanged"
      BY DEF EventOf
    <3> QED BY <1>1, <2>2, <3>1, <3>2 DEF RowsInv, Told
  <2> QED BY <1>2, <2>1, <2>2
<1>5. \A q \in Request : Parked(x, q) /\ Moving(x, q)
  BY <1>1 DEF RowsInv, Parked, Moving
<1> QED BY <1>1, <1>4, <1>5 DEF RowsInv, x

\* Only r may have become present.
OnlyNew(d, x, r) ==
  /\ RowsGrow(d, x)
  /\ Present(x, r)
  /\ \A q \in Request \ {r} : Present(x, q) => Present(d, q)

\* What a first submission writes keeps RowsInv and inserts its own row.
LEMMA AcceptRowsInv ==
  ASSUME NEW d \in Database, NEW row \in WalletRow, NEW r \in Request, NEW v,
         RowsInv(d), ~Present(d, r), Sound(v, row, r), Moves(v, r)
  PROVE  LET x == Accept(d, row, r, v)
         IN /\ RowsInv(x)
            /\ OnlyNew(d, x, r)
            /\ \A n \in x.inbox : n \in d.inbox \/ (n.tx = r /\ n.msg = Input[r].msg)
<1> DEFINE y == CASE v.outcome = "PROCESSED" -> processed(d, row, r, v)
                  [] v.outcome = "REJECTED" -> rejected(d, row, r, v)
                  [] OTHER -> parkReference(d, row, r)
<1>1. /\ y \in Database
      /\ RowsInv(y)
      /\ RowsGrow(d, y)
      /\ y.tx[r].state # "ABSENT"
      /\ \A q \in Request \ {r} : y.tx[q].state = d.tx[q].state
      /\ y.inbox = d.inbox
  <2>0. ~d.work[r].present
    BY DEF RowsInv, Parked, Present
  <2>1. CASE v.outcome = "PROCESSED"
    <3> DEFINE x == processed(d, row, r, v)
    <3>1. /\ \A q \in Request : Moving(x, q)
          /\ \A q \in Request \ {r} : Parked(x, q)
          /\ x.tx[r].state = "PROCESSED"
          /\ \A q \in Request \ {r} : x.tx[q].state = d.tx[q].state
          /\ Told(x)
          /\ RowsGrow(d, x)
          /\ x.work = d.work
          /\ x.inbox = d.inbox
      BY <2>1, ProcessedRowsInv
    <3>2. x \in Database /\ y = x
      BY <2>1, ProcessedType
    <3> HIDE DEF x, y
    <3>3. Parked(x, r)
      BY <2>0, <3>1 DEF Parked
    <3> QED BY <3>1, <3>2, <3>3 DEF RowsInv
  <2>2. CASE v.outcome = "REJECTED"
    <3> DEFINE x == rejected(d, row, r, v)
    <3>1. /\ \A q \in Request : Moving(x, q)
          /\ \A q \in Request \ {r} : Parked(x, q)
          /\ x.tx[r].state = "REJECTED"
          /\ \A q \in Request \ {r} : x.tx[q].state = d.tx[q].state
          /\ Told(x)
          /\ RowsGrow(d, x)
          /\ x.work = d.work
          /\ x.inbox = d.inbox
      BY RejectedRowsInv
    <3>2. x \in Database /\ y = x
      BY <2>2, RejectedType
    <3> HIDE DEF x, y
    <3>3. Parked(x, r)
      BY <2>0, <3>1 DEF Parked
    <3> QED BY <3>1, <3>2, <3>3 DEF RowsInv
  <2>3. CASE v.outcome \notin {"PROCESSED", "REJECTED"}
    <3>1. y = parkReference(d, row, r)
      BY <2>3
    <3> HIDE DEF y
    <3> QED BY <3>1, ParkRowsInv, ParkType
  <2> QED BY <2>1, <2>2, <2>3
<1>2. Accept(d, row, r, v) = InsertInbox(y, r)
  BY DEF Accept
<1> HIDE DEF y
<1>3. PICK x : x = InsertInbox(y, r)
  OBVIOUS
<1>4. /\ RowsInv(x)
      /\ x.tx = y.tx
      /\ \A n \in x.inbox : n \in y.inbox \/ (n.tx = r /\ n.msg = Input[r].msg)
  BY <1>1, <1>3, InboxRowsInv
<1>5. OnlyNew(d, x, r)
  BY <1>1, <1>4 DEF OnlyNew, RowsGrow, Present
<1> QED BY <1>1, <1>2, <1>3, <1>4, <1>5

\* What a resume writes keeps RowsInv.
LEMMA SettleRowsInv ==
  ASSUME NEW d \in Database, NEW row \in WalletRow, NEW r \in Request, NEW v,
         RowsInv(d), Present(d, r), Sound(v, row, r), Moves(v, r)
  PROVE  LET x == Settle(d, row, r, v)
         IN RowsInv(x) /\ OnlyNew(d, x, r) /\ x.inbox = d.inbox
<1>1. CASE v.outcome = "PROCESSED"
  <2> DEFINE y == processed(d, row, r, v)
             x == DeleteWork(y, r)
  <2>1. /\ \A q \in Request : Moving(y, q)
        /\ \A q \in Request \ {r} : Parked(y, q)
        /\ y.tx[r].state = "PROCESSED"
        /\ \A q \in Request \ {r} : y.tx[q].state = d.tx[q].state
        /\ Told(y)
        /\ RowsGrow(d, y)
        /\ y.inbox = d.inbox
        /\ y \in Database
    BY <1>1, ProcessedRowsInv, ProcessedType
  <2> HIDE DEF y
  <2>2. RowsInv(x) /\ x.tx = y.tx /\ x.inbox = y.inbox
    BY <2>1, DeleteRowsInv
  <2>3. Settle(d, row, r, v) = x
    BY <1>1 DEF Settle, settleProcessedExisting, y
  <2> HIDE DEF x
  <2>4. OnlyNew(d, x, r)
    BY <2>1, <2>2 DEF OnlyNew, RowsGrow, Present
  <2> QED BY <2>1, <2>2, <2>3, <2>4
<1>2. CASE v.outcome = "REJECTED"
  <2> DEFINE y == rejected(d, row, r, v)
             x == DeleteWork(y, r)
  <2>1. /\ \A q \in Request : Moving(y, q)
        /\ \A q \in Request \ {r} : Parked(y, q)
        /\ y.tx[r].state = "REJECTED"
        /\ \A q \in Request \ {r} : y.tx[q].state = d.tx[q].state
        /\ Told(y)
        /\ RowsGrow(d, y)
        /\ y.inbox = d.inbox
        /\ y \in Database
    BY <1>2, RejectedRowsInv, RejectedType
  <2> HIDE DEF y
  <2>2. RowsInv(x) /\ x.tx = y.tx /\ x.inbox = y.inbox
    BY <2>1, DeleteRowsInv
  <2>3. Settle(d, row, r, v) = x
    BY <1>2 DEF Settle, settleRejectedExisting, y
  <2> HIDE DEF x
  <2>4. OnlyNew(d, x, r)
    BY <2>1, <2>2 DEF OnlyNew, RowsGrow, Present
  <2> QED BY <2>1, <2>2, <2>3, <2>4
<1>3. CASE v.outcome \notin {"PROCESSED", "REJECTED"}
  <2> DEFINE x == TouchWork(d, r, d.work[r].ref + 1, 0, TRUE)
  <2>1. RowsInv(x) /\ x.tx = d.tx /\ x.inbox = d.inbox
    <3>1. PICK n : n = d.work[r].ref + 1
      OBVIOUS
    <3>2. PICK clear \in BOOLEAN : clear
      OBVIOUS
    <3>3. x = TouchWork(d, r, n, 0, clear)
      BY <3>1, <3>2
    <3> HIDE DEF x
    <3> QED BY <3>3, TouchRowsInv
  <2>2. Settle(d, row, r, v) = x
    BY <1>3 DEF Settle
  <2> HIDE DEF x
  <2> QED BY <2>1, <2>2, RowsGrowReflexive DEF OnlyNew, Present
<1> QED BY <1>1, <1>2, <1>3

\* What a failed attempt writes keeps RowsInv.
LEMMA noteInfraRowsInv ==
  ASSUME NEW d \in Database, NEW i \in Item, i.tx \in Request,
         RowsInv(d), Present(d, i.tx)
  PROVE  LET x == noteInfra(d, i)
         IN RowsInv(x) /\ OnlyNew(d, x, i.tx) /\ x.inbox = d.inbox
<1> DEFINE r == i.tx
           row == [d.tx[r] EXCEPT !.state = "FAILED", !.code = "INFRA_EXHAUSTED"]
           y == [d EXCEPT !.tx = [@ EXCEPT ![r] = row]]
           x == DeleteWork(y, r)
           z == TouchWork(d, r, i.ref, i.infra + 1, FALSE)
<1>1. row \in TxRow /\ row.state = "FAILED"
  <2>1. d.tx[r] \in TxRow
    BY DEF Database
  <2> QED BY <2>1 DEF TxRow, TransactionState, FailureCode
<1> HIDE DEF row
<1>2. /\ y \in Database
      /\ y.tx[r].state = "FAILED"
      /\ \A q \in Request \ {r} : y.tx[q] = d.tx[q]
      /\ y.work = d.work /\ y.ledger = d.ledger
      /\ y.outbox = d.outbox /\ y.inbox = d.inbox
  BY <1>1 DEF Database
<1> HIDE DEF y, r
<1>3. r \in Request
  BY DEF r
<1>4. /\ \A q \in Request : Moving(y, q)
      /\ \A q \in Request \ {r} : Parked(y, q)
      /\ Told(y)
  <2>1. \A q \in Request : Moving(y, q)
    BY <1>2 DEF RowsInv, Moving
  <2>2. \A q \in Request \ {r} : Parked(y, q)
    BY <1>2 DEF RowsInv, Parked
  <2>3. Told(y)
    BY <1>2 DEF RowsInv, Told
  <2> QED BY <2>1, <2>2, <2>3
<1>5. RowsInv(x) /\ x.tx = y.tx /\ x.inbox = y.inbox
  BY <1>2, <1>3, <1>4, DeleteRowsInv
<1>6. RowsInv(z) /\ z.tx = d.tx /\ z.inbox = d.inbox
  <2>1. PICK n : n = i.infra + 1
    OBVIOUS
  <2>2. PICK clear \in BOOLEAN : ~clear
    OBVIOUS
  <2>3. z = TouchWork(d, r, i.ref, n, clear)
    BY <2>1, <2>2
  <2> HIDE DEF z
  <2> QED BY <1>3, <2>3, TouchRowsInv
<1>7. noteInfra(d, i) = x \/ noteInfra(d, i) = z
  BY DEF noteInfra, x, y, z, r, row
<1> HIDE DEF x, z
<1>8. OnlyNew(d, x, r)
  BY <1>2, <1>5 DEF OnlyNew, RowsGrow, Present, IsTerminal
<1>9. OnlyNew(d, z, r)
  BY <1>6, RowsGrowReflexive DEF OnlyNew, Present, r
<1> QED BY <1>2, <1>5, <1>6, <1>7, <1>8, <1>9 DEF r

-----------------------------------------------------------------------------
(* The steps keep RInv. *)

\* A rollback puts the committed rows back.
LEMMA RollbackRows ==
  ASSUME IInv, RInv, NEW s, NEW n, Rollback(s, n)
  PROVE  RInv'
<1>1. committed' = committed /\ current' = Merge(current, committed, Held(s))
  BY DEF Rollback
<1>2. RowsInv(current')
  BY <1>1, MergeRowsInv DEF IInv, TablesOK, RInv
<1>3. RowsGrow(committed, current')
  BY <1>1 DEF RInv, RowsAhead, RowsGrow, Merge, Present
<1> QED BY <1>1, <1>2, <1>3 DEF RInv, RowsAhead

\* A commit publishes the rows of whole wallets.
LEMMA CommitRows ==
  ASSUME IInv, RInv, NEW s, Commit(s)
  PROVE  RInv'
<1>1. current' = current /\ committed' = Merge(committed, current, Held(s))
  BY DEF Commit
<1>2. RowsInv(committed')
  BY <1>1, MergeRowsInv DEF IInv, TablesOK, RInv
<1>3. RowsGrow(committed', current)
  BY <1>1 DEF RInv, RowsAhead, RowsGrow, Merge, Present
<1> QED BY <1>1, <1>2, <1>3 DEF RInv, RowsAhead

\* The view of a session keeps RowsInv too, and its rows are the current ones
\* of the wallets it holds.
LEMMA ViewRows ==
  ASSUME IInv, RInv, NEW s
  PROVE  /\ RowsInv(View(s))
         /\ \A r \in Request : Input[r].wallet \in Held(s) => View(s).tx[r] = current.tx[r]
         /\ \A r \in Request : Present(committed, r) => Present(View(s), r)
<1>1. RowsInv(View(s))
  BY MergeRowsInv DEF IInv, TablesOK, RInv, View
<1>2. \A r \in Request : View(s).tx[r] =
        IF Input[r].wallet \in Held(s) THEN current.tx[r] ELSE committed.tx[r]
  BY DEF View, Merge
<1> QED BY <1>1, <1>2 DEF RInv, RowsAhead, RowsGrow, Present

\* The statements of a session.
LEMMA WriteRows ==
  ASSUME IInv, RInv, NEW s, NEW d \in Database, RowsInv(d), RowsGrow(View(s), d),
         Write(s, d), UNCHANGED committed
  PROVE  RInv'
<1>1. current' = Merge(current, d, Held(s))
  BY DEF Write
<1>2. RowsInv(current')
  BY <1>1, MergeRowsInv DEF IInv, TablesOK, RInv
<1>3. RowsGrow(committed, current')
  <2> SUFFICES ASSUME NEW r \in Request
               PROVE  /\ IsTerminal(committed.tx[r].state) => IsTerminal(current'.tx[r].state)
                      /\ Present(committed, r) => Present(current', r)
    BY DEF RowsGrow
  <2>1. current'.tx[r] = IF Input[r].wallet \in Held(s) THEN d.tx[r] ELSE current.tx[r]
    BY <1>1 DEF Merge
  <2>2. /\ IsTerminal(committed.tx[r].state) => IsTerminal(current.tx[r].state)
        /\ Present(committed, r) => Present(current, r)
    BY DEF RInv, RowsAhead, RowsGrow
  <2>3. CASE Input[r].wallet \in Held(s)
    <3>1. View(s).tx[r] = current.tx[r]
      BY <2>3, ViewRows
    <3> QED BY <2>1, <2>2, <2>3, <3>1 DEF RowsGrow, Present
  <2>4. CASE Input[r].wallet \notin Held(s)
    BY <2>1, <2>2, <2>4 DEF Present
  <2> QED BY <2>3, <2>4
<1> QED BY <1>2, <1>3 DEF RInv, RowsAhead

\* Both versions change in rows that RowsAhead does not speak of.
LEMMA BothRows ==
  ASSUME RInv, RowsInv(committed'), RowsInv(current'),
         committed'.tx = committed.tx, current'.tx = current.tx
  PROVE  RInv'
BY DEF RInv, RowsAhead, RowsGrow, Present

\* A first submission finds its own row absent.
LEMMA SubmitView ==
  ASSUME IInv, NEW s \in Session, SubmitApply(s)
  PROVE  ~Present(View(s), sess[s].item.tx)
<1>1. sess[s].pc = "apply" /\ Priors(View(s), sess[s].item.tx) = {}
  BY DEF SubmitApply, Fresh, Submitting
<1>2. sess[s].item.tx \in Request
  BY <1>1, ApplyFacts
<1> QED BY <1>1, <1>2 DEF Priors, FindByProviderKey

\* What SubmitApply does, as the proofs of both parts need it.
LEMMA SubmitRows ==
  ASSUME IInv, RInv, NEW s \in Session, SubmitApply(s)
  PROVE  LET r == sess[s].item.tx
         IN \E x \in Database :
              /\ Write(s, x)
              /\ RowsInv(x)
              /\ OnlyNew(View(s), x, r)
              /\ \A n \in x.inbox : n \in View(s).inbox \/ (n.tx = r /\ n.msg = Input[r].msg)
<1> DEFINE r == sess[s].item.tx
           row == sess[s].wal
           d == View(s)
           v == applyOperation(d, row, r)
           x == Accept(d, row, r, v)
<1>1. sess[s].pc = "apply" /\ Write(s, x)
  BY DEF SubmitApply, Fresh, Submitting
<1>2. r \in Request /\ row \in WalletRow /\ d \in Database
  BY <1>1, ApplyFacts
<1>3. ~Present(d, r) /\ RowsInv(d)
  BY SubmitView, ViewRows
<1> HIDE DEF d, r, row
<1>4. Sound(v, row, r) /\ Moves(v, r)
  BY <1>2, SoundVerdicts, VerdictsMove
<1> HIDE DEF v
<1>5. x \in Database
  BY <1>2, <1>4, AcceptType
<1>6. /\ RowsInv(x)
      /\ OnlyNew(d, x, r)
      /\ \A n \in x.inbox : n \in d.inbox \/ (n.tx = r /\ n.msg = Input[r].msg)
  BY <1>2, <1>3, <1>4, AcceptRowsInv
<1> HIDE DEF x
<1> QED BY <1>1, <1>5, <1>6 DEF d, r

\* The same of the steps that resume an operation with a row.
Resumes(s) == \E expired \in BOOLEAN : ResumeSettle(s, expired) \/ ResumeError(s, expired)

\* What a resume writes, as the proofs of both parts need it.
LEMMA ResumeRows ==
  ASSUME IInv, RInv, NEW s \in Session, Resumes(s),
         Present(committed, sess[s].item.tx)
  PROVE  LET r == sess[s].item.tx
         IN \/ current' = current
            \/ \E x \in Database :
                 /\ Write(s, x)
                 /\ RowsInv(x)
                 /\ OnlyNew(View(s), x, r)
                 /\ x.inbox = View(s).inbox
<1> DEFINE r == sess[s].item.tx
           row == sess[s].wal
           d == View(s)
<1>1. PICK expired \in BOOLEAN : ResumeSettle(s, expired) \/ ResumeError(s, expired)
  BY DEF Resumes
<1>2. sess[s].pc = "apply"
  BY <1>1 DEF ResumeSettle, ResumeError, Resuming
<1>3. /\ r \in Request /\ row \in WalletRow /\ d \in Database
      /\ sess[s].item \in Item
  BY <1>2, ApplyFacts
<1>4. Present(d, r) /\ RowsInv(d)
  BY <1>3, ViewRows
<1>5. CASE ResumeSettle(s, expired)
  <2> DEFINE v == resumeOne(d, row, r, expired)
             x == Settle(d, row, r, v)
  <2>1. Write(s, x)
    BY <1>5 DEF ResumeSettle
  <2> HIDE DEF d, r, row
  <2>2. Sound(v, row, r) /\ Moves(v, r)
    BY <1>3, SoundVerdicts, VerdictsMove
  <2> HIDE DEF v
  <2>3. x \in Database
    BY <1>3, <2>2, SettleType
  <2>4. RowsInv(x) /\ OnlyNew(d, x, r) /\ x.inbox = d.inbox
    BY <1>3, <1>4, <2>2, SettleRowsInv
  <2> HIDE DEF x
  <2> QED BY <2>1, <2>3, <2>4 DEF d, r
<1>6. CASE ResumeError(s, expired)
  <2> DEFINE i == sess[s].item
             x == noteInfra(d, i)
  <2>1. Write(s, x) \/ current' = current
    BY <1>6 DEF ResumeError
  <2>2. i.tx = r
    OBVIOUS
  <2> HIDE DEF d, r, i
  <2>3. x \in Database
    BY <1>3, <2>2, noteInfraType DEF i
  <2>4. RowsInv(x) /\ OnlyNew(d, x, r) /\ x.inbox = d.inbox
    BY <1>3, <1>4, <2>2, noteInfraRowsInv DEF i
  <2> HIDE DEF x
  <2> QED BY <2>1, <2>3, <2>4 DEF d, r
<1> QED BY <1>1, <1>5, <1>6

-----------------------------------------------------------------------------
(* Unique keys. *)

Uncommitted(r) == Present(current, r) /\ ~Present(committed, r)

\* The session that has inserted r is about to commit, and has inserted
\* nothing else.
UnderWay(r) ==
  LET s == lock[Input[r].wallet]
  IN s \in Session /\ sess[s].pc = "commit" /\ sess[s].item.tx = r

\* What a session resumes, or is going to, is committed.
ResumesCommitted(n) ==
  /\ n.op \in {"cascade", "work"} /\ n.pc \in {"lock", "apply"} =>
       Present(committed, n.item.tx)
  /\ \A i \in n.todo : Present(committed, i.tx)

KeysInv ==
  /\ OneOperationPerKey
  /\ InboxOfAccepted
  /\ \A r \in Request : Uncommitted(r) => UnderWay(r)
  /\ \A n \in current.inbox :
       n \in committed.inbox \/ (Uncommitted(n.tx) /\ n.msg = Input[n.tx].msg)
  /\ \A s \in Session : ResumesCommitted(sess[s])

RowsKeysInv == RInv /\ KeysInv

\* A step that inserts nothing and commits nothing.
LEMMA SameKeys ==
  ASSUME KeysInv,
         committed'.tx = committed.tx, committed'.inbox = committed.inbox,
         current'.tx = current.tx, current'.inbox = current.inbox,
         \A r \in Request : UnderWay(r) => UnderWay(r)',
         \A s \in Session : ResumesCommitted(sess[s])'
  PROVE  KeysInv'
<1>1. OneOperationPerKey'
  BY DEF KeysInv, OneOperationPerKey, Present
<1>2. InboxOfAccepted'
  BY DEF KeysInv, InboxOfAccepted, Present
<1>3. \A r : Uncommitted(r)' <=> Uncommitted(r)
  BY DEF Uncommitted, Present
<1>4. \A n \in current'.inbox :
        n \in committed'.inbox \/ (Uncommitted(n.tx)' /\ n.msg = Input[n.tx].msg)
  BY <1>3 DEF KeysInv
<1> QED BY <1>1, <1>2, <1>3, <1>4 DEF KeysInv

\* What one session does before it has inserted anything is no one's concern.
LEMMA OneSession ==
  ASSUME IInv, KeysInv, NEW s \in Session, NEW n,
         sess' = [sess EXCEPT ![s] = n],
         sess[s].pc # "commit", ResumesCommitted(n),
         \A w \in Wallet : lock'[w] = lock[w] \/ lock[w] \in {None, s},
         committed'.tx = committed.tx
  PROVE  /\ \A r \in Request : UnderWay(r) => UnderWay(r)'
         /\ \A t \in Session : ResumesCommitted(sess[t])'
<1>1. \A t \in Session : sess'[t] = IF t = s THEN n ELSE sess[t]
  BY DEF IInv
<1>2. ASSUME NEW r \in Request, UnderWay(r) PROVE UnderWay(r)'
  <2>1. PICK t \in Session : lock[Input[r].wallet] = t
    BY <1>2 DEF UnderWay
  <2>2. sess[t].pc = "commit" /\ sess[t].item.tx = r
    BY <1>2, <2>1 DEF UnderWay
  <2>3. t # s /\ t # None /\ Input[r].wallet \in Wallet
    BY <2>2, ConstantsAssumption, InputFacts
  <2>4. lock'[Input[r].wallet] = t /\ sess'[t] = sess[t]
    BY <1>1, <2>1, <2>3
  <2> QED BY <2>2, <2>4 DEF UnderWay
<1>3. ASSUME NEW t \in Session PROVE ResumesCommitted(sess[t])'
  <2>1. ResumesCommitted(sess'[t])
    BY <1>1 DEF KeysInv
  <2> QED BY <2>1 DEF ResumesCommitted, Present
<1> QED BY <1>2, <1>3

\* Where sessions go.
LEMMA ResumesNothing ==
  /\ ResumesCommitted(Idle)
  /\ \A i \in Item : /\ ResumesCommitted([Idle EXCEPT !.pc = "find", !.op = "cascade", !.item = i])
                     /\ ResumesCommitted([Idle EXCEPT !.pc = "lock", !.op = "submit", !.item = i])
BY DEF ResumesCommitted, Idle

\* A session goes on with operations that are committed.
LEMMA ResumesNext ==
  ASSUME NEW op, NEW todo, \A i \in todo : Present(committed, i.tx)
  PROVE  ResumesCommitted([Idle EXCEPT !.pc = "next", !.op = op, !.todo = todo])
BY DEF ResumesCommitted, Idle

\* After its transaction or a resume a session goes on with what it had.
LEMMA ResumesAfter ==
  ASSUME IInv, KeysInv, NEW s \in Session
  PROVE  /\ ResumesCommitted(AfterTx(s))
         /\ ResumesCommitted(AfterResume(s))
         /\ ResumesCommitted(Goto(s, "commit"))
<1>1. \A i \in sess[s].todo : Present(committed, i.tx)
  BY DEF KeysInv, ResumesCommitted
<1>2. Goto(s, "commit").pc = "commit" /\ Goto(s, "commit").todo = sess[s].todo
  BY DEF Goto, IInv, SessionState
<1>3. ResumesCommitted(Goto(s, "commit"))
  BY <1>1, <1>2 DEF ResumesCommitted
<1> QED BY <1>1, <1>3, ResumesNothing, ResumesNext DEF AfterTx, AfterResume

\* A rollback takes its insertion back.
LEMMA RollbackKeys ==
  ASSUME IInv, KeysInv, NEW s \in Session, NEW n,
         Rollback(s, n), ResumesCommitted(n)
  PROVE  KeysInv'
<1>1. /\ committed' = committed
      /\ current' = Merge(current, committed, Held(s))
      /\ lock' = Release(s)
      /\ sess' = [sess EXCEPT ![s] = n]
  BY DEF Rollback
<1>2. OneOperationPerKey' /\ InboxOfAccepted'
  BY <1>1 DEF KeysInv, OneOperationPerKey, InboxOfAccepted, Present
<1>3. \A r \in Request :
        Uncommitted(r)' <=> Uncommitted(r) /\ Input[r].wallet \notin Held(s)
  BY <1>1 DEF Uncommitted, Present, Merge
<1>4. ASSUME NEW r \in Request, Uncommitted(r)' PROVE UnderWay(r)'
  <2>1. UnderWay(r) /\ Input[r].wallet \in Wallet /\ Input[r].wallet \notin Held(s)
    BY <1>3, <1>4, InputFacts DEF KeysInv
  <2>2. PICK t \in Session : lock[Input[r].wallet] = t
    BY <2>1 DEF UnderWay
  <2>3. t # s /\ lock'[Input[r].wallet] = t /\ sess'[t] = sess[t]
    BY <1>1, <2>1, <2>2 DEF Held, Release, IInv
  <2> QED BY <2>1, <2>2, <2>3 DEF UnderWay
<1>5. ASSUME NEW x \in current'.inbox
      PROVE  x \in committed'.inbox \/ (Uncommitted(x.tx)' /\ x.msg = Input[x.tx].msg)
  <2>1. \/ x \in current.inbox /\ Input[x.tx].wallet \notin Held(s)
        \/ x \in committed.inbox
    BY <1>1, <1>5 DEF Merge
  <2>2. CASE x \in committed.inbox
    BY <1>1, <2>2
  <2>3. CASE x \in current.inbox /\ Input[x.tx].wallet \notin Held(s)
    <3>1. x.tx \in Request
      BY <2>3 DEF IInv, TablesOK, Database, InboxRow
    <3>2. x \in committed.inbox \/ (Uncommitted(x.tx) /\ x.msg = Input[x.tx].msg)
      BY <2>3 DEF KeysInv
    <3> QED BY <1>1, <1>3, <2>3, <3>1, <3>2
  <2> QED BY <2>1, <2>2, <2>3
<1>6. ASSUME NEW t \in Session PROVE ResumesCommitted(sess[t])'
  <2>1. ResumesCommitted(sess'[t])
    BY <1>1 DEF KeysInv, IInv
  <2> QED BY <1>1, <2>1 DEF ResumesCommitted, Present
<1> QED BY <1>2, <1>4, <1>5, <1>6 DEF KeysInv

\* A commit publishes at most one new operation, whose keys no committed
\* operation has.
LEMMA CommitKeys ==
  ASSUME IInv, RowsKeysInv, NEW s \in Session, Commit(s)
  PROVE  KeysInv'
<1>1. /\ committed' = Merge(committed, current, Held(s))
      /\ current' = current
      /\ lock' = Release(s)
      /\ sess' = [sess EXCEPT ![s] = AfterCommit(s)]
      /\ sess[s].pc = "commit"
      /\ ~UniqueViolation(s)
  BY DEF Commit
<1> DEFINE r0 == sess[s].item.tx
<1>2. r0 \in Request
  BY <1>1 DEF IInv, SessionOK
<1>3. /\ \A r \in Request : Input[r].wallet \in Held(s) => committed'.tx[r] = current.tx[r]
      /\ \A r \in Request : Input[r].wallet \notin Held(s) => committed'.tx[r] = committed.tx[r]
  BY <1>1 DEF Merge
<1>4. \A r \in Request : Present(committed, r) => Present(current, r) /\ Present(committed', r)
  BY <1>3 DEF RowsKeysInv, RInv, RowsAhead, RowsGrow, Present
<1>5. ASSUME NEW r \in Request, Input[r].wallet \in Held(s), Uncommitted(r)
      PROVE  r = r0 /\ r \in Inserted(s)
  <2>1. UnderWay(r)
    BY <1>5 DEF RowsKeysInv, KeysInv
  <2> QED BY <1>5, <2>1 DEF UnderWay, Held, Inserted, Uncommitted
<1>6. ASSUME NEW r \in Request, r \in Inserted(s)
      PROVE  /\ Priors(committed, r) = {}
             /\ \A x \in committed.inbox : x.msg # Input[r].msg
  BY <1>1, <1>6 DEF UniqueViolation
<1> HIDE DEF r0
<1>7. ASSUME NEW r \in Request, Present(committed', r)
      PROVE  Present(committed, r) \/ (r = r0 /\ r \in Inserted(s))
  BY <1>3, <1>5, <1>7 DEF Present, Uncommitted
<1>8. ASSUME NEW r \in Inserted(s), NEW q \in Request, Present(committed, q),
             Input[r].provider = Input[q].provider
      PROVE  Input[r].key # Input[q].key /\ Input[r].ext # Input[q].ext
  <2>1. r \in Request
    BY DEF Inserted
  <2>2. q \notin Priors(committed, r)
    BY <1>6, <2>1
  <2> QED BY <1>8, <2>2 DEF Priors, FindByProviderKey, FindByProviderExternal
<1>9. OneOperationPerKey'
  <2> SUFFICES ASSUME NEW r \in Request, NEW q \in Request, r # q,
                      Present(committed', r), Present(committed', q),
                      Input[r].provider = Input[q].provider
               PROVE  Input[r].key # Input[q].key /\ Input[r].ext # Input[q].ext
    BY DEF OneOperationPerKey
  <2>1. CASE Present(committed, r) /\ Present(committed, q)
    BY <2>1 DEF RowsKeysInv, KeysInv, OneOperationPerKey
  <2>2. CASE r \in Inserted(s) /\ Present(committed, q)
    BY <1>8, <2>2
  <2>3. CASE q \in Inserted(s) /\ Present(committed, r)
    BY <1>8, <2>3
  <2> QED BY <1>7, <2>1, <2>2, <2>3
<1>10. ASSUME NEW x \in committed'.inbox
       PROVE  \/ x \in committed.inbox
              \/ x.tx = r0 /\ x.tx \in Inserted(s) /\ x.msg = Input[r0].msg
  <2>1. \/ x \in committed.inbox
        \/ x \in current.inbox /\ Input[x.tx].wallet \in Held(s)
    BY <1>1, <1>10 DEF Merge
  <2>2. CASE x \in current.inbox /\ Input[x.tx].wallet \in Held(s)
    <3>1. x.tx \in Request
      BY <2>2 DEF IInv, TablesOK, Database, InboxRow
    <3>2. x \in committed.inbox \/ (Uncommitted(x.tx) /\ x.msg = Input[x.tx].msg)
      BY <2>2 DEF RowsKeysInv, KeysInv
    <3> QED BY <1>5, <2>2, <3>1, <3>2
  <2> QED BY <2>1, <2>2
<1>11. InboxOfAccepted'
  <2>1. ASSUME NEW x \in committed'.inbox PROVE Present(committed', x.tx)
    <3>1. CASE x \in committed.inbox
      <4>1. Present(committed, x.tx) /\ x.tx \in Request
        BY <3>1 DEF RowsKeysInv, KeysInv, InboxOfAccepted, IInv, TablesOK, Database, InboxRow
      <4> QED BY <1>4, <4>1
    <3>2. CASE x.tx \in Inserted(s)
      BY <1>3, <3>2 DEF Inserted, Present
    <3> QED BY <1>10, <3>1, <3>2
  <2>2. ASSUME NEW x \in committed'.inbox, NEW y \in committed'.inbox, y.msg = x.msg
        PROVE  y = x
    <3>1. CASE x \in committed.inbox /\ y \in committed.inbox
      BY <2>2, <3>1 DEF RowsKeysInv, KeysInv, InboxOfAccepted
    <3>2. CASE x.tx = r0 /\ y.tx = r0
      <4>1. x \in InboxRow /\ y \in InboxRow
        <5>1. committed' \in Database
          BY CommitStep DEF IInv, TablesOK
        <5> QED BY <5>1 DEF Database
      <4> QED BY <2>2, <3>2, <4>1 DEF InboxRow
    <3>3. CASE x \in committed.inbox /\ r0 \in Inserted(s) /\ y.msg = Input[r0].msg
      BY <1>2, <1>6, <2>2, <3>3
    <3>4. CASE y \in committed.inbox /\ r0 \in Inserted(s) /\ x.msg = Input[r0].msg
      BY <1>2, <1>6, <2>2, <3>4
    <3> QED BY <1>10, <3>1, <3>2, <3>3, <3>4
  <2> QED BY <2>1, <2>2 DEF InboxOfAccepted
<1>12. \A r \in Request :
         Uncommitted(r)' <=> Uncommitted(r) /\ Input[r].wallet \notin Held(s)
  BY <1>1, <1>3 DEF Uncommitted, Present
<1>13. ASSUME NEW r \in Request, Uncommitted(r)' PROVE UnderWay(r)'
  <2>1. UnderWay(r) /\ Input[r].wallet \in Wallet /\ Input[r].wallet \notin Held(s)
    BY <1>12, <1>13, InputFacts DEF RowsKeysInv, KeysInv
  <2>2. PICK t \in Session : lock[Input[r].wallet] = t
    BY <2>1 DEF UnderWay
  <2>3. t # s /\ lock'[Input[r].wallet] = t /\ sess'[t] = sess[t]
    BY <1>1, <2>1, <2>2 DEF Held, Release, IInv
  <2> QED BY <2>1, <2>2, <2>3 DEF UnderWay
<1>14. ASSUME NEW x \in current'.inbox
       PROVE  x \in committed'.inbox \/ (Uncommitted(x.tx)' /\ x.msg = Input[x.tx].msg)
  <2>1. x \in current.inbox /\ x.tx \in Request
    BY <1>1, <1>14 DEF IInv, TablesOK, Database, InboxRow
  <2>2. x \in committed.inbox \/ (Uncommitted(x.tx) /\ x.msg = Input[x.tx].msg)
    BY <2>1 DEF RowsKeysInv, KeysInv
  <2>3. CASE Input[x.tx].wallet \in Held(s)
    BY <1>1, <2>1, <2>3 DEF Merge
  <2>4. CASE Input[x.tx].wallet \notin Held(s)
    <3>1. x \in committed.inbox => x \in committed'.inbox
      BY <1>1, <2>4 DEF Merge
    <3> QED BY <1>12, <2>1, <2>2, <2>4, <3>1
  <2> QED BY <2>3, <2>4
<1>15. ASSUME NEW t \in Session PROVE ResumesCommitted(sess[t])'
  <2>1. ResumesCommitted(AfterCommit(s))
    <3>1. sess[s].item \in Item
      BY DEF IInv, SessionState
    <3> QED BY <3>1, ResumesAfter, ResumesNothing DEF AfterCommit, RowsKeysInv
  <2>2. ResumesCommitted(sess'[t])
    BY <1>1, <2>1 DEF RowsKeysInv, KeysInv, IInv
  <2>3. SessionOK(sess'[t])
    BY <1>1, CommitStep DEF IInv
  <2> QED BY <1>4, <2>2, <2>3 DEF ResumesCommitted, SessionOK
<1> QED BY <1>9, <1>11, <1>13, <1>14, <1>15 DEF KeysInv

\* The statements of a session insert at most the operation it submits.
LEMMA WriteKeys ==
  ASSUME IInv, RowsKeysInv, NEW s \in Session, NEW n, NEW r, NEW x \in Database,
         sess[s].pc = "apply", r = sess[s].item.tx,
         Write(s, x), OnlyNew(View(s), x, r),
         \A m \in x.inbox : \/ m \in View(s).inbox
                            \/ m.tx = r /\ m.msg = Input[r].msg /\ ~Present(View(s), r),
         Present(committed, r) \/ (n.pc = "commit" /\ n.item.tx = r),
         ResumesCommitted(n), sess' = [sess EXCEPT ![s] = n],
         UNCHANGED <<committed, lock>>
  PROVE  KeysInv'
<1>1. current' = Merge(current, x, Held(s))
  BY DEF Write
<1>2. r \in Request /\ Input[r].wallet \in Held(s)
  <2>1. r \in Request /\ Reserved(s)
    BY ApplyFacts DEF IInv, LockOK
  <2> QED BY <2>1, InputFacts DEF Reserved, WalletOf, Held
<1>3. ASSUME NEW q \in Request, Input[q].wallet \in Held(s)
      PROVE  /\ ~Uncommitted(q)
             /\ View(s).tx[q] = current.tx[q]
             /\ current'.tx[q] = x.tx[q]
  <2>1. ~Uncommitted(q)
    BY <1>3 DEF RowsKeysInv, KeysInv, UnderWay, Held
  <2> QED BY <1>1, <1>3, <2>1 DEF View, Merge
<1>4. ASSUME NEW q \in Request, Input[q].wallet \notin Held(s)
      PROVE  Uncommitted(q)' <=> Uncommitted(q)
  BY <1>1, <1>4 DEF Uncommitted, Present, Merge
<1>5. OneOperationPerKey' /\ InboxOfAccepted'
  BY DEF RowsKeysInv, KeysInv, OneOperationPerKey, InboxOfAccepted, Present
<1>6. ASSUME NEW q \in Request, Uncommitted(q)' PROVE UnderWay(q)'
  <2>1. CASE Input[q].wallet \in Held(s)
    <3>1. Present(x, q) /\ ~Present(committed, q)
      BY <1>3, <1>6, <2>1 DEF Uncommitted, Present
    <3>2. q = r
      <4>1. q # r => Present(current, q)
        BY <1>3, <2>1, <3>1 DEF OnlyNew, Present
      <4> QED BY <1>3, <2>1, <3>1, <4>1 DEF Uncommitted
    <3>3. n.pc = "commit" /\ n.item.tx = r /\ lock'[Input[r].wallet] = s
      BY <1>2, <3>1, <3>2 DEF Held
    <3> QED BY <3>2, <3>3 DEF UnderWay, IInv
  <2>2. CASE Input[q].wallet \notin Held(s)
    <3>1. UnderWay(q) /\ Input[q].wallet \in Wallet
      BY <1>4, <1>6, <2>2, InputFacts DEF RowsKeysInv, KeysInv
    <3>2. PICK t \in Session : lock[Input[q].wallet] = t
      BY <3>1 DEF UnderWay
    <3>3. t # s /\ sess'[t] = sess[t]
      BY <2>2, <3>1, <3>2 DEF Held, IInv
    <3> QED BY <3>1, <3>2, <3>3 DEF UnderWay
  <2> QED BY <2>1, <2>2
<1>7. ASSUME NEW m \in current'.inbox
      PROVE  m \in committed'.inbox \/ (Uncommitted(m.tx)' /\ m.msg = Input[m.tx].msg)
  <2>1. m.tx \in Request
    <3>1. m \in current.inbox \/ m \in x.inbox
      BY <1>1, <1>7 DEF Merge
    <3> QED BY <3>1 DEF IInv, TablesOK, Database, InboxRow
  <2>2. CASE m \in current.inbox
    <3>1. m \in committed.inbox \/ (Uncommitted(m.tx) /\ m.msg = Input[m.tx].msg)
      BY <2>2 DEF RowsKeysInv, KeysInv
    <3> QED BY <1>3, <1>4, <2>1, <3>1
  <2>3. CASE m \notin current.inbox
    <3>1. m \in x.inbox /\ Input[m.tx].wallet \in Held(s)
      BY <1>1, <1>7, <2>3 DEF Merge
    <3>2. m \notin View(s).inbox
      BY <2>3, <3>1 DEF View, Merge
    <3>3. m.tx = r /\ m.msg = Input[r].msg /\ ~Present(View(s), r)
      BY <3>1, <3>2
    <3>4. ~Present(committed, r)
      BY <1>2, <3>3, ViewRows DEF RowsKeysInv
    <3>5. Present(current', r)
      BY <1>2, <1>3 DEF OnlyNew, Present
    <3> QED BY <3>3, <3>4, <3>5 DEF Uncommitted, Present
  <2> QED BY <2>2, <2>3
<1>8. ASSUME NEW t \in Session PROVE ResumesCommitted(sess[t])'
  <2>1. ResumesCommitted(sess'[t])
    BY DEF RowsKeysInv, KeysInv, IInv
  <2> QED BY <2>1 DEF ResumesCommitted, Present
<1> QED BY <1>5, <1>6, <1>7, <1>8 DEF KeysInv

-----------------------------------------------------------------------------
(* The actions. *)

\* Steps that change no table.
LEMMA LocalRows ==
  ASSUME IInv, RowsKeysInv, NEW s \in Session, NEW n,
         sess' = [sess EXCEPT ![s] = n],
         sess[s].pc # "commit", ResumesCommitted(n),
         \A w \in Wallet : lock'[w] = lock[w] \/ lock[w] \in {None, s},
         UNCHANGED <<committed, current>>
  PROVE  RowsKeysInv'
<1>1. RInv'
  BY BothRows DEF RowsKeysInv, RInv
<1>2. KeysInv'
  BY OneSession, SameKeys DEF RowsKeysInv
<1> QED BY <1>1, <1>2 DEF RowsKeysInv

\* Every step that keeps nothing of its transaction.
LEMMA AbortRows ==
  ASSUME IInv, RowsKeysInv, NEW s \in Session,
         Rollback(s, Idle) \/ Rollback(s, AfterTx(s))
  PROVE  RowsKeysInv'
BY RollbackRows, RollbackKeys, ResumesNothing, ResumesAfter DEF RowsKeysInv

\* A first submission inserts its own row only.
LEMMA SubmitApplyRows ==
  ASSUME IInv, RowsKeysInv, NEW s \in Session, SubmitApply(s)
  PROVE  RowsKeysInv'
<1> DEFINE r == sess[s].item.tx
<1>1. PICK x \in Database :
        /\ Write(s, x)
        /\ RowsInv(x)
        /\ OnlyNew(View(s), x, r)
        /\ \A n \in x.inbox : n \in View(s).inbox \/ (n.tx = r /\ n.msg = Input[r].msg)
  BY SubmitRows DEF RowsKeysInv
<1>2. /\ sess[s].pc = "apply"
      /\ sess' = [sess EXCEPT ![s] = Goto(s, "commit")]
      /\ UNCHANGED <<committed, lock>>
  BY DEF SubmitApply, Fresh, Submitting
<1>3. ~Present(View(s), r)
  BY SubmitView
<1>4. Goto(s, "commit").pc = "commit" /\ Goto(s, "commit").item.tx = r
  BY DEF Goto, IInv, SessionState
<1>5. RInv'
  BY <1>1, <1>2, WriteRows DEF RowsKeysInv, OnlyNew
<1>6. KeysInv'
  BY <1>1, <1>2, <1>3, <1>4, WriteKeys, ResumesAfter DEF RowsKeysInv
<1> QED BY <1>5, <1>6 DEF RowsKeysInv

\* A resume changes rows that are committed.
LEMMA ResumesRows ==
  ASSUME IInv, RowsKeysInv, NEW s \in Session, Resumes(s)
  PROVE  RowsKeysInv'
<1> DEFINE r == sess[s].item.tx
<1>1. /\ sess[s].pc = "apply"
      /\ sess[s].op \in {"cascade", "work"}
      /\ sess' = [sess EXCEPT ![s] = AfterResume(s)]
      /\ UNCHANGED <<committed, lock>>
  BY DEF Resumes, ResumeSettle, ResumeError, Resuming
<1>2. Present(committed, r)
  BY <1>1 DEF RowsKeysInv, KeysInv, ResumesCommitted
<1>3. ResumesCommitted(AfterResume(s))
  BY ResumesAfter DEF RowsKeysInv
<1>4. CASE current' = current
  BY <1>1, <1>3, <1>4, LocalRows
<1>5. ASSUME NEW x \in Database, Write(s, x), RowsInv(x), OnlyNew(View(s), x, r),
             x.inbox = View(s).inbox
      PROVE  RowsKeysInv'
  <2>1. RInv'
    BY <1>1, <1>5, WriteRows DEF RowsKeysInv, OnlyNew
  <2>2. KeysInv'
    BY <1>1, <1>2, <1>3, <1>5, WriteKeys
  <2> QED BY <2>1, <2>2 DEF RowsKeysInv
<1> QED BY <1>2, <1>4, <1>5, ResumeRows DEF RowsKeysInv

\* Locking a wallet row and reading it.
LEMMA LockRows ==
  ASSUME IInv, RowsKeysInv, NEW s \in Session, LockForUpdate(s)
  PROVE  RowsKeysInv'
<1> DEFINE n == [sess[s] EXCEPT !.pc = "apply", !.wal = View(s).wallet[WalletOf(s)]]
<1>1. /\ sess[s].pc = "lock"
      /\ lock[WalletOf(s)] \in {None, s}
      /\ lock' = [lock EXCEPT ![WalletOf(s)] = s]
      /\ sess' = [sess EXCEPT ![s] = n]
      /\ UNCHANGED <<committed, current>>
  BY DEF LockForUpdate, LockFree, IInv
<1>2. /\ n.op = sess[s].op /\ n.item = sess[s].item /\ n.todo = sess[s].todo
  BY DEF IInv, SessionState
<1> HIDE DEF n
<1>3. ResumesCommitted(n)
  BY <1>1, <1>2 DEF RowsKeysInv, KeysInv, ResumesCommitted
<1>4. \A w \in Wallet : lock'[w] = lock[w] \/ lock[w] \in {None, s}
  BY <1>1 DEF IInv
<1> QED BY <1>1, <1>3, <1>4, LocalRows

\* A request comes in.
LEMMA BeginRows ==
  ASSUME IInv, RowsKeysInv, NEW s \in Session, NEW r \in Request, SubmitBegin(s, r)
  PROVE  RowsKeysInv'
<1> DEFINE n == [Idle EXCEPT !.pc = "lock", !.op = "submit", !.item = ItemOf(r)]
<1>1. /\ sess[s].pc = "idle"
      /\ sess' = [sess EXCEPT ![s] = n]
      /\ UNCHANGED <<committed, current, lock>>
  BY DEF SubmitBegin
<1>2. ResumesCommitted(n)
  BY ItemOfType, ResumesNothing
<1> HIDE DEF n
<1> QED BY <1>1, <1>2, LocalRows

\* The wallet of a request does not exist.
LEMMA NoWalletRows ==
  ASSUME IInv, RowsKeysInv, NEW s \in Session, SubmitNoWallet(s)
  PROVE  RowsKeysInv'
<1>1. /\ sess[s].pc = "lock"
      /\ sess' = [sess EXCEPT ![s] = Idle]
      /\ UNCHANGED <<committed, current, lock>>
  BY DEF SubmitNoWallet
<1> QED BY <1>1, ResumesNothing, LocalRows

\* The dependents that a cascade finds are committed.
LEMMA CascadeFindRows ==
  ASSUME IInv, RowsKeysInv, NEW s \in Session, CascadeFind(s)
  PROVE  RowsKeysInv'
<1> DEFINE deps == {q \in FindDependents(committed, sess[s].item.tx) :
                      committed.tx[q].state = "PENDING_REFERENCE"}
           todo == {ItemOf(q) : q \in deps}
           n == IF deps = {} THEN Idle
                ELSE [Idle EXCEPT !.pc = "next", !.op = "cascade", !.todo = todo]
<1>1. /\ sess[s].pc = "find"
      /\ sess' = [sess EXCEPT ![s] = n]
      /\ UNCHANGED <<committed, current, lock>>
  BY DEF CascadeFind
<1>2. \A i \in todo : Present(committed, i.tx)
  BY DEF FindDependents, ItemOf
<1> HIDE DEF todo, deps
<1>3. ResumesCommitted(n)
  BY <1>2, ResumesNothing, ResumesNext
<1> HIDE DEF n
<1> QED BY <1>1, <1>3, LocalRows

\* A cascade takes one of the dependents it has found.
LEMMA CascadeNextRows ==
  ASSUME IInv, RowsKeysInv, NEW s \in Session, CascadeNext(s)
  PROVE  RowsKeysInv'
<1>1. /\ sess[s].pc = "next"
      /\ UNCHANGED <<committed, current, lock>>
  BY DEF CascadeNext
<1>2. PICK i \in sess[s].todo :
        sess' = [sess EXCEPT ![s] = [@ EXCEPT !.pc = "lock", !.item = i,
                                              !.todo = sess[s].todo \ {i}]]
  BY DEF CascadeNext
<1> DEFINE n == [sess[s] EXCEPT !.pc = "lock", !.item = i, !.todo = sess[s].todo \ {i}]
<1>3. sess' = [sess EXCEPT ![s] = n]
  BY <1>2 DEF IInv
<1>4. n.item = i /\ n.todo = sess[s].todo \ {i}
  BY DEF IInv, SessionState
<1> HIDE DEF n
<1>5. ResumesCommitted(n)
  BY <1>4 DEF RowsKeysInv, KeysInv, ResumesCommitted
<1> QED BY <1>1, <1>3, <1>5, LocalRows

\* The rows that a worker claims belong to committed operations.
LEMMA ClaimRows ==
  ASSUME IInv, RowsKeysInv, NEW s \in Session, NEW rs \in SUBSET Request, ClaimWork(s, rs)
  PROVE  RowsKeysInv'
<1> DEFINE todo == {[tx |-> r, ref |-> committed.work[r].ref,
                     infra |-> committed.work[r].infra] : r \in rs}
           n == [Idle EXCEPT !.pc = "next", !.op = "work", !.todo = todo]
<1>1. /\ sess[s].pc = "idle"
      /\ \A r \in rs : committed.work[r].present
      /\ committed' = Leased(committed, rs, TRUE)
      /\ current' = Leased(current, rs, TRUE)
      /\ sess' = [sess EXCEPT ![s] = n]
      /\ lock' = lock
  BY DEF ClaimWork, Claimable
<1>2. \A r \in rs : Present(committed, r)
  BY <1>1 DEF RowsKeysInv, RInv, RowsInv, Parked, Present
<1>3. \A i \in todo : Present(committed, i.tx)
  BY <1>2
<1> HIDE DEF todo
<1>4. ResumesCommitted(n)
  BY <1>3, ResumesNext
<1> HIDE DEF n
<1>5. /\ RowsInv(committed') /\ committed'.tx = committed.tx
      /\ committed'.inbox = committed.inbox
      /\ RowsInv(current') /\ current'.tx = current.tx
      /\ current'.inbox = current.inbox
  <2>1. PICK leased : leased = TRUE
    OBVIOUS
  <2> QED BY <1>1, <2>1, LeasedRowsInv DEF RowsKeysInv, RInv, IInv, TablesOK
<1>6. RInv'
  BY <1>5, BothRows DEF RowsKeysInv
<1>7. KeysInv'
  BY <1>1, <1>4, <1>5, OneSession, SameKeys DEF RowsKeysInv
<1> QED BY <1>6, <1>7 DEF RowsKeysInv

\* A step of no session, in columns that KeysInv does not read.
LEMMA QuietRows ==
  ASSUME IInv, RowsKeysInv, RowsInv(committed'), RowsInv(current'),
         committed'.tx = committed.tx, committed'.inbox = committed.inbox,
         current'.tx = current.tx, current'.inbox = current.inbox,
         UNCHANGED <<lock, sess>>
  PROVE  RowsKeysInv'
<1>1. RInv'
  BY BothRows DEF RowsKeysInv
<1>2. \A r \in Request : UnderWay(r) => UnderWay(r)'
  BY DEF UnderWay
<1>3. ASSUME NEW t \in Session PROVE ResumesCommitted(sess[t])'
  <2>1. ResumesCommitted(sess[t])
    BY DEF RowsKeysInv, KeysInv
  <2> QED BY <2>1 DEF ResumesCommitted, Present
<1> QED BY <1>1, <1>2, <1>3, SameKeys DEF RowsKeysInv

\* A lease runs out.
LEMMA LeaseRows ==
  ASSUME IInv, RowsKeysInv, NEW r \in Request, LeaseExpires(r)
  PROVE  RowsKeysInv'
<1>1. /\ committed' = Leased(committed, {r}, FALSE)
      /\ current' = Leased(current, {r}, FALSE)
      /\ UNCHANGED <<lock, sess>>
  BY DEF LeaseExpires
<1>2. PICK leased, rs : leased = FALSE /\ rs = {r}
  OBVIOUS
<1> QED BY <1>1, <1>2, LeasedRowsInv, QuietRows DEF RowsKeysInv, RInv, IInv, TablesOK

\* A wallet is opened.
LEMMA OpenRows ==
  ASSUME IInv, RowsKeysInv, NEW w \in Wallet, OpenWallet(w)
  PROVE  RowsKeysInv'
<1>1. /\ committed' = Opened(committed, w)
      /\ current' = Opened(current, w)
      /\ UNCHANGED <<lock, sess>>
  BY DEF OpenWallet
<1> QED BY <1>1, OpenedRowsInv, QuietRows DEF RowsKeysInv, RInv, IInv, TablesOK

\* A worker takes an item of its batch.  What is final is final in every
\* version, so that no work row is deleted that another session counts on.
LEMMA WorkGetRows ==
  ASSUME IInv, RowsKeysInv, NEW s \in Session, WorkGet(s)
  PROVE  RowsKeysInv'
<1>1. sess[s].pc = "next" /\ lock' = lock
  BY DEF WorkGet
<1>2. PICK i \in sess[s].todo :
        LET rest == [sess[s] EXCEPT !.todo = @ \ {i}]
        IN IF IsTerminal(committed.tx[i.tx].state)
             THEN /\ committed' = DeleteWork(committed, i.tx)
                  /\ current' = DeleteWork(current, i.tx)
                  /\ sess' = [sess EXCEPT ![s] =
                       IF rest.todo = {} THEN Idle ELSE rest]
             ELSE /\ sess' = [sess EXCEPT ![s] =
                       [rest EXCEPT !.pc = "lock", !.item = i]]
                  /\ UNCHANGED <<committed, current>>
  BY DEF WorkGet
<1> DEFINE rest == [sess[s] EXCEPT !.todo = @ \ {i}]
           next == [rest EXCEPT !.pc = "lock", !.item = i]
           r == i.tx
<1>3. /\ rest.pc = "next" /\ rest.todo = sess[s].todo \ {i}
      /\ next.item = i /\ next.todo = sess[s].todo \ {i}
  BY <1>1 DEF IInv, SessionState
<1>4. r \in Request /\ Present(committed, r)
  BY DEF RowsKeysInv, KeysInv, ResumesCommitted, IInv, SessionOK
<1>5. ResumesCommitted(rest) /\ ResumesCommitted(next)
  <2> HIDE DEF rest, next
  <2> QED BY <1>3 DEF RowsKeysInv, KeysInv, ResumesCommitted
<1>6. CASE ~IsTerminal(committed.tx[r].state)
  <2>1. sess' = [sess EXCEPT ![s] = next] /\ UNCHANGED <<committed, current>>
    BY <1>2, <1>6
  <2> HIDE DEF next
  <2> QED BY <1>1, <1>5, <2>1, LocalRows
<1>7. CASE IsTerminal(committed.tx[r].state)
  <2> DEFINE n == IF rest.todo = {} THEN Idle ELSE rest
  <2>1. /\ committed' = DeleteWork(committed, r)
        /\ current' = DeleteWork(current, r)
        /\ sess' = [sess EXCEPT ![s] = n]
    BY <1>2, <1>7
  <2>2. ResumesCommitted(n)
    BY <1>5, ResumesNothing
  <2> HIDE DEF n, rest, next, r
  <2>3. IsTerminal(current.tx[r].state)
    BY <1>4, <1>7 DEF RowsKeysInv, RInv, RowsAhead, RowsGrow
  <2>4. /\ committed.tx[r].state # "PENDING_REFERENCE"
        /\ current.tx[r].state # "PENDING_REFERENCE"
    BY <1>7, <2>3 DEF IsTerminal
  <2>5. /\ RowsInv(committed') /\ committed'.tx = committed.tx
        /\ committed'.inbox = committed.inbox
    BY <1>4, <2>1, <2>4, DeleteRowsInv DEF RowsKeysInv, RInv, RowsInv, IInv, TablesOK
  <2>6. /\ RowsInv(current') /\ current'.tx = current.tx
        /\ current'.inbox = current.inbox
    BY <1>4, <2>1, <2>4, DeleteRowsInv DEF RowsKeysInv, RInv, RowsInv, IInv, TablesOK
  <2>7. RInv'
    BY <2>5, <2>6, BothRows DEF RowsKeysInv
  <2>8. KeysInv'
    BY <1>1, <2>1, <2>2, <2>5, <2>6, OneSession, SameKeys DEF RowsKeysInv
  <2> QED BY <2>7, <2>8 DEF RowsKeysInv
<1> QED BY <1>6, <1>7

\* A commit.
LEMMA CommittedRows ==
  ASSUME IInv, RowsKeysInv, NEW s \in Session, Commit(s)
  PROVE  RowsKeysInv'
BY CommitRows, CommitKeys DEF RowsKeysInv

-----------------------------------------------------------------------------
(* The theorems. *)

\* Empty tables.
LEMMA InitRows == Init => RowsKeysInv
<1> SUFFICES ASSUME Init PROVE RowsKeysInv
  OBVIOUS
<1>1. /\ committed = EmptyDatabase /\ current = EmptyDatabase
      /\ \A s \in Session : sess[s] = Idle
  BY DEF Init
<1>2. RowsInv(EmptyDatabase) /\ RowsGrow(EmptyDatabase, EmptyDatabase)
  BY DEF RowsInv, Parked, Moving, Told, EmptyDatabase, NoTx, NoWork, RowsGrow, Present
<1>3. \A r \in Request : ~Present(EmptyDatabase, r)
  BY DEF Present, EmptyDatabase, NoTx
<1>4. EmptyDatabase.inbox = {}
  BY DEF EmptyDatabase
<1>5. KeysInv
  BY <1>1, <1>3, <1>4, ResumesNothing
     DEF KeysInv, OneOperationPerKey, InboxOfAccepted, Uncommitted
<1> QED BY <1>1, <1>2, <1>5 DEF RowsKeysInv, RInv, RowsAhead

\* Every step of a session keeps what the rows and the keys say.
LEMMA SessionStepRows ==
  ASSUME IInv, RowsKeysInv, NEW s \in Session, SessionStep(s)
  PROVE  RowsKeysInv'
<1>1. CASE LockForUpdate(s)
  BY <1>1, LockRows
<1>2. CASE SubmitNoWallet(s)
  BY <1>2, NoWalletRows
<1>3. CASE SubmitMismatch(s) \/ SubmitReplay(s) \/ SubmitError(s)
  BY <1>3, AbortRows DEF SubmitMismatch, SubmitReplay, SubmitError
<1>4. CASE SubmitApply(s)
  BY <1>4, SubmitApplyRows
<1>5. CASE Commit(s)
  BY <1>5, CommittedRows
<1>6. CASE CommitRefused(s) \/ DeadlockVictim(s)
  BY <1>6, AbortRows DEF CommitRefused, DeadlockVictim
<1>7. CASE CascadeFind(s)
  BY <1>7, CascadeFindRows
<1>8. CASE CascadeNext(s)
  BY <1>8, CascadeNextRows
<1>9. CASE WorkGet(s)
  BY <1>9, WorkGetRows
<1>10. CASE \E expired \in BOOLEAN : ResumeSettle(s, expired) \/ ResumeError(s, expired)
  BY <1>10, ResumesRows DEF Resumes
<1>11. CASE \E expired \in BOOLEAN : ResumeClash(s, expired)
  BY <1>11, AbortRows DEF ResumeClash
<1> QED
  BY <1>1, <1>2, <1>3, <1>4, <1>5, <1>6, <1>7, <1>8, <1>9, <1>10, <1>11
     DEF SessionStep

\* Every step keeps what the rows and the keys say.
LEMMA NextRows == IInv /\ RowsKeysInv /\ [Next]_vars => RowsKeysInv'
<1> SUFFICES ASSUME IInv, RowsKeysInv, [Next]_vars PROVE RowsKeysInv'
  OBVIOUS
<1> USE DEF Session
<1>1. CASE UNCHANGED vars
  BY <1>1, QuietRows DEF vars, RowsKeysInv, RInv
<1>2. ASSUME NEW w \in Wallet, OpenWallet(w) PROVE RowsKeysInv'
  BY <1>2, OpenRows
<1>3. ASSUME NEW s \in Handler, NEW r \in Request, SubmitBegin(s, r) PROVE RowsKeysInv'
  BY <1>3, BeginRows
<1>4. ASSUME NEW s \in Session, SessionStep(s) PROVE RowsKeysInv'
  BY <1>4, SessionStepRows
<1>5. ASSUME NEW s \in Worker, NEW rs \in SUBSET Request, ClaimWork(s, rs)
      PROVE  RowsKeysInv'
  BY <1>5, ClaimRows
<1>6. ASSUME NEW s \in Worker, TxFails(s) PROVE RowsKeysInv'
  BY <1>6, AbortRows DEF TxFails
<1>7. ASSUME NEW s \in Session, Crash(s) PROVE RowsKeysInv'
  BY <1>7, AbortRows DEF Crash
<1>8. ASSUME NEW r \in Request, LeaseExpires(r) PROVE RowsKeysInv'
  BY <1>8, LeaseRows
<1> QED
  BY <1>1, <1>2, <1>3, <1>4, <1>5, <1>6, <1>7, <1>8 DEF Next

\* What the rows and the keys say holds in every reachable state.
THEOREM RowsInvariance == Spec => [](IInv /\ RowsKeysInv)
<1> QED BY InitOK, InitRows, NextPreserves, NextRows, PTL DEF Spec

\* A parked operation always has the work row that brings it back, and a
\* finished one never: a worker deletes work rows outside of the wallet lock
\* (WorkGet), but only of operations that are final for every session.
THEOREM ParkedHaveWork == Spec => []ParkedIffWork
<1>1. RowsKeysInv => ParkedIffWork
  BY DEF RowsKeysInv, RInv, RowsInv, Parked, ParkedIffWork
<1> QED BY <1>1, RowsInvariance, PTL

\* Whoever settles an operation writes its outcome columns and its ledger
\* entry from the same wallet row.
THEOREM ResultsMatchLedger == Spec => []ResultMatchesLedger
<1>1. RowsKeysInv => ResultMatchesLedger
  BY DEF RowsKeysInv, RInv, RowsInv, Moving, ResultMatchesLedger
<1> QED BY <1>1, RowsInvariance, PTL

\* The outbox tells exactly the movements of the ledger, after every commit
\* and after every merge of one wallet's rows into the committed tables.
THEOREM OutboxTellsLedger == Spec => []EventsMatchLedger
<1>1. ASSUME IInv, RowsKeysInv PROVE EventsMatchLedger
  <2> DEFINE told(type) == {<<v.wallet, v.tx, v.version, v.balance>> :
                            v \in {x \in committed.outbox : x.type = type}}
             moved == {<<e.wallet, e.tx, e.version, e.after>> : e \in committed.ledger}
  <2>1. Told(committed)
    BY <1>1 DEF RowsKeysInv, RInv, RowsInv
  <2>2. \A e, type : LET v == EventOf(e, type)
                     IN /\ v.type = type /\ v.wallet = e.wallet /\ v.tx = e.tx
                        /\ v.balance = e.after /\ v.version = e.version
    BY DEF EventOf
  <2>3. ASSUME NEW e \in committed.ledger, NEW type \in {"Processed", "BalanceChanged"}
        PROVE  <<e.wallet, e.tx, e.version, e.after>> \in told(type)
    <3>1. PICK v \in committed.outbox : v = EventOf(e, type)
      BY <2>1 DEF Told
    <3>2. /\ v.type = type /\ v.wallet = e.wallet /\ v.tx = e.tx
          /\ v.balance = e.after /\ v.version = e.version
      BY <2>2, <3>1
    <3> QED BY <3>2
  <2>4. ASSUME NEW v \in committed.outbox, v.type = "BalanceChanged"
        PROVE  <<v.wallet, v.tx, v.version, v.balance>> \in moved
    <3>1. PICK e \in committed.ledger : v = EventOf(e, "BalanceChanged")
      BY <2>1, <2>4 DEF Told
    <3>2. /\ v.wallet = e.wallet /\ v.tx = e.tx
          /\ v.balance = e.after /\ v.version = e.version
      BY <2>2, <3>1
    <3> QED BY <3>2
  <2>5. told("BalanceChanged") = moved /\ moved \subseteq told("Processed")
    BY <2>3, <2>4
  <2> QED BY <2>5 DEF EventsMatchLedger
<1> QED BY <1>1, RowsInvariance, PTL

\* Sessions check the keys before they lock or insert what others may be
\* inserting; the unique constraints settle it at the commit.
THEOREM KeysAreUnique == Spec => []OneOperationPerKey
<1>1. RowsKeysInv => OneOperationPerKey
  BY DEF RowsKeysInv, KeysInv
<1> QED BY <1>1, RowsInvariance, PTL

\* No message is recorded without its operation or for two of them.
THEOREM InboxIsOfAccepted == Spec => []InboxOfAccepted
<1>1. RowsKeysInv => InboxOfAccepted
  BY DEF RowsKeysInv, KeysInv
<1> QED BY <1>1, RowsInvariance, PTL
-----------------------------------------------------------------------------
(* Third part: reversals.  SlotInv is about one version of the tables, and *)
(* every part of it about the rows of one wallet: a reversal acts only on  *)
(* an operation of its own wallet (ValidateReferenceAgreement), so a merge *)
(* by wallet keeps it.  The ledger says who reversed what; the reversal    *)
(* slot has to say the same, though a stale resume may have overwritten    *)
(* the state and the reference of an operation that moved.                 *)

Twin(q, r) ==
  /\ Input[q].wallet = Input[r].wallet
  /\ Input[q].provider = Input[r].provider
  /\ Input[q].ext = Input[r].ext

\* What q refers to is t.
Aims(q, t) ==
  /\ Input[q].wallet = Input[t].wallet
  /\ Input[q].provider = Input[t].provider
  /\ Input[q].ref = Input[t].ext

HasEntry(d, q) == \E e \in d.ledger : e.tx = q

\* The requests that moved money to reverse t, and those not voided since.
Voids(d, t) ==
  {q \in Request : HasEntry(d, q) /\ IsReversalKind(Input[q].kind) /\ Aims(q, t)}

Standing(d, t) == {q \in Voids(d, t) : Voids(d, q) = {}}

Unique(d) ==
  \A q, r \in Request : Present(d, q) /\ Present(d, r) /\ Twin(q, r) => q = r

\* A reversal that moved money has a target that moved money.
Aimed(d) ==
  \A q \in Request : HasEntry(d, q) /\ IsReversalKind(Input[q].kind) =>
    \E t \in Request : /\ Aims(q, t)
                       /\ HasEntry(d, t)
                       /\ Input[t].kind \in Reversible(Input[q].kind)

\* The reference of a processed REFUND, or WIN that has one, is the BET it
\* names.
Linked(d) ==
  \A q \in Request :
    /\ d.tx[q].state = "PROCESSED"
    /\ Input[q].kind = "REFUND" \/ (Input[q].kind = "WIN" /\ d.tx[q].refTx # None)
    => /\ d.tx[q].refTx \in Request
       /\ Present(d, d.tx[q].refTx)
       /\ Aims(q, d.tx[q].refTx)
       /\ Input[d.tx[q].refTx].kind = "BET"

\* The slot of a row holds the reversal that stands.
Slot(d, t) ==
  /\ ~Present(d, t) => d.tx[t].reversedBy = None
  /\ Present(d, t) => /\ d.tx[t].reversedBy \in Standing(d, t) \cup {None}
                      /\ \A q \in Standing(d, t) : d.tx[t].reversedBy = q

Kept(d, b) == d.tx[b].reversedBy # None => ~HasActiveWin(d, b)

\* A rejection has a failure code, a success has none.
Coded(d, r) ==
  /\ d.tx[r].state = "REJECTED" => d.tx[r].code # Ok
  /\ d.tx[r].state = "PROCESSED" => d.tx[r].code = Ok

SlotInv(d) ==
  /\ Unique(d)
  /\ Aimed(d)
  /\ Linked(d)
  /\ \A t \in Request : Slot(d, t) /\ Kept(d, t) /\ Coded(d, t)

StakeInv == SlotInv(committed) /\ SlotInv(current)

\* Entries, references and reversals of a merge are those of one version.
LEMMA MergeVoids ==
  ASSUME NEW d \in Database, NEW e \in Database, NEW ws, Owned(d), Owned(e)
  PROVE  LET m == Merge(d, e, ws)
         IN /\ \A q \in Request :
                 HasEntry(m, q) <=> IF Input[q].wallet \in ws THEN HasEntry(e, q)
                                    ELSE HasEntry(d, q)
            /\ \A t \in Request :
                 /\ Input[t].wallet \in ws => /\ m.tx[t] = e.tx[t]
                                              /\ Voids(m, t) = Voids(e, t)
                                              /\ Standing(m, t) = Standing(e, t)
                 /\ Input[t].wallet \notin ws => /\ m.tx[t] = d.tx[t]
                                                 /\ Voids(m, t) = Voids(d, t)
                                                 /\ Standing(m, t) = Standing(d, t)
<1> DEFINE m == Merge(d, e, ws)
<1>1. /\ \A r \in Request : m.tx[r] = IF Input[r].wallet \in ws THEN e.tx[r] ELSE d.tx[r]
      /\ m.ledger = {x \in d.ledger : x.wallet \notin ws} \cup {x \in e.ledger : x.wallet \in ws}
  BY DEF Merge
<1> HIDE DEF m
<1>2. ASSUME NEW q \in Request
      PROVE  HasEntry(m, q) <=> IF Input[q].wallet \in ws THEN HasEntry(e, q)
                                ELSE HasEntry(d, q)
  <2>1. /\ \A x \in d.ledger : x.tx = q => x.wallet = Input[q].wallet
        /\ \A x \in e.ledger : x.tx = q => x.wallet = Input[q].wallet
    BY DEF Owned
  <2> QED BY <1>1, <2>1 DEF HasEntry
<1>3. ASSUME NEW t \in Request
      PROVE  Voids(m, t) = IF Input[t].wallet \in ws THEN Voids(e, t) ELSE Voids(d, t)
  BY <1>2 DEF Voids, Aims
<1>4. ASSUME NEW t \in Request
      PROVE  Standing(m, t) = IF Input[t].wallet \in ws THEN Standing(e, t)
                              ELSE Standing(d, t)
  <2>1. \A q \in Voids(m, t) : q \in Request /\ Input[q].wallet = Input[t].wallet
    BY DEF Voids, Aims
  <2> QED BY <1>3, <2>1 DEF Standing
<1> QED BY <1>1, <1>2, <1>3, <1>4 DEF m

\* A merge by wallet keeps SlotInv.
LEMMA MergeSlots ==
  ASSUME NEW d \in Database, NEW e \in Database, NEW ws, Owned(d), Owned(e),
         SlotInv(d), SlotInv(e)
  PROVE  SlotInv(Merge(d, e, ws))
<1>1. PICK m : m = Merge(d, e, ws)
  OBVIOUS
<1>2. /\ \A q \in Request :
           HasEntry(m, q) <=> IF Input[q].wallet \in ws THEN HasEntry(e, q)
                              ELSE HasEntry(d, q)
      /\ \A t \in Request :
           /\ Input[t].wallet \in ws => /\ m.tx[t] = e.tx[t]
                                        /\ Voids(m, t) = Voids(e, t)
                                        /\ Standing(m, t) = Standing(e, t)
           /\ Input[t].wallet \notin ws => /\ m.tx[t] = d.tx[t]
                                           /\ Voids(m, t) = Voids(d, t)
                                           /\ Standing(m, t) = Standing(d, t)
  BY <1>1, MergeVoids
<1>3. Unique(m)
  BY <1>2 DEF SlotInv, Unique, Twin, Present
<1>4. Aimed(m)
  <2> SUFFICES ASSUME NEW q \in Request, HasEntry(m, q), IsReversalKind(Input[q].kind)
               PROVE  \E t \in Request : /\ Aims(q, t)
                                         /\ HasEntry(m, t)
                                         /\ Input[t].kind \in Reversible(Input[q].kind)
    BY DEF Aimed
  <2>1. CASE Input[q].wallet \in ws
    <3>1. PICK t \in Request : /\ Aims(q, t)
                               /\ HasEntry(e, t)
                               /\ Input[t].kind \in Reversible(Input[q].kind)
      BY <1>2, <2>1 DEF SlotInv, Aimed
    <3> QED BY <1>2, <2>1, <3>1 DEF Aims
  <2>2. CASE Input[q].wallet \notin ws
    <3>1. PICK t \in Request : /\ Aims(q, t)
                               /\ HasEntry(d, t)
                               /\ Input[t].kind \in Reversible(Input[q].kind)
      BY <1>2, <2>2 DEF SlotInv, Aimed
    <3> QED BY <1>2, <2>2, <3>1 DEF Aims
  <2> QED BY <2>1, <2>2
<1>5. Linked(m)
  <2> SUFFICES ASSUME NEW q \in Request,
                      m.tx[q].state = "PROCESSED",
                      \/ Input[q].kind = "REFUND"
                      \/ Input[q].kind = "WIN" /\ m.tx[q].refTx # None
               PROVE  /\ m.tx[q].refTx \in Request
                      /\ Present(m, m.tx[q].refTx)
                      /\ Aims(q, m.tx[q].refTx)
                      /\ Input[m.tx[q].refTx].kind = "BET"
    BY DEF Linked
  <2>1. CASE Input[q].wallet \in ws
    BY <1>2, <2>1 DEF SlotInv, Linked, Aims, Present
  <2>2. CASE Input[q].wallet \notin ws
    BY <1>2, <2>2 DEF SlotInv, Linked, Aims, Present
  <2> QED BY <2>1, <2>2
<1>6. ASSUME NEW t \in Request PROVE Slot(m, t)
  BY <1>2 DEF SlotInv, Slot, Present
<1>7. ASSUME NEW b \in Request, m.tx[b].reversedBy # None, HasActiveWin(m, b)
      PROVE  FALSE
  <2>1. PICK q \in Request : /\ m.tx[q].refTx = b
                             /\ Input[q].kind = "WIN"
                             /\ m.tx[q].state = "PROCESSED"
                             /\ m.tx[q].reversedBy = None
    BY <1>7 DEF HasActiveWin
  <2>2. Input[q].wallet = Input[b].wallet
    BY <1>5, <2>1, ConstantsAssumption DEF Linked, Aims
  <2>3. CASE Input[b].wallet \in ws
    <3>1. e.tx[b].reversedBy # None /\ HasActiveWin(e, b)
      BY <1>2, <1>7, <2>1, <2>2, <2>3 DEF HasActiveWin
    <3> QED BY <3>1 DEF SlotInv, Kept
  <2>4. CASE Input[b].wallet \notin ws
    <3>1. d.tx[b].reversedBy # None /\ HasActiveWin(d, b)
      BY <1>2, <1>7, <2>1, <2>2, <2>4 DEF HasActiveWin
    <3> QED BY <3>1 DEF SlotInv, Kept
  <2> QED BY <2>3, <2>4
<1>8. \A t \in Request : Coded(m, t)
  BY <1>2 DEF SlotInv, Coded
<1> QED BY <1>1, <1>3, <1>4, <1>5, <1>6, <1>7, <1>8 DEF SlotInv, Kept

-----------------------------------------------------------------------------
(* The effects on the slots. *)

\* What a verdict that processes r knows of the reference.
Judged(d, v, r) ==
  /\ v.outcome = "PROCESSED"
  /\ v.refTx # None
  /\ Input[r].kind \in {"WIN", "REFUND", "ROLLBACK"}
  => /\ v.refTx \in Request
     /\ Aims(r, v.refTx)
     /\ d.tx[v.refTx].state = "PROCESSED"
     /\ d.tx[v.refTx].reversedBy = None
     /\ Input[r].kind = "WIN" => Input[v.refTx].kind = "BET"
     /\ IsReversalKind(Input[r].kind) =>
          /\ Input[v.refTx].kind \in Reversible(Input[r].kind)
          /\ Input[v.refTx].kind = "BET" => ~HasActiveWin(d, v.refTx)

\* Every verdict of the program checks it on the tables that it then writes.
LEMMA VerdictsJudge ==
  ASSUME NEW d, NEW row, NEW r \in Request, NEW expired
  PROVE  /\ Judged(d, applyOperation(d, row, r), r)
         /\ Judged(d, resumeOne(d, row, r, expired), r)
<1>1. ASSUME NEW v, v.outcome # "PROCESSED" \/ v.refTx = None PROVE Judged(d, v, r)
  BY <1>1 DEF Judged
<1>2. ASSUME NEW code, NEW t PROVE Judged(d, Reject(code, t), r)
  BY <1>1 DEF Reject, Verdict
<1>3. Park.outcome # "PROCESSED" /\ Error.outcome # "PROCESSED"
  BY DEF Park, Error, Verdict
<1>4. ASSUME NEW amount, NEW t, NEW code
      PROVE  /\ \/ CreditVerdict(row, amount, t).outcome # "PROCESSED"
                \/ CreditVerdict(row, amount, t).refTx = t
             /\ \/ DebitVerdict(row, amount, t, code).outcome # "PROCESSED"
                \/ DebitVerdict(row, amount, t, code).refTx = t
  BY <1>3 DEF CreditVerdict, DebitVerdict, Process, Reject, Verdict
<1>5. ASSUME NEW t \in Request, d.tx[t].state = "PROCESSED",
             Input[r].provider = Input[t].provider, Input[r].ref = Input[t].ext
      PROVE  Judged(d, Judge(d, row, r, t), r)
  <2> DEFINE reversed == d.tx[t].reversedBy # None
             agreement == ValidateReferenceAgreement(Input[r], Input[t])
  <2>0. agreement = Ok => Aims(r, t)
    BY <1>5 DEF ValidateReferenceAgreement, Aims, Ok
  <2>1. CASE Input[r].kind = "WIN"
    <3> DEFINE code == ValidateWinReference(Input[r], Input[t], d.tx[t].state, reversed)
               v == CreditVerdict(row, Input[r].amount, t)
    <3>1. code # Ok => Judge(d, row, r, t) = Reject(code, t)
      BY <2>1 DEF Judge, JudgeWin
    <3>2. code = Ok => Judge(d, row, r, t) = v
      BY <2>1 DEF Judge, JudgeWin
    <3>3. code = Ok => Input[t].kind = "BET" /\ ~reversed /\ agreement = Ok
      BY DEF ValidateWinReference, Ok
    <3>4. v.outcome # "PROCESSED" \/ v.refTx = t
      BY <1>4
    <3>5. ~IsReversalKind(Input[r].kind)
      BY <2>1 DEF IsReversalKind
    <3> HIDE DEF code, agreement, v
    <3>6. code = Ok => Judged(d, v, r)
      BY <1>5, <2>0, <3>3, <3>4, <3>5 DEF Judged
    <3> QED BY <1>2, <3>1, <3>2, <3>6
  <2>2. CASE Input[r].kind # "WIN"
    <3> DEFINE target == ValidateReversalTarget(Input[r].kind, Input[t].kind,
                           d.tx[t].state, reversed, HasActiveWin(d, t))
               v == CreditVerdict(row, Input[r].amount, t)
               u == DebitVerdict(row, Input[r].amount, t, "ROLLBACK_INSUFFICIENT_BALANCE")
    <3>1. \/ Judge(d, row, r, t) \in {Reject(agreement, t), Reject(target, t)}
          \/ agreement = Ok /\ target = Ok /\ Judge(d, row, r, t) \in {v, u}
      BY <2>2 DEF Judge, JudgeReversal
    <3>2. target = Ok => /\ Input[t].kind \in Reversible(Input[r].kind)
                         /\ ~reversed
                         /\ Input[t].kind = "BET" => ~HasActiveWin(d, t)
      BY DEF ValidateReversalTarget, Ok
    <3>3. /\ v.outcome # "PROCESSED" \/ v.refTx = t
          /\ u.outcome # "PROCESSED" \/ u.refTx = t
      BY <1>4
    <3> HIDE DEF target, agreement, v, u
    <3>4. agreement = Ok /\ target = Ok => Judged(d, v, r) /\ Judged(d, u, r)
      BY <1>5, <2>0, <2>2, <3>2, <3>3 DEF Judged
    <3> QED BY <1>2, <3>1, <3>4
  <2> QED BY <2>1, <2>2
<1>6. Judged(d, applyWithReference(d, row, r), r)
  <2> DEFINE found == FindByProviderExternal(d, Input[r].provider, Input[r].ref)
             t == CHOOSE q \in found : TRUE
  <2>1. CASE found = {}
    BY <1>1, <1>3, <2>1 DEF applyWithReference
  <2>2. CASE found # {}
    <3>1. t \in found
      BY <2>2
    <3> HIDE DEF t
    <3>2. t \in Request /\ Input[r].provider = Input[t].provider /\ Input[r].ref = Input[t].ext
      BY <3>1 DEF FindByProviderExternal
    <3> HIDE DEF found
    <3>3. \/ applyWithReference(d, row, r) \in {Park, Reject("REFERENCE_NOT_PROCESSED", t)}
          \/ d.tx[t].state = "PROCESSED" /\ applyWithReference(d, row, r) = Judge(d, row, r, t)
      BY <2>2 DEF applyWithReference, found, t
    <3> QED BY <1>1, <1>2, <1>3, <1>5, <3>2, <3>3
  <2> QED BY <2>1, <2>2
<1>7. Judged(d, applyOperation(d, row, r), r)
  <2>1. CASE Input[r].kind = "BET" \/ Input[r].kind = "LOSS"
    BY <2>1 DEF Judged
  <2>2. CASE Input[r].kind = "WIN" /\ Input[r].ref = None
    <3>1. applyOperation(d, row, r) = CreditVerdict(row, Input[r].amount, None)
      BY <2>2 DEF applyOperation
    <3> QED BY <1>1, <1>4, <3>1
  <2>3. CASE /\ Input[r].kind \notin {"BET", "LOSS"}
             /\ ~(Input[r].kind = "WIN" /\ Input[r].ref = None)
    BY <1>6, <2>3 DEF applyOperation
  <2> QED BY <2>1, <2>2, <2>3
<1> QED BY <1>2, <1>6, <1>7 DEF resumeOne
\* No other operation of the wallet has the external id of r.
Alone(d, r) == \A q \in Request : Present(d, q) /\ Twin(q, r) => q = r

\* What has not moved was never reversed.
LEMMA NeverVoided ==
  ASSUME NEW d, NEW r \in Request, SlotInv(d), Owned(d), Alone(d, r), ~HasEntry(d, r)
  PROVE  Voids(d, r) = {}
<1> SUFFICES ASSUME NEW q \in Voids(d, r) PROVE FALSE
  OBVIOUS
<1>1. q \in Request /\ HasEntry(d, q) /\ IsReversalKind(Input[q].kind) /\ Aims(q, r)
  BY DEF Voids
<1>2. PICK t \in Request : Aims(q, t) /\ HasEntry(d, t)
  BY <1>1 DEF SlotInv, Aimed
<1>3. Present(d, t) /\ Twin(t, r)
  BY <1>1, <1>2 DEF Owned, HasEntry, Aims, Twin
<1> QED BY <1>2, <1>3 DEF Alone

\* What is reversed can be.
LEMMA VoidedKind ==
  ASSUME NEW d, NEW t \in Request, NEW q \in Voids(d, t),
         SlotInv(d), Owned(d), Present(d, t)
  PROVE  Input[t].kind \in Reversible(Input[q].kind)
<1>1. q \in Request /\ HasEntry(d, q) /\ IsReversalKind(Input[q].kind) /\ Aims(q, t)
  BY DEF Voids
<1>2. PICK u \in Request : /\ Aims(q, u)
                           /\ HasEntry(d, u)
                           /\ Input[u].kind \in Reversible(Input[q].kind)
  BY <1>1 DEF SlotInv, Aimed
<1>3. Present(d, u) /\ Twin(u, t)
  BY <1>1, <1>2 DEF Owned, HasEntry, Aims, Twin
<1> QED BY <1>2, <1>3 DEF SlotInv, Unique

\* A REFUND is reversed by ROLLBACKs only, which stand for good.
LEMMA RefundVoids ==
  ASSUME NEW d, NEW t \in Request, SlotInv(d), Owned(d), Present(d, t),
         Input[t].kind = "REFUND"
  PROVE  Voids(d, t) = Standing(d, t)
<1> SUFFICES ASSUME NEW q \in Voids(d, t), NEW p \in Voids(d, q) PROVE FALSE
  BY DEF Standing
<1>1. q \in Request /\ HasEntry(d, q) /\ IsReversalKind(Input[q].kind)
  BY DEF Voids
<1>2. Input[q].kind = "ROLLBACK"
  BY <1>1, VoidedKind DEF Reversible, IsReversalKind
<1>3. Present(d, q)
  BY <1>1 DEF Owned, HasEntry
<1> QED BY <1>1, <1>2, <1>3, VoidedKind DEF Reversible

\* An operation that comes in, is rejected, parked or fails moves nothing.
LEMMA QuietSlots ==
  ASSUME NEW d, NEW x, NEW r \in Request, SlotInv(d), Owned(d), Alone(d, r),
         \A q \in Request : HasEntry(x, q) <=> HasEntry(d, q),
         \A q \in Request : x.tx[q].reversedBy = d.tx[q].reversedBy,
         \A q \in Request \ {r} : /\ x.tx[q].state = d.tx[q].state
                                  /\ x.tx[q].code = d.tx[q].code
                                  /\ x.tx[q].refTx = d.tx[q].refTx,
         x.tx[r].state \notin {"PROCESSED", "ABSENT"},
         x.tx[r].state = "REJECTED" => x.tx[r].code # Ok
  PROVE  SlotInv(x)
<1>1. \A q \in Request : Present(x, q) <=> Present(d, q) \/ q = r
  BY DEF Present
<1>2. \A q : Voids(x, q) = Voids(d, q) /\ Standing(x, q) = Standing(d, q)
  BY DEF Voids, Standing
<1>3. Unique(x)
  BY <1>1 DEF SlotInv, Unique, Alone, Twin
<1>4. Aimed(x)
  BY DEF SlotInv, Aimed
<1>5. Linked(x)
  BY <1>1 DEF SlotInv, Linked
<1>6. ASSUME NEW t \in Request PROVE Slot(x, t)
  <2>1. CASE Present(x, t) <=> Present(d, t)
    BY <1>2, <2>1 DEF SlotInv, Slot
  <2>2. CASE t = r /\ ~Present(d, r)
    <3>1. Voids(d, r) = {}
      BY <2>2, NeverVoided DEF Owned, HasEntry
    <3> QED BY <1>1, <1>2, <2>2, <3>1 DEF SlotInv, Slot, Standing
  <2> QED BY <1>1, <2>1, <2>2
<1>7. \A b \in Request : HasActiveWin(x, b) => HasActiveWin(d, b)
  BY DEF HasActiveWin
<1>8. \A q \in Request : Coded(x, q)
  BY DEF SlotInv, Coded
<1> QED BY <1>3, <1>4, <1>5, <1>6, <1>7, <1>8 DEF SlotInv, Kept

\* The rows of a processed operation, as the slots need them.
LEMMA ProcessedSlotRows ==
  ASSUME NEW d \in Database, NEW row \in WalletRow, NEW r \in Request, NEW v,
         Sound(v, row, r), v.outcome = "PROCESSED", Moves(v, r)
  PROVE  LET x == processed(d, row, r, v)
             t == v.refTx
             freed == IF Input[r].kind = "ROLLBACK" /\ Input[t].kind = "REFUND"
                        THEN d.tx[t].refTx ELSE None
         IN /\ \A q \in Request :
                 /\ x.tx[q].state = IF q = r THEN "PROCESSED" ELSE d.tx[q].state
                 /\ x.tx[q].code = IF q = r THEN Ok ELSE d.tx[q].code
                 /\ x.tx[q].refTx = IF q = r THEN t ELSE d.tx[q].refTx
                 /\ x.tx[q].reversedBy =
                      IF IsReversalKind(Input[r].kind) /\ q = t THEN r
                      ELSE IF IsReversalKind(Input[r].kind) /\ q = freed THEN None
                      ELSE d.tx[q].reversedBy
                 /\ q # r => (HasEntry(x, q) <=> HasEntry(d, q))
            /\ Input[r].kind # "LOSS" => HasEntry(x, r)
<1> DEFINE after == Apply(row, v.dir, Input[r].amount)
           e == NewLedgerEntry(r, v.dir, row, after)
           t == v.refTx
           txs == UpdateState(d, r, "PROCESSED", Ok, after, t)
           newtx == IF IsReversalKind(Input[r].kind) THEN MarkReversed(d, txs, r, t)
                    ELSE txs
           x == processed(d, row, r, v)
<1>1. x.tx = newtx /\ x.ledger = d.ledger \cup e
  BY DEF processed, Database
<1>2. txs \in [Request -> TxRow]
  BY AppliedType, UpdateStateType DEF Sound, VerdictType, TransactionState
<1>3. \A f \in e : f.tx = r
  BY DEF NewLedgerEntry
<1>4. Input[r].kind # "LOSS" => e # {}
  BY DEF Moves, NewLedgerEntry
<1>5. \A q \in Request :
        /\ txs[q].state = IF q = r THEN "PROCESSED" ELSE d.tx[q].state
        /\ txs[q].code = IF q = r THEN Ok ELSE d.tx[q].code
        /\ txs[q].refTx = IF q = r THEN t ELSE d.tx[q].refTx
        /\ txs[q].reversedBy = d.tx[q].reversedBy
  <2> HIDE DEF after
  <2> QED BY DEF UpdateState, Database, TxRow
<1> HIDE DEF txs, e
<1>6. \A q \in Request :
        /\ newtx[q].state = txs[q].state
        /\ newtx[q].code = txs[q].code
        /\ newtx[q].refTx = txs[q].refTx
        /\ newtx[q].reversedBy =
             IF IsReversalKind(Input[r].kind) /\ q = t THEN r
             ELSE IF /\ IsReversalKind(Input[r].kind)
                     /\ q = IF Input[r].kind = "ROLLBACK" /\ Input[t].kind = "REFUND"
                              THEN d.tx[t].refTx ELSE None
               THEN None
             ELSE txs[q].reversedBy
  BY <1>2 DEF MarkReversed, TxRow
<1> HIDE DEF newtx, x
<1>7. /\ \A q \in Request \ {r} : HasEntry(x, q) <=> HasEntry(d, q)
      /\ Input[r].kind # "LOSS" => HasEntry(x, r)
  BY <1>1, <1>3, <1>4 DEF HasEntry
<1> QED BY <1>1, <1>5, <1>6, <1>7 DEF x
\* What a processed operation leaves alone, whatever its kind.
MovedRow(d, x, r, t) ==
  /\ \A q \in Request :
       /\ x.tx[q].state = IF q = r THEN "PROCESSED" ELSE d.tx[q].state
       /\ x.tx[q].code = IF q = r THEN Ok ELSE d.tx[q].code
       /\ x.tx[q].refTx = IF q = r THEN t ELSE d.tx[q].refTx
       /\ q # r => (HasEntry(x, q) <=> HasEntry(d, q))
  /\ Input[r].kind # "LOSS" => HasEntry(x, r)

\* A BET, WIN or LOSS touches no slot.  A WIN names a BET that keeps its own.
LEMMA PlainSlots ==
  ASSUME NEW d, NEW x, NEW r \in Request, NEW v,
         SlotInv(d), Owned(d), Alone(d, r), ~HasEntry(d, r),
         v.outcome = "PROCESSED", Judged(d, v, r),
         ~IsReversalKind(Input[r].kind), MovedRow(d, x, r, v.refTx),
         \A q \in Request : x.tx[q].reversedBy = d.tx[q].reversedBy
  PROVE  SlotInv(x)
<1> DEFINE t == v.refTx
<1>1. \A q \in Request : Present(x, q) <=> Present(d, q) \/ q = r
  BY DEF Present, MovedRow
<1>2. /\ \A q \in Request : HasEntry(d, q) => HasEntry(x, q)
      /\ \A q \in Request : IsReversalKind(Input[q].kind) =>
           (HasEntry(x, q) <=> HasEntry(d, q))
  BY DEF MovedRow
<1>3. \A q : Voids(x, q) = Voids(d, q)
  BY <1>2 DEF Voids
<1>4. \A q : Standing(x, q) = Standing(d, q)
  BY <1>3 DEF Standing
<1>5. Unique(x)
  BY <1>1 DEF SlotInv, Unique, Alone, Twin
<1>6. Aimed(x)
  BY <1>2 DEF SlotInv, Aimed
<1>7. Linked(x)
  <2> SUFFICES ASSUME NEW q \in Request,
                      x.tx[q].state = "PROCESSED",
                      \/ Input[q].kind = "REFUND"
                      \/ Input[q].kind = "WIN" /\ x.tx[q].refTx # None
               PROVE  /\ x.tx[q].refTx \in Request
                      /\ Present(x, x.tx[q].refTx)
                      /\ Aims(q, x.tx[q].refTx)
                      /\ Input[x.tx[q].refTx].kind = "BET"
    BY DEF Linked
  <2>1. CASE q # r
    BY <1>1, <2>1 DEF SlotInv, Linked, MovedRow
  <2>2. CASE q = r
    <3>1. Input[r].kind = "WIN" /\ t # None /\ x.tx[r].refTx = t
      BY <2>2 DEF IsReversalKind, MovedRow
    <3>2. /\ t \in Request /\ Aims(r, t) /\ Input[t].kind = "BET"
          /\ d.tx[t].state = "PROCESSED"
      BY <3>1 DEF Judged
    <3>3. Present(x, t)
      BY <1>1, <3>2 DEF Present
    <3> QED BY <2>2, <3>1, <3>2, <3>3
  <2> QED BY <2>1, <2>2
<1>8. ASSUME NEW q \in Request PROVE Slot(x, q)
  <2>1. CASE Present(x, q) <=> Present(d, q)
    BY <1>4, <2>1 DEF SlotInv, Slot
  <2>2. CASE q = r /\ ~Present(d, r)
    <3>1. Voids(x, r) = {}
      BY <1>3, NeverVoided
    <3> QED BY <1>1, <2>2, <3>1 DEF SlotInv, Slot, Standing
  <2> QED BY <1>1, <2>1, <2>2
<1>9. ASSUME NEW b \in Request, x.tx[b].reversedBy # None, HasActiveWin(x, b)
      PROVE  FALSE
  <2>1. PICK q \in Request : /\ x.tx[q].refTx = b
                             /\ Input[q].kind = "WIN"
                             /\ x.tx[q].state = "PROCESSED"
                             /\ x.tx[q].reversedBy = None
    BY <1>9 DEF HasActiveWin
  <2>2. CASE q # r
    <3>1. HasActiveWin(d, b)
      BY <2>1, <2>2 DEF HasActiveWin, MovedRow
    <3> QED BY <1>9, <3>1 DEF SlotInv, Kept
  <2>3. CASE q = r
    <3>1. t = b /\ b # None
      BY <2>1, <2>3, ConstantsAssumption DEF MovedRow
    <3>2. d.tx[b].reversedBy = None
      BY <2>1, <2>3, <3>1 DEF Judged
    <3> QED BY <1>9, <3>2
  <2> QED BY <2>2, <2>3
<1>10. \A q \in Request : Coded(x, q)
  BY DEF SlotInv, Coded, MovedRow
<1> QED BY <1>5, <1>6, <1>7, <1>8, <1>9, <1>10 DEF SlotInv, Kept

\* A REFUND or ROLLBACK takes the slot of its target, which has none, and a
\* ROLLBACK of a REFUND frees the slot that the REFUND had taken.
LEMMA ReversalSlots ==
  ASSUME NEW d, NEW x, NEW r \in Request, NEW v,
         SlotInv(d), Owned(d), Alone(d, r), ~HasEntry(d, r),
         v.outcome = "PROCESSED", Judged(d, v, r), v.refTx \in Request,
         \A q \in Request : Moving(d, q),
         IsReversalKind(Input[r].kind), MovedRow(d, x, r, v.refTx),
         NEW freed,
         freed = (IF Input[r].kind = "ROLLBACK" /\ Input[v.refTx].kind = "REFUND"
                    THEN d.tx[v.refTx].refTx ELSE None),
         \A q \in Request : x.tx[q].reversedBy =
           IF q = v.refTx THEN r ELSE IF q = freed THEN None ELSE d.tx[q].reversedBy
  PROVE  SlotInv(x)
<1> DEFINE t == v.refTx
<1>0. None \notin Request
  BY ConstantsAssumption
<1>1. /\ t \in Request /\ Aims(r, t)
      /\ d.tx[t].state = "PROCESSED" /\ d.tx[t].reversedBy = None
      /\ Input[t].kind \in Reversible(Input[r].kind)
      /\ Input[t].kind = "BET" => ~HasActiveWin(d, t)
  BY <1>0 DEF Judged, IsReversalKind
<1>2. /\ \A q \in Request : /\ x.tx[q].state = IF q = r THEN "PROCESSED" ELSE d.tx[q].state
                            /\ x.tx[q].refTx = IF q = r THEN t ELSE d.tx[q].refTx
                            /\ HasEntry(x, q) <=> HasEntry(d, q) \/ q = r
      /\ \A q \in Request : x.tx[q].reversedBy =
           IF q = t THEN r ELSE IF q = freed THEN None ELSE d.tx[q].reversedBy
  BY DEF MovedRow, IsReversalKind
<1>3. /\ Input[t].kind \in {"BET", "WIN", "REFUND"}
      /\ Input[r].kind = "REFUND" => Input[t].kind = "BET"
      /\ Input[r].kind \in {"REFUND", "ROLLBACK"}
  BY <1>1 DEF Reversible, IsReversalKind
<1>4. HasEntry(d, t) /\ t # r /\ Present(d, t)
  BY <1>1, <1>3 DEF Moving, HasEntry, Present
<1>5. /\ Input[t].kind = "REFUND" => /\ freed = d.tx[t].refTx
                                     /\ freed \in Request /\ Present(d, freed)
                                     /\ Aims(t, freed) /\ Input[freed].kind = "BET"
      /\ Input[t].kind # "REFUND" => freed = None
  BY <1>1, <1>3 DEF SlotInv, Linked
<1> HIDE DEF t
<1>6. \A q \in Request : Present(x, q) <=> Present(d, q) \/ q = r
  BY <1>2 DEF Present
<1>7. Unique(x)
  BY <1>6 DEF SlotInv, Unique, Alone, Twin
<1>8. Aimed(x)
  BY <1>1, <1>2, <1>4 DEF SlotInv, Aimed
<1>9. Linked(x)
  BY <1>1, <1>2, <1>3, <1>6, <1>4 DEF SlotInv, Linked
<1>10. Voids(d, r) = {} /\ Standing(d, t) = {}
  <2>1. Voids(d, r) = {}
    BY NeverVoided
  <2>2. \A q \in Standing(d, t) : q \in Request /\ d.tx[t].reversedBy = q
    BY <1>1, <1>4 DEF SlotInv, Slot, Standing, Voids
  <2> QED BY <1>0, <1>1, <2>1, <2>2
<1>11. Voids(x, t) = Voids(d, t) \cup {r}
  BY <1>1, <1>2 DEF Voids
<1>12. ASSUME NEW q \in Request \ {t}, Present(x, q) PROVE Voids(x, q) = Voids(d, q)
  <2>1. ~Aims(r, q)
    <3>1. Aims(r, q) => Twin(q, t)
      BY <1>1 DEF Aims, Twin
    <3> QED BY <1>1, <1>4, <1>6, <1>7, <1>12, <3>1 DEF Unique
  <2> QED BY <1>2, <2>1 DEF Voids
<1>13. \A q, p \in Request : p \in Voids(d, q) => Present(d, p) /\ Present(x, p)
  BY <1>6 DEF Voids, Owned, HasEntry
<1>14. Voids(x, r) = {}
  BY <1>4, <1>6, <1>10, <1>12
<1>15. Standing(x, t) = {r}
  <2>1. ASSUME NEW q \in Voids(d, t), q \in Standing(x, t), q # r PROVE FALSE
    <3>1. q \in Request /\ Voids(d, q) # {}
      BY <1>10 DEF Standing, Voids
    <3>2. Voids(d, q) \subseteq Voids(x, q)
      BY <1>2 DEF Voids
    <3> QED BY <2>1, <3>1, <3>2 DEF Standing
  <2>2. r \in Standing(x, t)
    BY <1>11, <1>14 DEF Standing
  <2> QED BY <1>11, <2>1, <2>2 DEF Standing
<1>16. ASSUME NEW q \in Request \ {t}, Present(x, q)
       PROVE  Standing(x, q) = Standing(d, q) \ {t}
  <2>1. ASSUME NEW p \in Voids(d, q)
        PROVE  Voids(x, p) = {} <=> Voids(d, p) = {} /\ p # t
    <3>1. p \in Request /\ Present(x, p)
      BY <1>13 DEF Voids
    <3>2. CASE p = t
      BY <1>11, <3>2
    <3>3. CASE p # t
      BY <1>12, <3>1, <3>3
    <3> QED BY <3>2, <3>3
  <2> QED BY <1>12, <1>16, <2>1 DEF Standing
<1>17. ASSUME NEW q \in Request \ {t, r} PROVE Slot(x, q)
  <2>1. Present(x, q) <=> Present(d, q)
    BY <1>6
  <2>2. CASE ~Present(d, q)
    BY <1>2, <2>1, <2>2 DEF SlotInv, Slot
  <2>3. CASE Present(d, q) /\ q = freed
    <3>1. Input[t].kind = "REFUND" /\ Aims(t, q)
      BY <1>0, <1>5, <2>3
    <3>2. Voids(d, t) = {}
      BY <1>1, <1>4, <1>10, <3>1, RefundVoids
    <3>3. t \in Standing(d, q)
      BY <1>1, <1>4, <3>1, <3>2 DEF Standing, Voids, IsReversalKind
    <3>4. \A p \in Standing(d, q) : p = t
      BY <2>3, <3>3 DEF SlotInv, Slot
    <3>5. Standing(x, q) = {}
      BY <1>16, <2>1, <2>3, <3>4
    <3> QED BY <1>2, <2>1, <2>3, <3>5 DEF Slot
  <2>4. CASE Present(d, q) /\ q # freed
    <3>1. t \notin Standing(d, q)
      <4> SUFFICES ASSUME t \in Standing(d, q) PROVE FALSE
        OBVIOUS
      <4>1. IsReversalKind(Input[t].kind) /\ Aims(t, q)
        BY DEF Standing, Voids
      <4>2. Input[t].kind = "REFUND"
        BY <1>3, <4>1 DEF IsReversalKind
      <4>3. Twin(freed, q)
        BY <1>5, <4>1, <4>2 DEF Aims, Twin
      <4> QED BY <1>5, <2>4, <4>2, <4>3 DEF SlotInv, Unique
    <3>2. Standing(x, q) = Standing(d, q)
      BY <1>16, <2>1, <2>4, <3>1
    <3> QED BY <1>2, <2>1, <2>4, <3>2 DEF SlotInv, Slot
  <2> QED BY <2>2, <2>3, <2>4
<1>18. Slot(x, t)
  BY <1>1, <1>2, <1>4, <1>6, <1>15 DEF Slot
<1>19. Slot(x, r)
  <2>1. r # freed
    BY <1>0, <1>3, <1>5
  <2>2. d.tx[r].reversedBy = None
    BY <1>10 DEF SlotInv, Slot, Standing
  <2>3. x.tx[r].reversedBy = None
    BY <1>2, <1>4, <2>1, <2>2
  <2> QED BY <1>6, <1>14, <2>3 DEF Slot, Standing
<1>20. ASSUME NEW b \in Request, x.tx[b].reversedBy # None, HasActiveWin(x, b)
       PROVE  FALSE
  <2>1. PICK q \in Request : /\ x.tx[q].refTx = b
                             /\ Input[q].kind = "WIN"
                             /\ x.tx[q].state = "PROCESSED"
                             /\ x.tx[q].reversedBy = None
    BY <1>20 DEF HasActiveWin
  <2>2. q # r /\ q # t /\ q # freed
    BY <1>0, <1>2, <1>3, <1>5, <2>1
  <2>3. HasActiveWin(d, b)
    BY <1>2, <2>1, <2>2 DEF HasActiveWin
  <2>4. CASE b = t
    <3>1. Input[b].kind = "BET"
      BY <1>0, <1>2, <2>1, <2>2 DEF SlotInv, Linked
    <3> QED BY <1>1, <2>3, <2>4, <3>1
  <2>5. CASE b # t
    <3>1. d.tx[b].reversedBy # None
      BY <1>2, <1>20, <2>5
    <3> QED BY <2>3, <3>1 DEF SlotInv, Kept
  <2> QED BY <2>4, <2>5
<1>21. \A q \in Request : Coded(x, q)
  BY DEF SlotInv, Coded, MovedRow
<1> QED BY <1>7, <1>8, <1>9, <1>17, <1>18, <1>19, <1>20, <1>21 DEF SlotInv, Kept
\* A processed operation of any kind.
LEMMA ProcessedSlots ==
  ASSUME NEW d \in Database, NEW row \in WalletRow, NEW r \in Request, NEW v,
         SlotInv(d), Owned(d), \A q \in Request : Moving(d, q),
         Alone(d, r), ~HasEntry(d, r),
         Sound(v, row, r), v.outcome = "PROCESSED", Moves(v, r), Judged(d, v, r)
  PROVE  SlotInv(processed(d, row, r, v))
<1> DEFINE freed == IF Input[r].kind = "ROLLBACK" /\ Input[v.refTx].kind = "REFUND"
                      THEN d.tx[v.refTx].refTx ELSE None
<1>1. PICK x : x = processed(d, row, r, v)
  OBVIOUS
<1>2. /\ MovedRow(d, x, r, v.refTx)
      /\ \A q \in Request : x.tx[q].reversedBy =
           IF IsReversalKind(Input[r].kind) /\ q = v.refTx THEN r
           ELSE IF IsReversalKind(Input[r].kind) /\ q = freed THEN None
           ELSE d.tx[q].reversedBy
  BY <1>1, ProcessedSlotRows DEF MovedRow
<1>3. PICK free : free = freed
  OBVIOUS
<1> HIDE DEF freed
<1>4. CASE IsReversalKind(Input[r].kind)
  <2>1. v.refTx \in Request
    BY <1>4 DEF Sound, Fits
  <2>2. \A q \in Request : x.tx[q].reversedBy =
          IF q = v.refTx THEN r ELSE IF q = free THEN None ELSE d.tx[q].reversedBy
    BY <1>2, <1>3, <1>4
  <2>3. free = IF Input[r].kind = "ROLLBACK" /\ Input[v.refTx].kind = "REFUND"
                 THEN d.tx[v.refTx].refTx ELSE None
    BY <1>3 DEF freed
  <2> QED BY <1>1, <1>2, <1>4, <2>1, <2>2, <2>3, ReversalSlots
<1>5. CASE ~IsReversalKind(Input[r].kind)
  <2>1. \A q \in Request : x.tx[q].reversedBy = d.tx[q].reversedBy
    BY <1>2, <1>5
  <2> QED BY <1>1, <1>2, <1>5, <2>1, PlainSlots
<1> QED BY <1>4, <1>5

\* What does not touch transactions and their entries keeps SlotInv.
LEMMA SameSlots ==
  ASSUME NEW d, NEW x, SlotInv(d), x.tx = d.tx,
         \A q \in Request : HasEntry(x, q) <=> HasEntry(d, q)
  PROVE  SlotInv(x)
<1>1. \A t : Voids(x, t) = Voids(d, t)
  BY DEF Voids
<1>2. \A t : Standing(x, t) = Standing(d, t)
  BY <1>1 DEF Standing
<1>3. Unique(x) /\ Linked(x)
  BY DEF SlotInv, Unique, Linked, Present
<1>4. Aimed(x)
  BY DEF SlotInv, Aimed
<1>5. \A t \in Request : Slot(x, t)
  BY <1>2 DEF SlotInv, Slot, Present
<1>6. \A t \in Request : Kept(x, t) /\ Coded(x, t)
  BY DEF SlotInv, Kept, HasActiveWin, Coded
<1> QED BY <1>3, <1>4, <1>5, <1>6 DEF SlotInv

\* A rejected operation.
LEMMA RejectedSlots ==
  ASSUME NEW d \in Database, NEW row \in WalletRow, NEW r \in Request, NEW v,
         SlotInv(d), Owned(d), Alone(d, r), Sound(v, row, r), v.outcome = "REJECTED"
  PROVE  SlotInv(rejected(d, row, r, v))
<1>1. PICK x : x = rejected(d, row, r, v)
  OBVIOUS
<1>2. /\ x.tx[r].state = "REJECTED"
      /\ x.tx[r].code = v.code
      /\ x.tx[r].reversedBy = d.tx[r].reversedBy
      /\ \A q \in Request \ {r} : x.tx[q] = d.tx[q]
      /\ x.ledger = d.ledger
  BY <1>1 DEF rejected, UpdateState, Database
<1>3. v.code # Ok
  BY DEF Sound, Fits, FailureCode, Insufficient, Ok
<1> QED BY <1>1, <1>2, <1>3, QuietSlots DEF HasEntry

\* What a first submission writes keeps SlotInv.
LEMMA AcceptSlots ==
  ASSUME NEW d \in Database, NEW row \in WalletRow, NEW r \in Request, NEW v,
         SlotInv(d), Owned(d), \A q \in Request : Moving(d, q),
         ~Present(d, r), Alone(d, r), Sound(v, row, r), Moves(v, r), Judged(d, v, r)
  PROVE  SlotInv(Accept(d, row, r, v))
<1> DEFINE y == CASE v.outcome = "PROCESSED" -> processed(d, row, r, v)
                  [] v.outcome = "REJECTED" -> rejected(d, row, r, v)
                  [] OTHER -> parkReference(d, row, r)
<1>1. y \in Database /\ SlotInv(y)
  <2>1. CASE v.outcome = "PROCESSED"
    <3>1. ~HasEntry(d, r)
      BY DEF Owned, HasEntry
    <3> QED BY <2>1, <3>1, ProcessedSlots, ProcessedType
  <2>2. CASE v.outcome = "REJECTED"
    BY <2>2, RejectedSlots, RejectedType
  <2>3. CASE v.outcome \notin {"PROCESSED", "REJECTED"}
    <3>1. PICK x : x = parkReference(d, row, r)
      OBVIOUS
    <3>2. /\ x.tx[r].state = "PENDING_REFERENCE"
          /\ x.tx[r].reversedBy = None
          /\ \A q \in Request \ {r} : x.tx[q] = d.tx[q]
          /\ x.ledger = d.ledger
      BY <3>1 DEF parkReference, NoTx, Database
    <3>3. d.tx[r].reversedBy = None
      BY DEF SlotInv, Slot
    <3>4. SlotInv(x)
      BY <3>2, <3>3, QuietSlots DEF HasEntry
    <3> QED BY <2>3, <3>1, <3>4, ParkType
  <2> QED BY <2>1, <2>2, <2>3
<1>2. Accept(d, row, r, v) = InsertInbox(y, r)
  BY DEF Accept
<1> HIDE DEF y
<1>3. PICK x : x = InsertInbox(y, r)
  OBVIOUS
<1>4. x.tx = y.tx /\ x.ledger = y.ledger
  BY <1>1, <1>3 DEF InsertInbox, Database
<1> QED BY <1>1, <1>2, <1>3, <1>4, SameSlots DEF HasEntry

\* What a resume writes keeps SlotInv, since the ledger refuses an operation
\* that has moved.
LEMMA SettleSlots ==
  ASSUME NEW d \in Database, NEW row \in WalletRow, NEW r \in Request, NEW v,
         SlotInv(d), Owned(d), \A q \in Request : Moving(d, q),
         Present(d, r), Sound(v, row, r), Moves(v, r), Judged(d, v, r),
         ~LedgerClash(d, r, v)
  PROVE  SlotInv(Settle(d, row, r, v))
<1>0. Alone(d, r)
  BY DEF Alone, SlotInv, Unique
<1>1. CASE v.outcome = "PROCESSED"
  <2>1. PICK y : y = processed(d, row, r, v)
    OBVIOUS
  <2>2. PICK x : x = DeleteWork(y, r)
    OBVIOUS
  <2>3. ~HasEntry(d, r)
    BY <1>1 DEF LedgerClash, Owned, HasEntry
  <2>4. SlotInv(y) /\ y \in Database
    BY <1>0, <1>1, <2>1, <2>3, ProcessedSlots, ProcessedType
  <2>5. x.tx = y.tx /\ x.ledger = y.ledger
    BY <2>2, <2>4 DEF DeleteWork, Database
  <2>6. Settle(d, row, r, v) = x
    BY <1>1, <2>1, <2>2 DEF Settle, settleProcessedExisting
  <2> QED BY <2>4, <2>5, <2>6, SameSlots DEF HasEntry
<1>2. CASE v.outcome = "REJECTED"
  <2>1. PICK y : y = rejected(d, row, r, v)
    OBVIOUS
  <2>2. PICK x : x = DeleteWork(y, r)
    OBVIOUS
  <2>3. SlotInv(y) /\ y \in Database
    BY <1>0, <1>2, <2>1, RejectedSlots, RejectedType
  <2>4. x.tx = y.tx /\ x.ledger = y.ledger
    BY <2>2, <2>3 DEF DeleteWork, Database
  <2>5. Settle(d, row, r, v) = x
    BY <1>2, <2>1, <2>2 DEF Settle, settleRejectedExisting
  <2> QED BY <2>3, <2>4, <2>5, SameSlots DEF HasEntry
<1>3. CASE v.outcome \notin {"PROCESSED", "REJECTED"}
  <2>1. PICK x : x = TouchWork(d, r, d.work[r].ref + 1, 0, TRUE)
    OBVIOUS
  <2>2. x.tx = d.tx /\ x.ledger = d.ledger
    BY <2>1 DEF TouchWork, Database
  <2>3. Settle(d, row, r, v) = x
    BY <1>3, <2>1 DEF Settle
  <2> QED BY <2>2, <2>3, SameSlots DEF HasEntry
<1> QED BY <1>1, <1>2, <1>3

\* What a failed attempt writes keeps SlotInv.
LEMMA noteInfraSlots ==
  ASSUME NEW d \in Database, NEW i \in Item, i.tx \in Request,
         SlotInv(d), Owned(d), Present(d, i.tx)
  PROVE  SlotInv(noteInfra(d, i))
<1> DEFINE r == i.tx
<1>1. PICK x : x = noteInfra(d, i)
  OBVIOUS
<1>2. \/ x.tx = d.tx
      \/ /\ x.tx[r].state = "FAILED"
         /\ x.tx[r].reversedBy = d.tx[r].reversedBy
         /\ \A q \in Request \ {r} : x.tx[q] = d.tx[q]
  <2>1. d.tx \in [Request -> TxRow]
    BY DEF Database
  <2>2. [d.tx[r] EXCEPT !.state = "FAILED", !.code = "INFRA_EXHAUSTED"].state = "FAILED"
    BY <2>1 DEF TxRow
  <2>3. [d.tx[r] EXCEPT !.state = "FAILED", !.code = "INFRA_EXHAUSTED"].reversedBy
          = d.tx[r].reversedBy
    BY <2>1 DEF TxRow
  <2>4. \/ x.tx = d.tx
        \/ x.tx = [d.tx EXCEPT ![r] = [d.tx[r] EXCEPT !.state = "FAILED",
                                                       !.code = "INFRA_EXHAUSTED"]]
    BY <1>1 DEF noteInfra, TouchWork, DeleteWork, Database
  <2> QED BY <2>1, <2>2, <2>3, <2>4
<1>3. x.ledger = d.ledger
  BY <1>1 DEF noteInfra, TouchWork, DeleteWork, Database
<1>4. Alone(d, r)
  BY DEF Alone, SlotInv, Unique
<1>5. CASE x.tx = d.tx
  BY <1>1, <1>3, <1>5, SameSlots DEF HasEntry
<1>6. CASE x.tx # d.tx
  BY <1>1, <1>2, <1>3, <1>4, <1>6, QuietSlots DEF HasEntry
<1> QED BY <1>5, <1>6
-----------------------------------------------------------------------------
(* The steps keep the slots. *)

\* The view of a session keeps SlotInv.
LEMMA ViewSlots ==
  ASSUME IInv, StakeInv, NEW s
  PROVE  SlotInv(View(s))
BY MergeSlots DEF IInv, TablesOK, DbInv, StakeInv, View

\* The statements of a session.
LEMMA WriteSlots ==
  ASSUME IInv, StakeInv, NEW s, NEW x \in Database, Owned(x), SlotInv(x),
         Write(s, x), UNCHANGED committed
  PROVE  StakeInv'
<1>1. current' = Merge(current, x, Held(s))
  BY DEF Write
<1>2. SlotInv(current')
  BY <1>1, MergeSlots DEF IInv, TablesOK, DbInv, StakeInv
<1> QED BY <1>2 DEF StakeInv

\* A rollback puts the committed rows back.
LEMMA AbortSlots ==
  ASSUME IInv, StakeInv, NEW s, NEW n, Rollback(s, n)
  PROVE  StakeInv'
<1>1. committed' = committed /\ current' = Merge(current, committed, Held(s))
  BY DEF Rollback
<1>2. SlotInv(current')
  BY <1>1, MergeSlots DEF IInv, TablesOK, DbInv, StakeInv
<1> QED BY <1>1, <1>2 DEF StakeInv

\* A commit publishes the rows of whole wallets.
LEMMA CommitSlots ==
  ASSUME IInv, StakeInv, NEW s, Commit(s)
  PROVE  StakeInv'
<1>1. current' = current /\ committed' = Merge(committed, current, Held(s))
  BY DEF Commit
<1>2. SlotInv(committed')
  BY <1>1, MergeSlots DEF IInv, TablesOK, DbInv, StakeInv
<1> QED BY <1>1, <1>2 DEF StakeInv

\* A first submission decides on the view that it writes.
LEMMA SubmitSlots ==
  ASSUME IInv, RInv, StakeInv, NEW s \in Session, SubmitApply(s)
  PROVE  StakeInv'
<1> DEFINE r == sess[s].item.tx
           row == sess[s].wal
           d == View(s)
           v == applyOperation(d, row, r)
           x == Accept(d, row, r, v)
<1>1. /\ sess[s].pc = "apply"
      /\ Priors(d, r) = {}
      /\ Write(s, x)
      /\ UNCHANGED committed
  BY DEF SubmitApply, Fresh, Submitting
<1>2. /\ r \in Request /\ row \in WalletRow /\ row.version > 0
      /\ row = d.wallet[Input[r].wallet] /\ d \in Database /\ DbInv(d)
  BY <1>1, ApplyFacts DEF WalletOf
<1>3. SlotInv(d) /\ RowsInv(d)
  BY ViewSlots, ViewRows
<1> HIDE DEF d, r, row
<1>4. /\ ~Present(d, r)
      /\ Alone(d, r)
      /\ \A q \in Request : Moving(d, q)
      /\ Owned(d)
      /\ \A e \in d.ledger : e.tx # r
  <2>1. ~Present(d, r)
    BY <1>1, <1>2 DEF Priors, FindByProviderKey
  <2>2. Alone(d, r)
    BY <1>1, <1>2 DEF Alone, Twin, Priors, FindByProviderExternal
  <2> QED BY <1>2, <1>3, <2>1, <2>2 DEF RowsInv, DbInv, Owned
<1>5. Sound(v, row, r) /\ Moves(v, r) /\ Judged(d, v, r)
  BY <1>2, SoundVerdicts, VerdictsMove, VerdictsJudge
<1> HIDE DEF v
<1>6. x \in Database /\ DbInv(x) /\ SlotInv(x)
  BY <1>2, <1>3, <1>4, <1>5, AcceptType, AcceptInv, AcceptSlots
<1> HIDE DEF x
<1> QED BY <1>1, <1>6, WriteSlots DEF DbInv

\* A resume decides on the view that it writes, and moves nothing twice.
LEMMA ResumeSettleSlots ==
  ASSUME IInv, RInv, StakeInv, NEW s \in Session, NEW expired \in BOOLEAN,
         ResumeSettle(s, expired), Present(committed, sess[s].item.tx)
  PROVE  StakeInv'
<1> DEFINE r == sess[s].item.tx
           row == sess[s].wal
           d == View(s)
           v == resumeOne(d, row, r, expired)
           x == Settle(d, row, r, v)
<1>1. /\ sess[s].pc = "apply"
      /\ ~LedgerClash(d, r, v)
      /\ Write(s, x)
      /\ UNCHANGED committed
  BY DEF ResumeSettle, Resuming
<1>2. /\ r \in Request /\ row \in WalletRow /\ row.version > 0
      /\ row = d.wallet[Input[r].wallet] /\ d \in Database /\ DbInv(d)
  BY <1>1, ApplyFacts DEF WalletOf
<1>3. SlotInv(d) /\ RowsInv(d) /\ Present(d, r)
  BY <1>2, ViewSlots, ViewRows
<1> HIDE DEF d, r, row
<1>4. Owned(d) /\ \A q \in Request : Moving(d, q)
  BY <1>2, <1>3 DEF RowsInv, DbInv
<1>5. Sound(v, row, r) /\ Moves(v, r) /\ Judged(d, v, r)
  BY <1>2, SoundVerdicts, VerdictsMove, VerdictsJudge
<1> HIDE DEF v
<1>6. x \in Database /\ DbInv(x) /\ SlotInv(x)
  BY <1>1, <1>2, <1>3, <1>4, <1>5, SettleType, SettleInv, SettleSlots
<1> HIDE DEF x
<1> QED BY <1>1, <1>6, WriteSlots DEF DbInv

\* An attempt that errs touches no slot.
LEMMA ResumeErrorSlots ==
  ASSUME IInv, RInv, StakeInv, NEW s \in Session, NEW expired \in BOOLEAN,
         ResumeError(s, expired), Present(committed, sess[s].item.tx)
  PROVE  StakeInv'
<1> DEFINE i == sess[s].item
           d == View(s)
           x == noteInfra(d, i)
<1>1. /\ sess[s].pc = "apply"
      /\ Write(s, x) \/ current' = current
      /\ UNCHANGED committed
  BY DEF ResumeError, Resuming
<1>2. i \in Item /\ i.tx \in Request /\ d \in Database /\ DbInv(d)
  BY <1>1, ApplyFacts
<1>3. SlotInv(d) /\ Present(d, i.tx)
  BY <1>2, ViewSlots, ViewRows
<1>4. CASE current' = current
  BY <1>1, <1>4 DEF StakeInv
<1>5. CASE Write(s, x)
  <2> HIDE DEF d, i
  <2>1. x \in Database /\ DbInv(x) /\ SlotInv(x)
    BY <1>2, <1>3, noteInfraType, noteInfraInv, noteInfraSlots DEF DbInv
  <2> HIDE DEF x
  <2> QED BY <1>1, <1>5, <2>1, WriteSlots DEF DbInv
<1> QED BY <1>1, <1>4, <1>5

\* A step that touches no transaction and no entry of one.
LEMMA QuietStake ==
  ASSUME StakeInv, committed'.tx = committed.tx, current'.tx = current.tx,
         \A q \in Request : /\ HasEntry(committed', q) <=> HasEntry(committed, q)
                            /\ HasEntry(current', q) <=> HasEntry(current, q)
  PROVE  StakeInv'
<1>1. SlotInv(committed')
  BY SameSlots DEF StakeInv
<1>2. SlotInv(current')
  BY SameSlots DEF StakeInv
<1> QED BY <1>1, <1>2 DEF StakeInv

\* Every step of a session keeps the slots.
LEMMA SessionStepStake ==
  ASSUME IInv, RowsKeysInv, StakeInv, NEW s \in Session, SessionStep(s)
  PROVE  StakeInv'
<1>0. RInv
  BY DEF RowsKeysInv
<1>1. CASE UNCHANGED <<committed, current>>
  BY <1>1 DEF StakeInv
<1>2. CASE LockForUpdate(s) \/ SubmitNoWallet(s) \/ CascadeFind(s) \/ CascadeNext(s)
  BY <1>1, <1>2 DEF LockForUpdate, SubmitNoWallet, CascadeFind, CascadeNext
<1>3. CASE SubmitMismatch(s) \/ SubmitReplay(s) \/ SubmitError(s)
  BY <1>3, AbortSlots DEF SubmitMismatch, SubmitReplay, SubmitError
<1>4. CASE SubmitApply(s)
  BY <1>0, <1>4, SubmitSlots
<1>5. CASE Commit(s)
  BY <1>5, CommitSlots
<1>6. CASE CommitRefused(s) \/ DeadlockVictim(s)
  BY <1>6, AbortSlots DEF CommitRefused, DeadlockVictim
<1>7. CASE WorkGet(s)
  <2>1. \/ UNCHANGED <<committed, current>>
        \/ \E i : /\ committed' = DeleteWork(committed, i)
                  /\ current' = DeleteWork(current, i)
    BY <1>7 DEF WorkGet
  <2>2. /\ committed'.tx = committed.tx /\ committed'.ledger = committed.ledger
        /\ current'.tx = current.tx /\ current'.ledger = current.ledger
    BY <2>1 DEF DeleteWork, IInv, TablesOK, Database
  <2> QED BY <2>2, QuietStake DEF HasEntry
<1>8. ASSUME NEW expired \in BOOLEAN, ResumeSettle(s, expired) \/ ResumeError(s, expired)
      PROVE  StakeInv'
  <2>1. Present(committed, sess[s].item.tx)
    BY <1>8 DEF ResumeSettle, ResumeError, Resuming, RowsKeysInv, KeysInv, ResumesCommitted
  <2> QED BY <1>0, <1>8, <2>1, ResumeSettleSlots, ResumeErrorSlots
<1>9. CASE \E expired \in BOOLEAN : ResumeClash(s, expired)
  BY <1>9, AbortSlots DEF ResumeClash
<1> QED
  BY <1>2, <1>3, <1>4, <1>5, <1>6, <1>7, <1>8, <1>9 DEF SessionStep

\* Every step keeps the slots.
LEMMA NextStake == IInv /\ RowsKeysInv /\ StakeInv /\ [Next]_vars => StakeInv'
<1> SUFFICES ASSUME IInv, RowsKeysInv, StakeInv, [Next]_vars PROVE StakeInv'
  OBVIOUS
<1>1. CASE UNCHANGED <<committed, current>>
  BY <1>1 DEF StakeInv
<1>2. ASSUME NEW w \in Wallet, OpenWallet(w) PROVE StakeInv'
  <2>1. /\ committed'.tx = committed.tx
        /\ committed'.ledger = committed.ledger \cup OpeningEntry(w)
        /\ current'.tx = current.tx
        /\ current'.ledger = current.ledger \cup OpeningEntry(w)
    BY <1>2 DEF OpenWallet, Opened, IInv, TablesOK, Database
  <2>2. \A e \in OpeningEntry(w) : e.tx \notin Request
    BY ConstantsAssumption DEF OpeningEntry
  <2> QED BY <2>1, <2>2, QuietStake DEF HasEntry
<1>3. ASSUME NEW s \in Handler, NEW r \in Request, SubmitBegin(s, r) PROVE StakeInv'
  BY <1>1, <1>3 DEF SubmitBegin
<1>4. ASSUME NEW s \in Session, SessionStep(s) PROVE StakeInv'
  BY <1>4, SessionStepStake
<1>5. ASSUME NEW rs, NEW leased, committed' = Leased(committed, rs, leased),
             current' = Leased(current, rs, leased)
      PROVE  StakeInv'
  <2>1. /\ committed'.tx = committed.tx /\ committed'.ledger = committed.ledger
        /\ current'.tx = current.tx /\ current'.ledger = current.ledger
    BY <1>5 DEF Leased, IInv, TablesOK, Database
  <2> QED BY <2>1, QuietStake DEF HasEntry
<1>6. ASSUME NEW s \in Worker, NEW rs \in SUBSET Request, ClaimWork(s, rs)
      PROVE  StakeInv'
  BY <1>5, <1>6 DEF ClaimWork
<1>7. ASSUME NEW s \in Worker, TxFails(s) PROVE StakeInv'
  BY <1>7, AbortSlots DEF TxFails
<1>8. ASSUME NEW s \in Session, Crash(s) PROVE StakeInv'
  BY <1>8, AbortSlots DEF Crash
<1>9. ASSUME NEW r \in Request, LeaseExpires(r) PROVE StakeInv'
  BY <1>5, <1>9 DEF LeaseExpires
<1> QED
  BY <1>1, <1>2, <1>3, <1>4, <1>6, <1>7, <1>8, <1>9 DEF Next, vars

\* Empty tables.
LEMMA InitStake == Init => StakeInv
<1> SUFFICES ASSUME Init PROVE StakeInv
  OBVIOUS
<1>1. committed = EmptyDatabase /\ current = EmptyDatabase
  BY DEF Init
<1>2. PICK d : d = EmptyDatabase
  OBVIOUS
<1>3. /\ \A q \in Request : d.tx[q].state = "ABSENT" /\ d.tx[q].reversedBy = None
      /\ d.ledger = {}
  BY <1>2 DEF EmptyDatabase, NoTx
<1>4. Unique(d) /\ Aimed(d) /\ Linked(d)
  BY <1>3 DEF Unique, Aimed, Linked, Present, HasEntry
<1>5. \A t \in Request : Slot(d, t) /\ Kept(d, t) /\ Coded(d, t)
  BY <1>3 DEF Slot, Kept, Coded, Present
<1> QED BY <1>1, <1>2, <1>4, <1>5 DEF StakeInv, SlotInv

\* The slots say who stands in every reachable state.
THEOREM StakeInvariance == Spec => [](IInv /\ RowsKeysInv /\ StakeInv)
<1> QED BY InitOK, InitRows, InitStake, NextPreserves, NextRows, NextStake, PTL DEF Spec

\* No player keeps both the stake and the prize, whatever the order in which
\* parked WINs and reversals of a BET are resumed: a WIN looks at the slot of
\* its BET and a reversal at the live WINs under the same wallet lock.
THEOREM StakeOrPrize == Spec => []NoStakeBackWithLiveWin
<1>1. StakeInv => NoStakeBackWithLiveWin
  BY DEF StakeInv, SlotInv, Kept, NoStakeBackWithLiveWin
<1> QED BY <1>1, StakeInvariance, PTL

\* The movements that reverse an operation are those of Voids: the target of
\* a reversal is the only operation that carries the external id.
LEMMA CommittedReversals ==
  ASSUME IInv, RowsKeysInv, StakeInv, NEW t \in Request, Present(committed, t)
  PROVE  /\ \A e \in ReversalsOf(committed, t) : e.tx \in Voids(committed, t)
         /\ \A q \in Voids(committed, t) :
              /\ q \in Request /\ Present(committed, q)
              /\ \E e \in ReversalsOf(committed, t) : e.tx = q
<1>1. ASSUME NEW q \in Request, HasEntry(committed, q) PROVE Present(committed, q)
  BY <1>1 DEF HasEntry, IInv, TablesOK, DbInv, Owned
<1>2. ASSUME NEW e \in ReversalsOf(committed, t) PROVE e.tx \in Voids(committed, t)
  <2> DEFINE q == e.tx
  <2>1. /\ q \in Request /\ HasEntry(committed, q) /\ IsReversalKind(Input[q].kind)
        /\ Input[q].provider = Input[t].provider /\ Input[q].ref = Input[t].ext
    BY DEF ReversalsOf, HasEntry
  <2>2. PICK u \in Request : Aims(q, u) /\ HasEntry(committed, u)
    BY <2>1 DEF StakeInv, SlotInv, Aimed
  <2>3. u = t
    BY <1>1, <2>1, <2>2 DEF Aims, RowsKeysInv, KeysInv, OneOperationPerKey
  <2> QED BY <2>1, <2>2, <2>3 DEF Voids
<1>3. ASSUME NEW q \in Voids(committed, t)
      PROVE  /\ q \in Request /\ Present(committed, q)
             /\ \E e \in ReversalsOf(committed, t) : e.tx = q
  <2>1. /\ q \in Request /\ HasEntry(committed, q) /\ IsReversalKind(Input[q].kind)
        /\ Aims(q, t)
    BY DEF Voids
  <2>2. PICK e \in committed.ledger : e.tx = q
    BY <2>1 DEF HasEntry
  <2>3. e \in ReversalsOf(committed, t)
    BY <2>1, <2>2 DEF ReversalsOf, Aims
  <2> QED BY <1>1, <2>1, <2>2, <2>3
<1> QED BY <1>2, <1>3

\* The stake of a BET is given back at most once, and the reversal slot that
\* the next reversal will look at says whether it has been: two reversals
\* that arrive together, a parked one that a cascade and a worker both
\* resume, and the ROLLBACK that frees the slot of a voided REFUND included.
THEOREM StakeBackOnce == Spec => []StakeReturnedOnce
<1>1. ASSUME IInv, RowsKeysInv, StakeInv PROVE StakeReturnedOnce
  <2> SUFFICES ASSUME NEW t \in Request, Present(committed, t)
               PROVE  LET standing == StandingReversals(committed, t)
                      IN /\ \A e, f \in standing : e = f
                         /\ (committed.tx[t].reversedBy # None) <=> standing # {}
    BY DEF StakeReturnedOnce
  <2> DEFINE standing == StandingReversals(committed, t)
  <2>1. /\ \A e \in ReversalsOf(committed, t) : e.tx \in Voids(committed, t)
        /\ \A q \in Voids(committed, t) :
             /\ q \in Request /\ Present(committed, q)
             /\ \E e \in ReversalsOf(committed, t) : e.tx = q
    BY <1>1, CommittedReversals
  <2>2. ASSUME NEW q \in Voids(committed, t)
        PROVE  ReversalsOf(committed, q) = {} <=> Voids(committed, q) = {}
    <3>1. q \in Request /\ Present(committed, q)
      BY <2>1
    <3>2. /\ \A e \in ReversalsOf(committed, q) : e.tx \in Voids(committed, q)
          /\ \A p \in Voids(committed, q) : \E e \in ReversalsOf(committed, q) : e.tx = p
      BY <1>1, <3>1, CommittedReversals
    <3> QED BY <3>2
  <2>3. /\ \A e \in standing : e.tx \in Standing(committed, t) /\ e \in committed.ledger
        /\ \A q \in Standing(committed, t) : \E e \in standing : e.tx = q
    BY <2>1, <2>2 DEF StandingReversals, Standing, ReversalsOf
  <2>4. /\ committed.tx[t].reversedBy \in Standing(committed, t) \cup {None}
        /\ \A q \in Standing(committed, t) : committed.tx[t].reversedBy = q
    BY <1>1 DEF StakeInv, SlotInv, Slot
  <2>5. MovedOnce(committed)
    BY <1>1 DEF IInv, TablesOK, DbInv
  <2>6. None \notin Standing(committed, t)
    BY ConstantsAssumption DEF Standing, Voids
  <2> HIDE DEF standing
  <2>7. \A e, f \in standing : e = f
    BY <2>3, <2>4, <2>5 DEF MovedOnce
  <2>8. (committed.tx[t].reversedBy # None) <=> standing # {}
    BY <2>3, <2>4, <2>6
  <2> QED BY <2>7, <2>8 DEF standing
<1> QED BY <1>1, StakeInvariance, PTL
=============================================================================
