--------------------------- MODULE ObserverProofs ---------------------------
(***************************************************************************)
(* What others may rely on, for every value of the constants.              *)
(*                                                                         *)
(* First part: Wagering implements Account, the committed histories only   *)
(* grow.  The invariant of WageringProofs says that each version of the    *)
(* tables is whole; Ahead adds how the two are related: what is current    *)
(* continues what is committed, so that publishing it (Commit) rewrites    *)
(* nothing.                                                                *)
(*                                                                         *)
(* Second part: the answers of Answers hold.                               *)
(*                                                                         *)
(* Third part: what is final stays, as long as no operation is resumed by  *)
(* two parties (Firm).                                                     *)
(*                                                                         *)
(* Fourth part: all answers about a request agree.                         *)
(*                                                                         *)
(* Fifth part: which session can wait for which other one.                 *)
(*                                                                         *)
(* Sixth part: events and message ids are not taken back.                  *)
(***************************************************************************)
EXTENDS RowsProofs, Answers, SequenceTheorems

-----------------------------------------------------------------------------
(* The ledger of wallet w in x has all that it has in d, and no version is *)
(* taken back.                                                             *)

GrowsOn(d, x, w) ==
  /\ EntriesOf(d, w) \subseteq EntriesOf(x, w)
  /\ d.wallet[w].version <= x.wallet[w].version

Grows(d, x) == \A w \in Wallet : GrowsOn(d, x, w)

Ahead == Grows(committed, current)

\* A database grows into itself.
LEMMA GrowsReflexive ==
  ASSUME NEW d \in Database, NEW x, x.wallet = d.wallet, x.ledger = d.ledger
  PROVE  Grows(d, x)
BY DEF Grows, GrowsOn, EntriesOf, Database, WalletRow

\* The rows of a wallet in a merge are those of the one or of the other.
LEMMA MergeRows ==
  ASSUME NEW d, NEW e, NEW ws, NEW w \in Wallet
  PROVE  LET m == Merge(d, e, ws)
         IN /\ w \in ws => EntriesOf(m, w) = EntriesOf(e, w)
                             /\ m.wallet[w] = e.wallet[w]
            /\ w \notin ws => EntriesOf(m, w) = EntriesOf(d, w)
                                /\ m.wallet[w] = d.wallet[w]
BY DEF Merge, EntriesOf

-----------------------------------------------------------------------------
(* The effects only add to the ledger. *)

\* A processed operation adds at most its own entry, as a new version.
LEMMA ProcessedGrows ==
  ASSUME NEW d \in Database, NEW row \in WalletRow, NEW r \in Request, NEW v,
         Sound(v, row, r), v.outcome = "PROCESSED",
         row = d.wallet[Input[r].wallet]
  PROVE  Grows(d, processed(d, row, r, v))
<1> DEFINE w == Input[r].wallet
           after == Apply(row, v.dir, Input[r].amount)
           new == NewLedgerEntry(r, v.dir, row, after)
           x == processed(d, row, r, v)
<1>1. after \in WalletRow /\ row.version <= after.version
  <2>1. after.version \in {row.version, row.version + 1}
    BY DEF Apply, Credit, Debit, Moved
  <2> QED BY <2>1, AppliedType DEF WalletRow
<1>2. /\ x.ledger = d.ledger \cup new
      /\ x.wallet \in {d.wallet, [d.wallet EXCEPT ![w] = after]}
  BY DEF processed, Database
<1> HIDE DEF x, after, new
<1>3. \A u \in Wallet : d.wallet[u].version <= x.wallet[u].version
  <2> SUFFICES ASSUME NEW u \in Wallet
               PROVE  d.wallet[u].version <= x.wallet[u].version
    OBVIOUS
  <2>1. d.wallet \in [Wallet -> WalletRow] /\ d.wallet[u].version \in Nat
    BY DEF Database, WalletRow
  <2>2. CASE x.wallet = d.wallet
    BY <2>1, <2>2
  <2>3. CASE x.wallet = [d.wallet EXCEPT ![w] = after]
    <3>1. x.wallet[u] = IF u = w THEN after ELSE d.wallet[u]
      BY <2>1, <2>3
    <3> QED BY <1>1, <2>1, <3>1
  <2> QED BY <1>2, <2>2, <2>3
<1>4. \A u \in Wallet : EntriesOf(d, u) \subseteq EntriesOf(x, u)
  BY <1>2 DEF EntriesOf
<1> QED BY <1>3, <1>4 DEF Grows, GrowsOn, x

\* Neither the inbox nor a work row is part of a history.
LEMMA RowsOnly ==
  ASSUME NEW d \in Database, NEW r
  PROVE  /\ InsertInbox(d, r).wallet = d.wallet
         /\ InsertInbox(d, r).ledger = d.ledger
         /\ DeleteWork(d, r).wallet = d.wallet
         /\ DeleteWork(d, r).ledger = d.ledger
BY DEF InsertInbox, DeleteWork, Database

\* Whatever a session writes for an operation, it adds to the ledger.
LEMMA EffectsGrow ==
  ASSUME NEW d \in Database, NEW row \in WalletRow, NEW r \in Request, NEW v,
         Sound(v, row, r), row = d.wallet[Input[r].wallet]
  PROVE  Grows(d, Accept(d, row, r, v)) /\ Grows(d, Settle(d, row, r, v))
<1>1. CASE v.outcome = "PROCESSED"
  <2> DEFINE x == processed(d, row, r, v)
  <2>1. x \in Database /\ Grows(d, x)
    BY <1>1, ProcessedType, ProcessedGrows
  <2>2. Accept(d, row, r, v) = InsertInbox(x, r) /\ Settle(d, row, r, v) = DeleteWork(x, r)
    BY <1>1 DEF Accept, Settle, settleProcessedExisting
  <2> HIDE DEF x
  <2> QED BY <2>1, <2>2, RowsOnly DEF Grows, GrowsOn, EntriesOf
<1>2. CASE v.outcome = "REJECTED"
  <2> DEFINE x == rejected(d, row, r, v)
  <2>1. x \in Database /\ x.wallet = d.wallet /\ x.ledger = d.ledger
    BY <1>2, RejectedType DEF rejected, Database
  <2>2. Accept(d, row, r, v) = InsertInbox(x, r) /\ Settle(d, row, r, v) = DeleteWork(x, r)
    BY <1>2 DEF Accept, Settle, settleRejectedExisting
  <2> HIDE DEF x
  <2> QED BY <2>1, <2>2, RowsOnly, GrowsReflexive
<1>3. CASE v.outcome \notin {"PROCESSED", "REJECTED"}
  <2> DEFINE x == parkReference(d, row, r)
             y == TouchWork(d, r, d.work[r].ref + 1, 0, TRUE)
  <2>1. x \in Database /\ x.wallet = d.wallet /\ x.ledger = d.ledger
    BY ParkType DEF parkReference, Database
  <2>2. y.wallet = d.wallet /\ y.ledger = d.ledger
    BY DEF TouchWork, Database
  <2>3. Accept(d, row, r, v) = InsertInbox(x, r) /\ Settle(d, row, r, v) = y
    BY <1>3 DEF Accept, Settle
  <2> HIDE DEF x, y
  <2> QED BY <2>1, <2>2, <2>3, RowsOnly, GrowsReflexive
<1> QED BY <1>1, <1>2, <1>3

-----------------------------------------------------------------------------
(* Steps: Step says that the committed histories grow and that the current *)
(* ones stay ahead.                                                        *)

Step == Ahead' /\ Grows(committed, committed')

\* A step that touches neither wallets nor ledgers.
LEMMA QuietGrows ==
  ASSUME IInv, Ahead,
         committed'.wallet = committed.wallet, committed'.ledger = committed.ledger,
         current'.wallet = current.wallet, current'.ledger = current.ledger
  PROVE  Step
BY GrowsReflexive DEF IInv, TablesOK, Step, Ahead, Grows, GrowsOn, EntriesOf

\* A rollback puts the committed rows back.
LEMMA RollbackGrows ==
  ASSUME IInv, Ahead, NEW s, NEW n, Rollback(s, n)
  PROVE  Step
<1>1. committed' = committed /\ current' = Merge(current, committed, Held(s))
  BY DEF Rollback
<1>2. Grows(committed, committed)
  BY GrowsReflexive DEF IInv, TablesOK
<1>3. \A w \in Wallet : GrowsOn(committed, current', w)
  BY <1>1, <1>2, MergeRows DEF Ahead, Grows, GrowsOn
<1> QED BY <1>1, <1>2, <1>3 DEF Step, Ahead, Grows

\* Statements that add to what their session sees.
LEMMA WriteGrows ==
  ASSUME IInv, Ahead, NEW s \in Session, NEW d \in Database,
         Grows(View(s), d), Write(s, d), UNCHANGED committed
  PROVE  Step
<1>1. current' = Merge(current, d, Held(s))
  BY DEF Write
<1>2. Grows(committed, committed)
  BY GrowsReflexive DEF IInv, TablesOK
<1>3. ASSUME NEW w \in Wallet PROVE GrowsOn(committed, current', w)
  <2>1. CASE w \in Held(s)
    <3>1. /\ EntriesOf(View(s), w) = EntriesOf(current, w)
          /\ View(s).wallet[w] = current.wallet[w]
      BY <2>1, MergeRows DEF View
    <3>2. GrowsOn(View(s), d, w) /\ GrowsOn(committed, current, w)
      BY DEF Ahead, Grows
    <3>3. /\ EntriesOf(current', w) = EntriesOf(d, w)
          /\ current'.wallet[w] = d.wallet[w]
      BY <1>1, <2>1, MergeRows
    <3>4. /\ committed.wallet[w].version \in Nat
          /\ current.wallet[w].version \in Nat
          /\ d.wallet[w].version \in Nat
      BY DEF IInv, TablesOK, Database, WalletRow
    <3>5. committed.wallet[w].version <= current'.wallet[w].version
      BY <3>1, <3>2, <3>3, <3>4 DEF GrowsOn
    <3> QED BY <3>1, <3>2, <3>3, <3>5 DEF GrowsOn
  <2>2. CASE w \notin Held(s)
    BY <1>1, <2>2, MergeRows DEF Ahead, Grows, GrowsOn
  <2> QED BY <2>1, <2>2
<1> QED BY <1>2, <1>3 DEF Step, Ahead, Grows

\* A commit publishes what continues the histories that were visible.
LEMMA CommitGrows ==
  ASSUME IInv, Ahead, NEW s, Commit(s)
  PROVE  Step
<1>1. committed' = Merge(committed, current, Held(s)) /\ current' = current
  BY DEF Commit
<1>2. Grows(committed, committed) /\ Grows(current, current)
  BY GrowsReflexive DEF IInv, TablesOK
<1>3. \A w \in Wallet : GrowsOn(committed, committed', w)
  BY <1>1, <1>2, MergeRows DEF Ahead, Grows, GrowsOn
<1>4. \A w \in Wallet : GrowsOn(committed', current', w)
  BY <1>1, <1>2, MergeRows DEF Ahead, Grows, GrowsOn
<1> QED BY <1>3, <1>4 DEF Step, Ahead, Grows

\* Opening a wallet starts its history.
LEMMA OpenWalletGrows ==
  ASSUME IInv, Ahead, NEW w \in Wallet, OpenWallet(w)
  PROVE  Step
<1>1. committed' = Opened(committed, w) /\ current' = Opened(current, w)
  BY DEF OpenWallet
<1>2. committed.wallet[w].version = 0 /\ current.wallet[w].version = 0
  <2>1. lock[w] = None /\ ~WalletExists(committed, w)
    BY DEF IInv, LockOK, OpenWallet
  <2>2. committed.wallet[w] = current.wallet[w]
    BY <2>1 DEF IInv, LockOK
  <2> QED BY <2>1, <2>2 DEF WalletExists, IInv, TablesOK, Database, WalletRow
<1>3. \A d \in Database :
        /\ Opened(d, w).ledger = d.ledger \cup OpeningEntry(w)
        /\ \A u \in Wallet : Opened(d, w).wallet[u].version
                               = IF u = w THEN 1 ELSE d.wallet[u].version
  BY DEF Opened, Database
<1>4. committed \in Database /\ current \in Database
  BY DEF IInv, TablesOK
<1>5. \A u \in Wallet : /\ committed.wallet[u].version \in Nat
                        /\ committed.wallet[u].version <= current.wallet[u].version
  BY <1>4 DEF Database, WalletRow, Ahead, Grows, GrowsOn
<1>6. \A u \in Wallet : GrowsOn(committed, committed', u)
  BY <1>1, <1>2, <1>3, <1>4, <1>5 DEF GrowsOn, EntriesOf
<1>7. \A u \in Wallet : GrowsOn(committed', current', u)
  <2>1. \A u \in Wallet : EntriesOf(committed', u) \subseteq EntriesOf(current', u)
    BY <1>1, <1>3, <1>4 DEF Ahead, Grows, GrowsOn, EntriesOf
  <2>2. \A u \in Wallet : committed'.wallet[u].version <= current'.wallet[u].version
    BY <1>1, <1>3, <1>4, <1>5
  <2> QED BY <2>1, <2>2 DEF GrowsOn
<1> QED BY <1>6, <1>7 DEF Step, Ahead, Grows

\* A first submission or a resume adds to the ledger under its lock.
LEMMA VerdictGrows ==
  ASSUME IInv, Ahead, NEW s \in Session,
         SubmitApply(s) \/ \E expired \in BOOLEAN : ResumeSettle(s, expired)
  PROVE  Step
<1> DEFINE r == sess[s].item.tx
           row == sess[s].wal
           d == View(s)
<1>1. sess[s].pc = "apply" /\ UNCHANGED committed
  BY DEF SubmitApply, Fresh, Submitting, ResumeSettle, Resuming
<1>2. /\ r \in Request /\ row \in WalletRow
      /\ row = d.wallet[Input[r].wallet] /\ d \in Database
  BY <1>1, ApplyFacts DEF WalletOf
<1>3. PICK v : /\ Sound(v, row, r)
               /\ Write(s, Accept(d, row, r, v)) \/ Write(s, Settle(d, row, r, v))
  BY <1>2, SoundVerdicts DEF SubmitApply, ResumeSettle
<1> HIDE DEF r, row
<1>4. /\ Grows(d, Accept(d, row, r, v)) /\ Accept(d, row, r, v) \in Database
      /\ Grows(d, Settle(d, row, r, v)) /\ Settle(d, row, r, v) \in Database
  BY <1>2, <1>3, EffectsGrow, AcceptType, SettleType
<1> QED BY <1>1, <1>3, <1>4, WriteGrows

\* A resume that errs touches neither wallet nor ledger.
LEMMA ResumeErrorGrows ==
  ASSUME IInv, Ahead, NEW s \in Session, NEW expired \in BOOLEAN,
         ResumeError(s, expired)
  PROVE  Step
<1> DEFINE i == sess[s].item
           x == noteInfra(View(s), i)
<1>1. /\ sess[s].pc = "apply" /\ UNCHANGED committed
      /\ Write(s, x) \/ current' = current
  BY DEF ResumeError, Resuming
<1>2. i \in Item /\ i.tx \in Request /\ View(s) \in Database
  BY <1>1, ApplyFacts
<1>3. x \in Database /\ x.wallet = View(s).wallet /\ x.ledger = View(s).ledger
  <2>1. x \in Database
    BY <1>2, noteInfraType
  <2>2. \/ \E t : x = DeleteWork([View(s) EXCEPT !.tx = t], i.tx)
        \/ x = TouchWork(View(s), i.tx, i.ref, i.infra + 1, FALSE)
    BY DEF noteInfra
  <2> HIDE DEF x, i
  <2>3. ASSUME NEW t, NEW d \in Database, x = DeleteWork([d EXCEPT !.tx = t], i.tx)
        PROVE  x.wallet = d.wallet /\ x.ledger = d.ledger
    BY <2>3 DEF DeleteWork, Database
  <2>4. ASSUME NEW d \in Database, NEW n, x = TouchWork(d, i.tx, i.ref, n, FALSE)
        PROVE  x.wallet = d.wallet /\ x.ledger = d.ledger
    BY <2>4 DEF TouchWork, Database
  <2> QED BY <1>2, <2>1, <2>2, <2>3, <2>4, Zenon
<1>4. Grows(View(s), x)
  BY <1>2, <1>3, GrowsReflexive
<1>5. CASE current' = current
  BY <1>1, <1>5, QuietGrows
<1>6. CASE Write(s, x)
  BY <1>1, <1>3, <1>4, <1>6, WriteGrows
<1> QED BY <1>1, <1>5, <1>6

\* Leases and the deletion of work rows leave the histories alone.
LEMMA WorkRowsGrow ==
  ASSUME IInv, Ahead,
         \/ \E rs, f : committed' = Leased(committed, rs, f) /\ current' = Leased(current, rs, f)
         \/ \E r : committed' = DeleteWork(committed, r) /\ current' = DeleteWork(current, r)
  PROVE  Step
<1>1. \A d \in Database : \A rs, f : /\ Leased(d, rs, f).wallet = d.wallet
                                     /\ Leased(d, rs, f).ledger = d.ledger
  BY DEF Leased, Database
<1>2. committed \in Database /\ current \in Database
  BY DEF IInv, TablesOK
<1> QED BY <1>1, <1>2, RowsOnly, QuietGrows

\* What a session does by itself.
LEMMA SessionGrows ==
  ASSUME IInv, Ahead, NEW s \in Session, SessionStep(s)
  PROVE  Step
<1>1. CASE LockForUpdate(s) \/ SubmitNoWallet(s) \/ CascadeFind(s) \/ CascadeNext(s)
  <2>1. UNCHANGED <<committed, current>>
    BY <1>1 DEF LockForUpdate, SubmitNoWallet, CascadeFind, CascadeNext
  <2> QED BY <2>1, QuietGrows
<1>2. CASE SubmitMismatch(s) \/ SubmitReplay(s) \/ SubmitError(s) \/ CommitRefused(s)
             \/ DeadlockVictim(s)
  <2>1. \E n : Rollback(s, n)
    BY <1>2 DEF SubmitMismatch, SubmitReplay, SubmitError, CommitRefused, DeadlockVictim
  <2> QED BY <2>1, RollbackGrows
<1>3. CASE SubmitApply(s) \/ \E expired \in BOOLEAN : ResumeSettle(s, expired)
  BY <1>3, VerdictGrows
<1>4. CASE Commit(s)
  BY <1>4, CommitGrows
<1>5. CASE WorkGet(s)
  <2>1. \/ UNCHANGED <<committed, current>>
        \/ \E r : committed' = DeleteWork(committed, r) /\ current' = DeleteWork(current, r)
    BY <1>5 DEF WorkGet
  <2> QED BY <2>1, QuietGrows, WorkRowsGrow
<1>6. CASE \E expired \in BOOLEAN : ResumeClash(s, expired)
  BY <1>6, RollbackGrows DEF ResumeClash
<1>7. CASE \E expired \in BOOLEAN : ResumeError(s, expired)
  BY <1>7, ResumeErrorGrows
<1> QED BY <1>1, <1>2, <1>3, <1>4, <1>5, <1>6, <1>7 DEF SessionStep

\* Every step.
LEMMA NextGrows == IInv /\ Ahead /\ [Next]_vars => Step
<1> SUFFICES ASSUME IInv, Ahead, [Next]_vars PROVE Step
  OBVIOUS
<1> USE DEF Session
<1>1. CASE UNCHANGED vars
  BY <1>1, QuietGrows DEF vars
<1>2. ASSUME NEW w \in Wallet, OpenWallet(w) PROVE Step
  BY <1>2, OpenWalletGrows
<1>3. ASSUME NEW s \in Handler, NEW r \in Request, SubmitBegin(s, r) PROVE Step
  BY <1>3, QuietGrows DEF SubmitBegin
<1>4. ASSUME NEW s \in Session, SessionStep(s) PROVE Step
  BY <1>4, SessionGrows
<1>5. ASSUME NEW s \in Worker, NEW rs, ClaimWork(s, rs) PROVE Step
  BY <1>5, WorkRowsGrow DEF ClaimWork
<1>6. ASSUME NEW s \in Session, TxFails(s) \/ Crash(s) PROVE Step
  BY <1>6, RollbackGrows DEF TxFails, Crash
<1>7. ASSUME NEW r \in Request, LeaseExpires(r) PROVE Step
  BY <1>7, WorkRowsGrow DEF LeaseExpires
<1> QED BY <1>1, <1>2, <1>3, <1>4, <1>5, <1>6, <1>7 DEF Next

-----------------------------------------------------------------------------
(* Histories. *)

\* A history is as long as the version of its wallet.
LEMMA HistoryLength ==
  ASSUME NEW d \in Database, NEW w \in Wallet
  PROVE  /\ Len(HistoryOf(d, w)) = d.wallet[w].version
         /\ d.wallet[w].version \in Nat
<1> DEFINE h == HistoryOf(d, w)
           n == d.wallet[w].version
<1>1. n \in Nat
  BY DEF Database, WalletRow
<1>2. DOMAIN h = 1..n /\ h \in [1..n -> {h[v] : v \in 1..n}]
  BY DEF HistoryOf
<1> HIDE DEF h, n
<1>3. h \in Seq({h[v] : v \in 1..n})
  BY <1>1, <1>2, SeqDef
<1>4. Len(h) = n
  BY <1>1, <1>2, <1>3, LenProperties
<1> QED BY <1>1, <1>4 DEF h, n

\* A whole ledger says what the history is: zero before its first entry, and
\* from there on the balance of the entry of each version.
LEMMA HistoryAt ==
  ASSUME NEW d \in Database, NEW w \in Wallet, Chained(d, w)
  PROVE  LET h == HistoryOf(d, w)
             n == d.wallet[w].version
         IN /\ \A v \in 1..n : v < FirstVersion(w) => h[v] = 0
            /\ \A v \in 1..n : v >= FirstVersion(w) =>
                 \E e \in EntriesOf(d, w) : e.version = v
            /\ \A v \in 1..n : \A e \in EntriesOf(d, w) : e.version = v => h[v] = e.after
<1> DEFINE n == d.wallet[w].version
           h == HistoryOf(d, w)
<1>1. n \in Nat /\ FirstVersion(w) \in 1..2
  BY DEF Database, WalletRow, FirstVersion
<1>2. /\ \A v \in FirstVersion(w)..n : \E e \in EntriesOf(d, w) : e.version = v
      /\ \A e, f \in EntriesOf(d, w) : e.version = f.version => e = f
      /\ \A e \in EntriesOf(d, w) : e.version \in FirstVersion(w)..n
      /\ \A e \in EntriesOf(d, w) : e.version = n => e.after = d.wallet[w].balance
      /\ n < FirstVersion(w) => d.wallet[w].balance = 0
  BY DEF Chained, Chain
<1>3. \A v \in 1..n : h[v] = IF v = n THEN d.wallet[w].balance
                             ELSE IF v < FirstVersion(w) THEN 0 ELSE BalanceAt(d, w, v)
  BY DEF HistoryOf
<1>4. \A v \in 1..n : \A e \in EntriesOf(d, w) : e.version = v => BalanceAt(d, w, v) = e.after
  BY <1>2 DEF BalanceAt
<1> HIDE DEF n, h
<1>5. \A v \in 1..n : v < FirstVersion(w) => h[v] = 0
  BY <1>1, <1>2, <1>3
<1>6. \A v \in 1..n : v >= FirstVersion(w) => \E e \in EntriesOf(d, w) : e.version = v
  BY <1>1, <1>2
<1>7. \A v \in 1..n : \A e \in EntriesOf(d, w) : e.version = v => h[v] = e.after
  BY <1>1, <1>2, <1>3, <1>4
<1> QED BY <1>5, <1>6, <1>7 DEF n, h

\* A ledger that grows continues the history, and no balance is negative.
LEMMA HistoryContinues ==
  ASSUME NEW d \in Database, NEW x \in Database, NEW w \in Wallet,
         Chained(d, w), Chained(x, w), GrowsOn(d, x, w)
  PROVE  /\ Ledger!Continues(HistoryOf(d, w), HistoryOf(x, w))
         /\ \A v \in 1..Len(HistoryOf(x, w)) : HistoryOf(x, w)[v] >= 0
<1> DEFINE hd == HistoryOf(d, w)
           hx == HistoryOf(x, w)
           nd == d.wallet[w].version
           nx == x.wallet[w].version
<1>1. Len(hd) = nd /\ Len(hx) = nx /\ nd \in Nat /\ nx \in Nat
  BY HistoryLength
<1>2. nd <= nx /\ EntriesOf(d, w) \subseteq EntriesOf(x, w)
  BY DEF GrowsOn
<1>3. /\ \A v \in 1..nd : v < FirstVersion(w) => hd[v] = 0
      /\ \A v \in 1..nd : v >= FirstVersion(w) =>
           \E e \in EntriesOf(d, w) : e.version = v
      /\ \A v \in 1..nd : \A e \in EntriesOf(d, w) : e.version = v => hd[v] = e.after
  BY HistoryAt
<1>4. /\ \A v \in 1..nx : v < FirstVersion(w) => hx[v] = 0
      /\ \A v \in 1..nx : v >= FirstVersion(w) =>
           \E e \in EntriesOf(x, w) : e.version = v
      /\ \A v \in 1..nx : \A e \in EntriesOf(x, w) : e.version = v => hx[v] = e.after
  BY HistoryAt
<1>5. FirstVersion(w) \in 1..2
  BY DEF FirstVersion
<1>6. \A e \in EntriesOf(x, w) : e.after \in Nat
  BY InputFacts DEF EntriesOf, Database, Entry, Amount
<1> HIDE DEF hd, hx, nd, nx
<1>7. \A v \in 1..nd : hx[v] = hd[v]
  BY <1>1, <1>2, <1>3, <1>4, <1>5
<1>8. \A v \in 1..nx : hx[v] >= 0
  BY <1>1, <1>4, <1>5, <1>6
<1>9. Ledger!Continues(hd, hx)
  BY <1>1, <1>2, <1>7 DEF Ledger!Continues
<1> QED BY <1>1, <1>8, <1>9 DEF hx, hd

-----------------------------------------------------------------------------
(* The refinement. *)

\* Before any wallet is opened there is no history, and nothing is ahead.
LEMMA InitMaps == Init => Ledger!AccountInit /\ Ahead
<1> SUFFICES ASSUME Init PROVE Ledger!AccountInit /\ Ahead
  OBVIOUS
<1>1. committed \in Database /\ current = committed /\ committed = EmptyDatabase
  BY InitOK DEF Init, IInv, TablesOK
<1>2. \A w \in Wallet : committed.wallet[w].version = 0
  BY <1>1 DEF EmptyDatabase, NoWallet
<1>3. \A w \in Wallet : HistoryOf(committed, w) = <<>>
  BY <1>2 DEF HistoryOf
<1>4. Ledger!AccountInit
  BY <1>3 DEF Histories, Ledger!AccountInit, Ledger!NoHistory
<1>5. Ahead
  BY <1>1, GrowsReflexive DEF Ahead
<1> QED BY <1>4, <1>5

\* A step of Wagering is a step of Account or leaves every history alone.
LEMMA StepMaps ==
  IInv /\ IInv' /\ Step => [Ledger!AccountNext]_(Histories(committed))
<1> SUFFICES ASSUME IInv, IInv', Step PROVE Ledger!AccountNext
  OBVIOUS
<1>1. /\ committed \in Database /\ committed' \in Database
      /\ \A w \in Wallet : Chained(committed, w) /\ Chained(committed', w)
      /\ \A w \in Wallet : GrowsOn(committed, committed', w)
  BY DEF IInv, TablesOK, DbInv, Step, Grows
<1>2. \A w \in Wallet :
        /\ Ledger!Continues(HistoryOf(committed, w), HistoryOf(committed', w))
        /\ \A v \in 1..Len(HistoryOf(committed', w)) : HistoryOf(committed', w)[v] >= 0
  BY <1>1, HistoryContinues
<1>3. \A w \in Wallet : /\ Histories(committed)[w] = HistoryOf(committed, w)
                        /\ Histories(committed)'[w] = HistoryOf(committed', w)
  BY DEF Histories
<1> QED BY <1>2, <1>3 DEF Ledger!AccountNext

\* However submits, cascades, workers, deadlocks and crashes interleave, what
\* a commit makes visible only adds versions to the histories of the wallets:
\* no balance that was visible once is changed, reordered or taken back.
THEOREM WalletsImplementAccount == Spec => ImplementsAccount
<1>1. Init => IInv /\ Ahead /\ Ledger!AccountInit
  BY InitOK, InitMaps
<1>2. IInv /\ Ahead /\ [Next]_vars => IInv' /\ Ahead' /\ [Ledger!AccountNext]_(Histories(committed))
  BY NextPreserves, NextGrows, StepMaps DEF Step
<1> QED BY <1>1, <1>2, PTL DEF Spec, ImplementsAccount, Ledger!AccountSpec

-----------------------------------------------------------------------------
(* Second part: answers.                                                   *)

\* Every step of Answers is one of Wagering, or none.
LEMMA Projects == [AnswersNext]_answersVars => [Next]_vars
<1> SUFFICES ASSUME [AnswersNext]_answersVars PROVE [Next]_vars
  OBVIOUS
<1>1. CASE UNCHANGED answersVars
  BY <1>1 DEF answersVars
<1>2. CASE Elsewhere
  BY <1>2 DEF Elsewhere
<1>3. ASSUME NEW s \in Handler, HandlerStep(s) PROVE Next
  <2>1. s \in Session
    BY DEF Session
  <2>2. CASE Decide(s) \/ Replay(s) \/ Refuse(s)
    <3>1. SessionStep(s)
      BY <2>2 DEF Decide, Replay, Refuse, SessionStep
    <3> QED BY <2>1, <3>1 DEF Next
  <2>3. CASE Carry(s)
    <3>1. SessionStep(s)
      BY <2>3 DEF Carry, Proceed, SessionStep
    <3> QED BY <2>1, <3>1 DEF Next
  <2>4. CASE Fail(s)
    BY <2>1, <2>4 DEF Fail, Next
  <2> QED BY <1>3, <2>2, <2>3, <2>4 DEF HandlerStep
<1>4. ASSUME NEW r \in Request, GetTransaction(r) PROVE UNCHANGED vars
  BY <1>4 DEF GetTransaction
<1> QED BY <1>1, <1>2, <1>3, <1>4 DEF AnswersNext

-----------------------------------------------------------------------------
(* The invariant of the answers.                                           *)

\* The rows of the operations of wallet w and its ledger are the same in
\* both versions.
Same(w) ==
  /\ \A r \in Request : Input[r].wallet = w => current.tx[r] = committed.tx[r]
  /\ EntriesOf(current, w) = EntriesOf(committed, w)

\* A session that has written nothing yet.
Clean(n) ==
  \/ n.pc \in {"idle", "find"}
  \/ n.op = "submit" /\ n.pc \in {"lock", "apply"}
  \/ n.op = "work" /\ n.pc = "next"

CleanInv ==
  \A w \in Wallet : lock[w] = None \/ Clean(sess[lock[w]]) => Same(w)

\* What an answer about operation r stands on: its row, and behind a success
\* the movement.
Behind(d, r, status, seen) ==
  /\ Present(d, r)
  /\ status = "PROCESSED" /\ Input[r].kind # "LOSS" =>
       \E e \in EntriesOf(d, Input[r].wallet) :
         e.tx = r /\ e.after = seen.balance /\ e.version = seen.version

\* A rejection has a failure code, a success has none.
Meant(res) ==
  /\ res.outcome = "REJECTED" => res.code # Ok
  /\ res.outcome = "PROCESSED" => res.code = Ok

\* The result a handler holds is about to be committed, or is.
ResultInv(s) ==
  result[s] # Pending =>
    LET res == result[s].submit
    IN /\ res.tx = result[s].request
       /\ Meant(res) /\ res.outcome # "REPLAY"
       /\ \/ /\ sess[s].op = "submit" /\ sess[s].pc = "commit"
             /\ lock[Input[res.tx].wallet] = s
             /\ Behind(current, res.tx, res.outcome, res.seen)
          \/ /\ sess[s].op = "cascade"
             /\ Behind(committed, res.tx, res.outcome, res.seen)

\* An answer to r tells the truth about an operation of the same content.
Truthful(d, r, a) ==
  a.http # 409 => /\ a.tx \in Request
                  /\ PayloadHash(a.tx) = PayloadHash(r)
                  /\ Behind(d, a.tx, a.status, a.seen)

ToldInv == \A r \in Request : \A a \in told[r] : Truthful(committed, r, a)

AInv ==
  /\ AnswersTypeOK
  /\ CleanInv
  /\ ToldInv
  /\ \A s \in Handler : ResultInv(s)

-----------------------------------------------------------------------------
(* What a step does to rows, ledgers and locks.                            *)

\* Both versions keep their rows and get the same entries; no session that
\* has written something counts as clean afterwards.
CalmStep ==
  /\ committed'.tx = committed.tx /\ current'.tx = current.tx
  /\ \E new : /\ committed'.ledger = committed.ledger \cup new
              /\ current'.ledger = current.ledger \cup new
  /\ lock' = lock
  /\ \A s \in Session : Clean(sess'[s]) => Clean(sess[s])

\* One session rolls back, commits, or writes under its locks; sess' says
\* where it then is.
RollbackOf(s) ==
  /\ committed' = committed
  /\ current' = Merge(current, committed, Held(s))
  /\ lock' = Release(s)
  /\ \E n : n.pc # "commit" /\ sess' = [sess EXCEPT ![s] = n]

CommitOf(s) ==
  /\ committed' = Merge(committed, current, Held(s))
  /\ current' = current
  /\ lock' = Release(s)
  /\ \E n : n.pc # "commit" /\ sess' = [sess EXCEPT ![s] = n]

WriteOf(s) ==
  /\ sess[s].pc = "apply"
  /\ committed' = committed
  /\ \E d : current' = Merge(current, d, Held(s))
  /\ lock' = lock
  /\ \E n : ~Clean(n) /\ sess' = [sess EXCEPT ![s] = n]

\* Every step is of one of these shapes.
Shape ==
  \/ CalmStep
  \/ \E s \in Session : LockForUpdate(s) \/ RollbackOf(s) \/ CommitOf(s) \/ WriteOf(s)

\* Steps on the work rows, and steps on no row.
LEMMA CalmTables ==
  ASSUME IInv,
         \/ UNCHANGED <<committed, current>>
         \/ \E rs, f : committed' = Leased(committed, rs, f) /\ current' = Leased(current, rs, f)
         \/ \E r : committed' = DeleteWork(committed, r) /\ current' = DeleteWork(current, r),
         lock' = lock,
         \A s \in Session : Clean(sess'[s]) => Clean(sess[s])
  PROVE  CalmStep
<1>1. \A d \in Database : \A rs, f : /\ Leased(d, rs, f).tx = d.tx
                                     /\ Leased(d, rs, f).ledger = d.ledger
  BY DEF Leased, Database
<1>2. \A d \in Database : \A r : /\ DeleteWork(d, r).tx = d.tx
                                 /\ DeleteWork(d, r).ledger = d.ledger
  BY DEF DeleteWork, Database
<1>3. committed \in Database /\ current \in Database
  BY DEF IInv, TablesOK
<1>4. /\ committed'.tx = committed.tx /\ current'.tx = current.tx
      /\ committed'.ledger = committed.ledger /\ current'.ledger = current.ledger
  BY <1>1, <1>2, <1>3
<1>5. /\ committed'.ledger = committed.ledger \cup {}
      /\ current'.ledger = current.ledger \cup {}
  BY <1>4
<1> QED BY <1>4, <1>5 DEF CalmStep

\* The session that follows an aborted transaction is not about to commit.
LEMMA Aborts ==
  ASSUME NEW s, NEW n \in {Idle, AfterTx(s)}, Rollback(s, n)
  PROVE  RollbackOf(s)
<1>1. Idle.pc # "commit" /\ AfterTx(s).pc # "commit"
  BY DEF AfterTx, Idle
<1>2. sess' = [sess EXCEPT ![s] = n]
  BY DEF Rollback
<1> QED BY <1>1, <1>2 DEF Rollback, RollbackOf

\* Opening a wallet writes the same into both versions.
LEMMA CalmOpening ==
  ASSUME IInv, NEW w \in Wallet, OpenWallet(w)
  PROVE  CalmStep
<1>1. committed \in Database /\ current \in Database
  BY DEF IInv, TablesOK
<1>2. \A d \in Database : /\ Opened(d, w).tx = d.tx
                          /\ Opened(d, w).ledger = d.ledger \cup OpeningEntry(w)
  BY DEF Opened, Database
<1> QED BY <1>1, <1>2 DEF OpenWallet, CalmStep

\* What a session does by itself.
LEMMA SessionShape ==
  ASSUME IInv, NEW s \in Session, SessionStep(s)
  PROVE  Shape
<1>0. sess \in [Session -> SessionState]
  BY DEF IInv
<1>1. CASE LockForUpdate(s)
  BY <1>1 DEF Shape
<1>2. CASE SubmitNoWallet(s)
  <2>1. \A t \in Session : Clean(sess'[t]) => Clean(sess[t])
    BY <1>0, <1>2 DEF SubmitNoWallet, Clean
  <2>2. UNCHANGED <<committed, current, lock>>
    BY <1>2 DEF SubmitNoWallet
  <2> QED BY <2>1, <2>2, CalmTables DEF Shape
<1>3. CASE SubmitMismatch(s) \/ SubmitReplay(s) \/ SubmitError(s) \/ CommitRefused(s)
             \/ DeadlockVictim(s) \/ \E expired \in BOOLEAN : ResumeClash(s, expired)
  <2>1. \E n \in {Idle, AfterTx(s)} : Rollback(s, n)
    BY <1>3 DEF SubmitMismatch, SubmitReplay, SubmitError, CommitRefused, DeadlockVictim,
                ResumeClash
  <2> QED BY <2>1, Aborts DEF Shape
<1>4. CASE SubmitApply(s)
  <2>1. ~Clean(Goto(s, "commit")) \/ sess[s].pc # "apply" \/ sess[s].op # "submit"
    BY <1>0 DEF Clean, Goto, SessionState
  <2>2. WriteOf(s)
    BY <1>4, <2>1 DEF SubmitApply, Fresh, Submitting, Write, WriteOf
  <2> QED BY <2>2 DEF Shape
<1>5. CASE Commit(s)
  <2>1. AfterCommit(s).pc # "commit"
    BY DEF AfterCommit, AfterTx, Idle
  <2>2. CommitOf(s)
    BY <1>5, <2>1 DEF Commit, CommitOf
  <2> QED BY <2>2 DEF Shape
<1>6. CASE CascadeFind(s) \/ CascadeNext(s)
  <2>1. \A t \in Session : Clean(sess'[t]) => Clean(sess[t])
    <3>1. CASE CascadeFind(s)
      BY <1>0, <3>1 DEF CascadeFind, Clean
    <3>2. CASE CascadeNext(s)
      BY <1>0, <3>2 DEF CascadeNext, Clean, SessionState
    <3> QED BY <1>6, <3>1, <3>2
  <2>2. UNCHANGED <<committed, current, lock>>
    BY <1>6 DEF CascadeFind, CascadeNext
  <2> QED BY <2>1, <2>2, CalmTables DEF Shape
<1>7. CASE WorkGet(s)
  <2>1. \A t \in Session : Clean(sess'[t]) => Clean(sess[t])
    BY <1>0, <1>7 DEF WorkGet, Clean
  <2>2. \/ UNCHANGED <<committed, current>>
        \/ \E r : committed' = DeleteWork(committed, r) /\ current' = DeleteWork(current, r)
    BY <1>7 DEF WorkGet
  <2>3. lock' = lock
    BY <1>7 DEF WorkGet
  <2> QED BY <2>1, <2>2, <2>3, CalmTables DEF Shape
<1>8. ASSUME NEW expired \in BOOLEAN, ResumeSettle(s, expired) \/ ResumeError(s, expired)
      PROVE  Shape
  <2>1. /\ Resuming(s) /\ committed' = committed /\ lock' = lock
        /\ sess' = [sess EXCEPT ![s] = AfterResume(s)]
        /\ current' = current \/ \E d : current' = Merge(current, d, Held(s))
    BY <1>8 DEF ResumeSettle, ResumeError, Write
  <2>2. ~Clean(AfterResume(s))
    BY <1>0, <2>1 DEF Clean, AfterResume, Resuming, Goto, Idle, SessionState
  <2>3. CASE current' = current
    <3>1. \A t \in Session : Clean(sess'[t]) => Clean(sess[t])
      BY <1>0, <2>1, <2>2
    <3> QED BY <2>1, <2>3, <3>1, CalmTables DEF Shape
  <2>4. CASE \E d : current' = Merge(current, d, Held(s))
    <3>1. WriteOf(s)
      BY <2>1, <2>2, <2>4 DEF WriteOf, Resuming
    <3> QED BY <3>1 DEF Shape
  <2> QED BY <2>1, <2>3, <2>4
<1> QED BY <1>1, <1>2, <1>3, <1>4, <1>5, <1>6, <1>7, <1>8 DEF SessionStep

\* Every step has one of the shapes.
LEMMA NextShape == IInv /\ [Next]_vars => Shape
<1> SUFFICES ASSUME IInv, [Next]_vars PROVE Shape
  OBVIOUS
<1> USE DEF Session
<1>0. sess \in [Session -> SessionState]
  BY DEF IInv
<1>1. CASE UNCHANGED vars
  BY <1>1, CalmTables DEF vars, Shape
<1>2. ASSUME NEW w \in Wallet, OpenWallet(w) PROVE Shape
  BY <1>2, CalmOpening DEF Shape
<1>3. ASSUME NEW s \in Handler, NEW r \in Request, SubmitBegin(s, r) PROVE Shape
  <2>1. \A t \in Session : Clean(sess'[t]) => Clean(sess[t])
    BY <1>0, <1>3 DEF SubmitBegin, Clean
  <2> QED BY <1>3, <2>1, CalmTables DEF SubmitBegin, Shape
<1>4. ASSUME NEW s \in Session, SessionStep(s) PROVE Shape
  BY <1>4, SessionShape
<1>5. ASSUME NEW s \in Worker, NEW rs, ClaimWork(s, rs) PROVE Shape
  <2>1. \A t \in Session : Clean(sess'[t]) => Clean(sess[t])
    BY <1>0, <1>5 DEF ClaimWork, Clean
  <2> QED BY <1>5, <2>1, CalmTables DEF ClaimWork, Shape
<1>6. ASSUME NEW s \in Session, TxFails(s) \/ Crash(s) PROVE Shape
  <2>1. RollbackOf(s)
    BY <1>6, Aborts DEF TxFails, Crash
  <2> QED BY <2>1 DEF Shape
<1>7. ASSUME NEW r \in Request, LeaseExpires(r) PROVE Shape
  BY <1>7, CalmTables DEF LeaseExpires, Shape
<1> QED BY <1>1, <1>2, <1>3, <1>4, <1>5, <1>6, <1>7 DEF Next

-----------------------------------------------------------------------------
(* What the steps keep.                                                    *)

\* The rows and entries of one wallet in a merge.
LEMMA MergeWallet ==
  ASSUME NEW d, NEW e, NEW ws, NEW w
  PROVE  LET m == Merge(d, e, ws)
         IN /\ w \in ws => /\ EntriesOf(m, w) = EntriesOf(e, w)
                           /\ \A r \in Request : Input[r].wallet = w => m.tx[r] = e.tx[r]
            /\ w \notin ws => /\ EntriesOf(m, w) = EntriesOf(d, w)
                              /\ \A r \in Request : Input[r].wallet = w => m.tx[r] = d.tx[r]
BY DEF Merge, EntriesOf

\* Whoever has written nothing sees what is committed.
LEMMA NextClean ==
  ASSUME IInv, CleanInv, Shape
  PROVE  CleanInv'
<1> SUFFICES ASSUME NEW w \in Wallet, lock'[w] = None \/ Clean(sess'[lock'[w]])
             PROVE  Same(w)'
  BY DEF CleanInv
<1>0. /\ sess \in [Session -> SessionState]
      /\ lock \in [Wallet -> Session \cup {None}]
      /\ None \notin Session
  BY ConstantsAssumption DEF IInv, Session
<1>1. CASE CalmStep
  <2>1. lock[w] = None \/ Clean(sess[lock[w]])
    BY <1>0, <1>1 DEF CalmStep
  <2>2. Same(w)
    BY <2>1 DEF CleanInv
  <2> QED BY <1>1, <2>2 DEF CalmStep, Same, EntriesOf
<1>2. ASSUME NEW s \in Session, LockForUpdate(s) PROVE Same(w)'
  <2>1. /\ lock'[w] = lock[w] \/ (lock'[w] = s /\ lock[w] \in {None, s})
        /\ sess'[s].op = sess[s].op /\ sess'[s].pc = "apply" /\ sess[s].pc = "lock"
        /\ \A t \in Session \ {s} : sess'[t] = sess[t]
        /\ UNCHANGED <<committed, current>>
    BY <1>0, <1>2 DEF LockForUpdate, LockFree, SessionState
  <2>2. Clean(sess'[s]) => Clean(sess[s])
    BY <2>1 DEF Clean
  <2>3. lock[w] = None \/ Clean(sess[lock[w]])
    BY <1>0, <2>1, <2>2
  <2> QED BY <2>1, <2>3 DEF CleanInv, Same, EntriesOf
<1>3. ASSUME NEW s \in Session, RollbackOf(s) \/ CommitOf(s) PROVE Same(w)'
  <2>1. CASE lock[w] = s
    <3>1. w \in Held(s)
      BY <2>1 DEF Held
    <3> QED BY <1>3, <3>1, MergeWallet DEF RollbackOf, CommitOf, Same, EntriesOf
  <2>2. CASE lock[w] # s
    <3>1. lock'[w] = lock[w] /\ w \notin Held(s)
      BY <1>3, <2>2 DEF RollbackOf, CommitOf, Release, Held
    <3>2. \A t \in Session \ {s} : sess'[t] = sess[t]
      BY <1>0, <1>3 DEF RollbackOf, CommitOf
    <3>3. Same(w)
      BY <1>0, <2>2, <3>1, <3>2 DEF CleanInv
    <3>4. /\ EntriesOf(committed', w) = EntriesOf(committed, w)
          /\ EntriesOf(current', w) = EntriesOf(current, w)
          /\ \A r \in Request : Input[r].wallet = w =>
               committed'.tx[r] = committed.tx[r] /\ current'.tx[r] = current.tx[r]
      BY <1>3, <3>1, MergeWallet DEF RollbackOf, CommitOf
    <3> QED BY <3>3, <3>4 DEF Same, EntriesOf
  <2> QED BY <2>1, <2>2
<1>4. ASSUME NEW s \in Session, WriteOf(s) PROVE Same(w)'
  <2>1. lock'[w] = lock[w] /\ ~Clean(sess'[s]) /\ \A t \in Session \ {s} : sess'[t] = sess[t]
    BY <1>0, <1>4 DEF WriteOf
  <2>2. lock[w] # s /\ Same(w)
    BY <1>0, <2>1 DEF CleanInv
  <2>3. w \notin Held(s)
    BY <2>2 DEF Held
  <2>4. /\ EntriesOf(current', w) = EntriesOf(current, w)
        /\ \A r \in Request : Input[r].wallet = w => current'.tx[r] = current.tx[r]
    BY <1>4, <2>3, MergeWallet DEF WriteOf
  <2> QED BY <1>4, <2>2, <2>4 DEF WriteOf, Same, EntriesOf
<1> QED BY <1>1, <1>2, <1>3, <1>4 DEF Shape

\* What is committed stays: a row, and the movement behind it.
LEMMA StaysBehind ==
  ASSUME IInv, RowsAhead, Shape, Step, NEW r \in Request, NEW status, NEW seen,
         Behind(committed, r, status, seen)
  PROVE  Behind(committed', r, status, seen)
<1>1. Input[r].wallet \in Wallet
  BY InputFacts
<1>2. EntriesOf(committed, Input[r].wallet) \subseteq EntriesOf(committed', Input[r].wallet)
  BY <1>1 DEF Step, Grows, GrowsOn
<1>3. Present(committed', r)
  <2>1. Present(committed, r) /\ Present(current, r)
    BY DEF Behind, RowsAhead, RowsGrow
  <2>2. CASE committed'.tx = committed.tx
    BY <2>1, <2>2 DEF Present
  <2>3. ASSUME NEW s, committed' = Merge(committed, current, Held(s))
        PROVE  Present(committed', r)
    BY <2>1, <2>3 DEF Merge, Present
  <2> QED BY <2>2, <2>3 DEF Shape, CalmStep, LockForUpdate, RollbackOf, CommitOf, WriteOf
<1> QED BY <1>2, <1>3 DEF Behind

\* What a session is about to commit stays for as long as it waits.
LEMMA Bystander ==
  ASSUME IInv, Shape, NEW s \in Session, sess'[s] = sess[s], sess[s].pc = "commit",
         NEW r \in Request, lock[Input[r].wallet] = s, NEW status, NEW seen,
         Behind(current, r, status, seen)
  PROVE  lock'[Input[r].wallet] = s /\ Behind(current', r, status, seen)
<1> DEFINE w == Input[r].wallet
<1>0. /\ w \in Wallet
      /\ sess \in [Session -> SessionState]
      /\ lock \in [Wallet -> Session \cup {None}]
      /\ None \notin Session
  BY InputFacts, ConstantsAssumption DEF IInv, Session
<1>1. CASE CalmStep
  BY <1>1 DEF CalmStep, Behind, Present, EntriesOf
<1>2. ASSUME NEW t \in Session, LockForUpdate(t) PROVE lock'[w] = s /\ current' = current
  BY <1>0, <1>2 DEF LockForUpdate, LockFree
<1>3. ASSUME NEW t \in Session, t # s, w \notin Held(t),
             lock' \in {lock, Release(t)},
             current' = current \/ \E d : current' = Merge(current, d, Held(t))
      PROVE  lock'[w] = s /\ Behind(current', r, status, seen)
  <2>1. lock'[w] = s
    BY <1>0, <1>3 DEF Release
  <2>2. EntriesOf(current', w) = EntriesOf(current, w) /\ current'.tx[r] = current.tx[r]
    <3>1. CASE current' = current
      BY <3>1
    <3>2. ASSUME NEW d, current' = Merge(current, d, Held(t))
          PROVE  /\ EntriesOf(current', w) = EntriesOf(current, w)
                 /\ current'.tx[r] = current.tx[r]
      BY <1>3, <3>2 DEF Merge, EntriesOf
    <3> QED BY <1>3, <3>1, <3>2
  <2> QED BY <2>1, <2>2 DEF Behind, Present
<1>4. ASSUME NEW t \in Session, RollbackOf(t) \/ CommitOf(t) \/ WriteOf(t)
      PROVE  lock'[w] = s /\ Behind(current', r, status, seen)
  <2>1. t # s
    BY <1>0, <1>4 DEF RollbackOf, CommitOf, WriteOf
  <2>2. w \notin Held(t)
    BY <2>1 DEF Held
  <2>3. /\ lock' \in {lock, Release(t)}
        /\ current' = current \/ \E d : current' = Merge(current, d, Held(t))
    BY <1>4 DEF RollbackOf, CommitOf, WriteOf
  <2> QED BY <1>3, <2>1, <2>2, <2>3
<1> QED BY <1>1, <1>2, <1>4 DEF Shape

-----------------------------------------------------------------------------
(* Results.                                                                *)

\* A verdict that processes or parks carries no failure code, one that rejects
\* moves nothing.
Codes(v) ==
  /\ v.outcome = "PROCESSED" => v.code = Ok
  /\ v.outcome = "PENDING_REFERENCE" => v.code = Ok
  /\ v.outcome = "REJECTED" => v.dir = "NONE"

\* Every verdict on a first submission has such a code.
LEMMA VerdictCodes ==
  ASSUME NEW d, NEW row, NEW r \in Request
  PROVE  Codes(applyOperation(d, row, r))
<1>1. ASSUME NEW code, NEW t PROVE Codes(Reject(code, t))
  BY DEF Codes, Reject, Verdict
<1>2. Codes(Park) /\ Codes(Error)
  BY DEF Codes, Park, Error, Verdict
<1>3. ASSUME NEW dir, NEW t PROVE Codes(Process(dir, t))
  BY DEF Codes, Process, Verdict
<1>4. ASSUME NEW t PROVE Codes(CreditVerdict(row, Input[r].amount, t))
  BY <1>2, <1>3 DEF CreditVerdict
<1>5. ASSUME NEW t, NEW code PROVE Codes(DebitVerdict(row, Input[r].amount, t, code))
  BY <1>1, <1>3 DEF DebitVerdict
<1>6. ASSUME NEW t PROVE Codes(Judge(d, row, r, t))
  <2>1. CASE Input[r].kind = "WIN"
    BY <1>1, <1>4, <2>1 DEF Judge, JudgeWin
  <2>2. CASE Input[r].kind # "WIN"
    BY <1>1, <1>4, <1>5, <2>2 DEF Judge, JudgeReversal
  <2> QED BY <2>1, <2>2
<1>7. Codes(applyWithReference(d, row, r))
  BY <1>1, <1>2, <1>6 DEF applyWithReference
<1>8. CASE Input[r].kind = "BET"
  BY <1>5, <1>8 DEF applyOperation
<1>9. CASE Input[r].kind = "LOSS"
  BY <1>3, <1>9 DEF applyOperation
<1>10. CASE Input[r].kind = "WIN" /\ Input[r].ref = None
  BY <1>4, <1>10 DEF applyOperation
<1>11. CASE /\ Input[r].kind \notin {"BET", "LOSS"}
            /\ ~(Input[r].kind = "WIN" /\ Input[r].ref = None)
  BY <1>7, <1>11 DEF applyOperation
<1> QED BY <1>8, <1>9, <1>10, <1>11

\* The result that a handler takes away from its transaction says what the
\* transaction has written.
LEMMA DecidedStands ==
  ASSUME IInv, RInv, NEW s \in Session, SubmitApply(s)
  PROVE  LET r == sess[s].item.tx
             v == applyOperation(View(s), sess[s].wal, r)
             res == Decided(sess[s].wal, r, v)
         IN /\ r \in Request
            /\ res \in SubmitResult /\ res.tx = r
            /\ Meant(res) /\ res.outcome # "REPLAY"
            /\ lock'[Input[r].wallet] = s
            /\ Behind(current', r, res.outcome, res.seen)
<1> DEFINE r == sess[s].item.tx
           row == sess[s].wal
           d == View(s)
           v == applyOperation(d, row, r)
           x == Accept(d, row, r, v)
           res == Decided(row, r, v)
           w == Input[r].wallet
<1>1. /\ sess[s].pc = "apply" /\ v.outcome # "ERROR"
      /\ current' = Merge(current, x, Held(s)) /\ lock' = lock
  BY DEF SubmitApply, Fresh, Submitting, Write
<1>2. r \in Request /\ row \in WalletRow /\ d \in Database
  BY <1>1, ApplyFacts
<1>3. lock[w] = s /\ w \in Wallet /\ w \in Held(s)
  <2>1. lock[w] = s
    BY <1>1 DEF IInv, LockOK, Reserved, WalletOf
  <2> QED BY <1>2, <2>1, InputFacts DEF Held
<1>4. ~Present(d, r) /\ RowsInv(d)
  BY SubmitView, ViewRows
<1> HIDE DEF d, r, row
<1>5. Sound(v, row, r) /\ Moves(v, r) /\ Codes(v)
  BY <1>2, SoundVerdicts, VerdictsMove, VerdictCodes
<1> HIDE DEF v
<1>6. /\ res \in SubmitResult /\ res.tx = r /\ res.outcome = v.outcome
      /\ Meant(res) /\ res.outcome # "REPLAY"
  <2>1. v.outcome \in {"PROCESSED", "REJECTED", "PENDING_REFERENCE"}
    BY <1>1, <1>5 DEF Sound, VerdictType, Outcome
  <2>2. v.code \in FailureCode \cup {Ok} /\ (v.outcome = "REJECTED" => v.code # Ok)
    BY <1>5, <2>1 DEF Codes, Sound, Fits, FailureCode, Insufficient, Ok
  <2>3. Apply(row, v.dir, Input[r].amount) \in WalletRow /\ NoWallet \in WalletRow
    BY <1>2, <1>5, AppliedType, InputFacts DEF NoWallet, WalletRow, Amount
  <2> QED BY <1>2, <1>5, <2>1, <2>2, <2>3 DEF Decided, SubmitResult, Meant, Codes
<1>7. RowsInv(x) /\ Present(x, r)
  BY <1>2, <1>4, <1>5, AcceptRowsInv DEF OnlyNew
<1>8. v.outcome = "PROCESSED" =>
        /\ x.tx[r].state = "PROCESSED"
        /\ x.tx[r].balance = res.seen.balance
        /\ x.tx[r].version = res.seen.version
  <2> SUFFICES ASSUME v.outcome = "PROCESSED"
               PROVE  /\ x.tx[r].state = "PROCESSED"
                      /\ x.tx[r].balance = res.seen.balance
                      /\ x.tx[r].version = res.seen.version
    OBVIOUS
  <2> DEFINE y == processed(d, row, r, v)
             after == Apply(row, v.dir, Input[r].amount)
  <2>1. /\ y.tx[r].state = "PROCESSED"
        /\ y.tx[r].balance = after.balance /\ y.tx[r].version = after.version
    BY <1>2, <1>5, ProcessedRows
  <2>2. y \in Database
    BY <1>2, <1>5, ProcessedType
  <2>3. res.seen = after
    BY DEF Decided
  <2>4. x = InsertInbox(y, r)
    BY DEF Accept
  <2> HIDE DEF x, y, after, res
  <2>5. x.tx = y.tx
    BY <2>2, <2>4 DEF InsertInbox, Database
  <2> QED BY <2>1, <2>3, <2>5
<1> HIDE DEF x, res
<1>9. Behind(x, r, res.outcome, res.seen)
  BY <1>2, <1>6, <1>7, <1>8 DEF Behind, RowsInv, Moving, EntriesOf
<1>10. EntriesOf(current', w) = EntriesOf(x, w) /\ current'.tx[r] = x.tx[r]
  BY <1>1, <1>2, <1>3 DEF Merge, EntriesOf
<1>11. Behind(current', r, res.outcome, res.seen)
  BY <1>9, <1>10 DEF Behind, Present
<1>12. lock'[w] = s
  BY <1>1, <1>3
<1> QED BY <1>2, <1>6, <1>11, <1>12 DEF res, v, d, r, row

-----------------------------------------------------------------------------
(* Answers.                                                                *)

\* What becomes of a result in writeSubmitResult.
LEMMA BodyOf ==
  ASSUME NEW res \in SubmitResult, Meant(res)
  PROVE  LET a == writeSubmitResult(res)
         IN /\ a \in Answer
            /\ a.tx = res.tx /\ a.seen = res.seen /\ a.code = res.code
            /\ a.http # 409 /\ a.status \in {"PROCESSED", "REJECTED", "PENDING"}
            /\ a.status = "PROCESSED" =>
                 res.outcome = "PROCESSED" \/ (res.outcome = "REPLAY" /\ res.code = Ok)
            /\ a.status = "REJECTED" =>
                 res.outcome = "REJECTED" \/ (res.outcome = "REPLAY" /\ res.code # Ok)
<1>1. /\ res.outcome \in {"PROCESSED", "REJECTED", "PENDING_REFERENCE", "REPLAY"}
      /\ res.tx \in Request /\ res.code \in FailureCode \cup {Ok} /\ res.seen \in WalletRow
  BY DEF SubmitResult
<1>2. ASSUME NEW http \in {200, 201, 202, 422}, NEW status \in {"PROCESSED", "PENDING", "REJECTED"},
             status = "REJECTED" => res.code # Ok,
             status = "PROCESSED" => res.code = Ok
      PROVE  /\ Body(http, status, res) \in Answer
             /\ Body(http, status, res).tx = res.tx
             /\ Body(http, status, res).seen = res.seen
             /\ Body(http, status, res).code = res.code
             /\ Body(http, status, res).status = status
             /\ Body(http, status, res).http # 409
  <2>1. status \in TransactionState \cup {"CONFLICT"}
    BY DEF TransactionState
  <2> QED BY <1>1, <1>2, <2>1 DEF Body, Answer
<1>3. CASE res.outcome = "PROCESSED"
  <2>1. writeSubmitResult(res) = Body(201, "PROCESSED", res) /\ res.code = Ok
    BY <1>3 DEF writeSubmitResult, Meant
  <2> QED BY <1>2, <1>3, <2>1
<1>4. CASE res.outcome = "PENDING_REFERENCE"
  <2>1. writeSubmitResult(res) = Body(202, "PENDING", res)
    BY <1>4 DEF writeSubmitResult
  <2> QED BY <1>2, <2>1
<1>5. CASE res.outcome = "REPLAY" /\ res.code = Ok
  <2>1. writeSubmitResult(res) = Body(200, "PROCESSED", res)
    BY <1>5 DEF writeSubmitResult
  <2> QED BY <1>2, <1>5, <2>1
<1>6. CASE res.outcome = "REJECTED" \/ (res.outcome = "REPLAY" /\ res.code # Ok)
  <2>1. writeSubmitResult(res) = Body(422, "REJECTED", res) /\ res.code # Ok
    BY <1>6 DEF writeSubmitResult, Meant
  <2> QED BY <1>2, <1>6, <2>1
<1> QED BY <1>1, <1>3, <1>4, <1>5, <1>6

\* A first answer says what its result stands on.
LEMMA FirstAnswer ==
  ASSUME NEW res \in SubmitResult, Meant(res), res.outcome # "REPLAY",
         NEW d, Behind(d, res.tx, res.outcome, res.seen)
  PROVE  LET a == writeSubmitResult(res)
         IN a \in Answer /\ Truthful(d, res.tx, a)
<1> DEFINE a == writeSubmitResult(res)
<1>1. a \in Answer /\ a.tx = res.tx /\ a.seen = res.seen
  BY BodyOf
<1>2. a.status = "PROCESSED" => res.outcome = "PROCESSED"
  BY BodyOf
<1>3. res.tx \in Request
  BY DEF SubmitResult
<1> HIDE DEF a
<1> QED BY <1>1, <1>2, <1>3 DEF Truthful, Behind, a

\* A row says of its operation what happened to it.
LEMMA RowStands ==
  ASSUME NEW d \in Database, RowsInv(d), SlotInv(d), NEW p \in Request, Present(d, p)
  PROVE  /\ d.tx[p] \in TxRow
         /\ d.tx[p].state = "REJECTED" => d.tx[p].code # Ok
         /\ d.tx[p].state = "PROCESSED" => d.tx[p].code = Ok
         /\ Behind(d, p, d.tx[p].state,
                   [balance |-> d.tx[p].balance, version |-> d.tx[p].version])
<1>1. Moving(d, p) /\ Coded(d, p)
  BY DEF RowsInv, SlotInv
<1>2. d.tx[p] \in TxRow
  BY DEF Database
<1> QED BY <1>1, <1>2 DEF Moving, Coded, Behind, EntriesOf

\* A GET tells what the committed row says.
LEMMA GetAnswer ==
  ASSUME IInv, RInv, StakeInv, NEW r \in Request, Present(committed, r)
  PROVE  LET a == transactionBody(committed, r)
         IN a \in Answer /\ Truthful(committed, r, a)
<1> DEFINE row == committed.tx[r]
           seen == [balance |-> row.balance, version |-> row.version]
           a == transactionBody(committed, r)
<1>1. /\ row \in TxRow
      /\ row.state = "REJECTED" => row.code # Ok
      /\ row.state = "PROCESSED" => row.code = Ok
      /\ Behind(committed, r, row.state, seen)
  BY RowStands DEF IInv, TablesOK, RInv, StakeInv
<1>2. row.state \in TransactionState /\ row.code \in FailureCode \cup {Ok} /\ seen \in WalletRow
  BY <1>1 DEF TxRow, Behind, Present, WalletRow
<1>3. a = [http |-> 200, status |-> row.state, tx |-> r, code |-> row.code, seen |-> seen]
  BY DEF transactionBody
<1> HIDE DEF a, row, seen
<1>4. a \in Answer
  BY <1>1, <1>2, <1>3 DEF Answer
<1>5. Truthful(committed, r, a)
  BY <1>1, <1>3 DEF Truthful
<1> QED BY <1>4, <1>5 DEF a

\* A replay answers from the row of an operation that was there before r, or
\* says that this one has other content; the handler has written nothing, so
\* the row is committed.
LEMMA ReplayedPrior ==
  ASSUME IInv, CleanInv, NEW s \in Session, SubmitReplay(s)
  PROVE  LET r == sess[s].item.tx
         IN /\ r \in Request
            /\ \E p \in Request :
                 /\ Present(committed, p)
                 /\ p \in Priors(View(s), r)
                 /\ ReplayAnswer(View(s), r) =
                      IF PayloadHash(p) # PayloadHash(r) THEN Conflict
                      ELSE writeSubmitResult(replayResult(committed, p))
<1> DEFINE r == sess[s].item.tx
           d == View(s)
           found == IF FindByProviderKey(d, r) # {} THEN FindByProviderKey(d, r) ELSE Priors(d, r)
           p == CHOOSE q \in found : TRUE
<1>1. sess[s].pc = "apply" /\ sess[s].op = "submit" /\ Priors(d, r) # {}
  BY DEF SubmitReplay, Submitting
<1>2. r \in Request /\ d \in Database
  BY <1>1, ApplyFacts
<1>3. p \in Priors(d, r)
  <2>1. found # {} /\ found \subseteq Priors(d, r)
    BY <1>1 DEF Priors
  <2> QED BY <2>1
<1>4. ReplayAnswer(d, r) = IF PayloadHash(p) # PayloadHash(r) THEN Conflict
                           ELSE writeSubmitResult(replayResult(d, p))
  BY DEF ReplayAnswer
<1> HIDE DEF p, d, r
<1>5. p \in Request /\ Present(d, p)
  BY <1>3 DEF Priors, FindByProviderKey, FindByProviderExternal
<1>6. d.tx[p] = committed.tx[p]
  <2> DEFINE w == Input[p].wallet
  <2>1. w \in Wallet
    BY <1>5, InputFacts
  <2>2. CASE lock[w] = s
    <3>1. Same(w) /\ w \in Held(s)
      BY <1>1, <2>1, <2>2 DEF CleanInv, Clean, Held
    <3>2. d.tx[p] = current.tx[p]
      BY <1>5, <3>1 DEF View, Merge, d
    <3> QED BY <1>5, <3>1, <3>2 DEF Same
  <2>3. CASE lock[w] # s
    <3>1. w \notin Held(s)
      BY <2>3 DEF Held
    <3> QED BY <1>5, <3>1 DEF View, Merge, d
  <2> QED BY <2>2, <2>3
<1>7. replayResult(d, p) = replayResult(committed, p) /\ Present(committed, p)
  BY <1>5, <1>6 DEF replayResult, Present
<1> QED BY <1>2, <1>3, <1>4, <1>5, <1>7 DEF d, r

\* A settled row is replayed with its columns.
LEMMA ReplayedRow ==
  ASSUME IInv, RInv, StakeInv, NEW p \in Request, Present(committed, p)
  PROVE  LET row == committed.tx[p]
             seen == [balance |-> row.balance, version |-> row.version]
             a == writeSubmitResult(replayResult(committed, p))
         IN /\ a \in Answer /\ a.tx = p /\ a.http # 409
            /\ a.status \in {"PROCESSED", "REJECTED"} =>
                 a.status = row.state /\ a.code = row.code /\ a.seen = seen
            /\ Behind(committed, p, row.state, seen)
            /\ a.status \in {"PROCESSED", "REJECTED", "PENDING"}
<1> DEFINE row == committed.tx[p]
           seen == [balance |-> row.balance, version |-> row.version]
           res == replayResult(committed, p)
           a == writeSubmitResult(res)
<1>1. /\ row \in TxRow
      /\ row.state = "REJECTED" => row.code # Ok
      /\ row.state = "PROCESSED" => row.code = Ok
      /\ Behind(committed, p, row.state, seen)
  BY RowStands DEF IInv, TablesOK, RInv, StakeInv
<1>2. res = [outcome |-> IF row.state \in {"PROCESSED", "REJECTED"} THEN "REPLAY"
                           ELSE "PENDING_REFERENCE",
             tx |-> p, code |-> row.code,
             seen |-> IF row.state \in {"PROCESSED", "REJECTED"} THEN seen ELSE NoWallet]
  BY DEF replayResult
<1>3. seen \in WalletRow /\ NoWallet \in WalletRow /\ row.code \in FailureCode \cup {Ok}
  BY <1>1, InputFacts DEF TxRow, NoWallet, WalletRow, Amount
<1> HIDE DEF res, row, seen
<1>4. res \in SubmitResult /\ Meant(res) /\ res.tx = p
  BY <1>2, <1>3 DEF SubmitResult, Meant
<1>5. /\ a \in Answer /\ a.tx = p /\ a.seen = res.seen /\ a.code = res.code
      /\ a.http # 409 /\ a.status \in {"PROCESSED", "REJECTED", "PENDING"}
      /\ a.status = "PROCESSED" =>
           res.outcome = "PROCESSED" \/ (res.outcome = "REPLAY" /\ res.code = Ok)
      /\ a.status = "REJECTED" =>
           res.outcome = "REJECTED" \/ (res.outcome = "REPLAY" /\ res.code # Ok)
  BY <1>4, BodyOf
<1>6. a.status \in {"PROCESSED", "REJECTED"} =>
        a.status = row.state /\ a.code = row.code /\ a.seen = seen
  BY <1>1, <1>2, <1>5
<1> HIDE DEF a
<1> QED BY <1>1, <1>5, <1>6 DEF a, res, row, seen

\* What is replayed is true, and committed.
LEMMA ReplayedAnswer ==
  ASSUME IInv, RInv, StakeInv, CleanInv, NEW s \in Session, SubmitReplay(s)
  PROVE  LET r == sess[s].item.tx
             a == ReplayAnswer(View(s), r)
         IN r \in Request /\ a \in Answer /\ Truthful(committed, r, a)
<1> DEFINE r == sess[s].item.tx
           a == ReplayAnswer(View(s), r)
<1>1. r \in Request
  BY ReplayedPrior
<1>2. PICK p \in Request :
        /\ Present(committed, p)
        /\ a = IF PayloadHash(p) # PayloadHash(r) THEN Conflict
               ELSE writeSubmitResult(replayResult(committed, p))
  BY ReplayedPrior
<1> HIDE DEF a, r
<1>3. CASE PayloadHash(p) # PayloadHash(r)
  <2>1. Conflict \in Answer
    BY InputFacts DEF Conflict, Answer, NoWallet, WalletRow, Amount
  <2>2. a = Conflict
    BY <1>2, <1>3
  <2>3. Truthful(committed, r, a)
    BY <2>2 DEF Truthful, Conflict
  <2> QED BY <1>1, <2>1, <2>2, <2>3 DEF a, r
<1>4. CASE PayloadHash(p) = PayloadHash(r)
  <2>1. a = writeSubmitResult(replayResult(committed, p))
    BY <1>2, <1>4
  <2>2. /\ a \in Answer /\ a.tx = p
        /\ a.status = "PROCESSED" =>
             /\ committed.tx[p].state = "PROCESSED"
             /\ a.seen = [balance |-> committed.tx[p].balance,
                          version |-> committed.tx[p].version]
        /\ Behind(committed, p, committed.tx[p].state,
                  [balance |-> committed.tx[p].balance, version |-> committed.tx[p].version])
    BY <1>2, <2>1, ReplayedRow
  <2>3. Truthful(committed, r, a)
    BY <1>4, <2>2 DEF Truthful, Behind
  <2> QED BY <1>1, <2>2, <2>3 DEF a, r
<1> QED BY <1>3, <1>4

-----------------------------------------------------------------------------
(* The steps of Answers keep AInv.                                         *)

\* What the proofs below know of a step: the invariants of Wagering, and what
\* the step does to the tables.
Known ==
  /\ IInv /\ RowsKeysInv /\ StakeInv /\ Ahead
  /\ Shape /\ Step

\* What was told once stays true.
LEMMA StaysTrue ==
  ASSUME Known, NEW r, NEW a, Truthful(committed, r, a)
  PROVE  Truthful(committed', r, a)
BY StaysBehind DEF Known, RowsKeysInv, RInv, Truthful

\* Telling nothing, or to nobody, or the truth.
LEMMA Tells ==
  ASSUME Known, AInv,
         \/ UNCHANGED told
         \/ \E r, a : /\ Tell(r, a)
                      /\ r \in Request => a \in Answer /\ Truthful(committed', r, a)
  PROVE  told' \in [Request -> SUBSET Answer] /\ ToldInv'
<1>1. told \in [Request -> SUBSET Answer] /\ ToldInv
  BY DEF AInv, AnswersTypeOK
<1>2. \A r \in Request : \A a \in told[r] : Truthful(committed', r, a)
  BY <1>1, StaysTrue DEF ToldInv
<1>3. CASE UNCHANGED told
  BY <1>1, <1>2, <1>3 DEF ToldInv
<1>4. ASSUME NEW r, NEW a, Tell(r, a),
             r \in Request => a \in Answer /\ Truthful(committed', r, a)
      PROVE  told' \in [Request -> SUBSET Answer] /\ ToldInv'
  <2>1. CASE told' = told
    BY <1>1, <1>2, <2>1 DEF ToldInv
  <2>2. CASE told' = [told EXCEPT ![r] = @ \cup {a}]
    <3>1. CASE r \in Request
      <4>1. told' \in [Request -> SUBSET Answer]
        BY <1>1, <1>4, <2>2, <3>1
      <4>2. \A q \in Request : \A b \in told'[q] : b \in told[q] \/ (q = r /\ b = a)
        BY <1>1, <2>2, <3>1
      <4>3. \A q \in Request : \A b \in told'[q] : Truthful(committed', q, b)
        BY <1>2, <1>4, <3>1, <4>2
      <4> QED BY <4>1, <4>3 DEF ToldInv
    <3>2. CASE r \notin Request
      <4>1. told' = told
        BY <1>1, <2>2, <3>2
      <4> QED BY <1>1, <1>2, <4>1 DEF ToldInv
    <3> QED BY <3>1, <3>2
  <2> QED BY <1>4, <2>1, <2>2 DEF Tell
<1> QED BY <1>3, <1>4

\* A result that nobody touches stays what it is.
LEMMA ResultStays ==
  ASSUME Known, AInv, NEW s \in Handler, sess'[s] = sess[s], result'[s] = result[s]
  PROVE  ResultInv(s)'
<1> SUFFICES ASSUME result[s] # Pending PROVE ResultInv(s)'
  BY DEF ResultInv
<1> DEFINE res == result[s].submit
<1>1. /\ ResultInv(s) /\ s \in Session
      /\ result[s] \in [request : Request, submit : SubmitResult]
  BY DEF AInv, AnswersTypeOK, Session
<1>2. res \in SubmitResult /\ res.tx \in Request
  BY <1>1 DEF SubmitResult
<1>3. CASE sess[s].op = "cascade" /\ Behind(committed, res.tx, res.outcome, res.seen)
  <2>1. Behind(committed', res.tx, res.outcome, res.seen)
    BY <1>2, <1>3, StaysBehind DEF Known, RowsKeysInv, RInv
  <2> QED BY <1>1, <1>3, <2>1 DEF ResultInv
<1>4. CASE /\ sess[s].op = "submit" /\ sess[s].pc = "commit"
           /\ lock[Input[res.tx].wallet] = s
           /\ Behind(current, res.tx, res.outcome, res.seen)
  <2>1. lock'[Input[res.tx].wallet] = s /\ Behind(current', res.tx, res.outcome, res.seen)
    BY <1>1, <1>2, <1>4, Bystander DEF Known
  <2> QED BY <1>1, <1>4, <2>1 DEF ResultInv
<1> QED BY <1>1, <1>3, <1>4 DEF ResultInv

\* A handler's step is its own.
LEMMA OthersStay ==
  ASSUME IInv, NEW s \in Session, SessionStep(s) \/ Crash(s)
  PROVE  \A t \in Session \ {s} : sess'[t] = sess[t]
<1>1. sess \in [Session -> SessionState]
  BY DEF IInv
<1>2. CASE LockForUpdate(s) \/ SubmitNoWallet(s) \/ SubmitApply(s) \/ Commit(s)
  BY <1>1, <1>2 DEF LockForUpdate, SubmitNoWallet, SubmitApply, Commit
<1>3. CASE \E n : Rollback(s, n)
  BY <1>1, <1>3 DEF Rollback
<1>4. CASE CascadeFind(s) \/ CascadeNext(s) \/ WorkGet(s)
  BY <1>1, <1>4 DEF CascadeFind, CascadeNext, WorkGet
<1>5. CASE \E expired \in BOOLEAN : ResumeSettle(s, expired) \/ ResumeError(s, expired)
  BY <1>1, <1>5 DEF ResumeSettle, ResumeError
<1>6. CASE SubmitMismatch(s) \/ SubmitReplay(s) \/ SubmitError(s) \/ CommitRefused(s)
             \/ DeadlockVictim(s) \/ Crash(s) \/ \E expired \in BOOLEAN : ResumeClash(s, expired)
  BY <1>3, <1>6 DEF SubmitMismatch, SubmitReplay, SubmitError, CommitRefused,
                    DeadlockVictim, Crash, ResumeClash
<1> QED BY <1>2, <1>4, <1>5, <1>6 DEF SessionStep

\* A handler at its cascade goes on with it or is done.
LEMMA CascadeStays ==
  ASSUME IInv, NEW s \in Session, Proceed(s), sess[s].op = "cascade"
  PROVE  sess'[s] = Idle \/ sess'[s].op = "cascade"
<1>1. sess \in [Session -> SessionState] /\ sess[s] \in SessionState
  BY DEF IInv
<1>2. AfterTx(s) = Idle /\ AfterCommit(s) = Idle
  BY DEF AfterTx, AfterCommit
<1>3. AfterResume(s).op = "cascade"
  BY <1>1 DEF AfterResume, Goto, Idle, SessionState
<1>4. CASE LockForUpdate(s)
  BY <1>1, <1>4 DEF LockForUpdate, SessionState
<1>5. CASE Commit(s)
  BY <1>1, <1>2, <1>5 DEF Commit
<1>6. CASE CascadeFind(s)
  <2>1. [Idle EXCEPT !.pc = "next", !.op = "cascade",
              !.todo = {ItemOf(q) : q \in {p \in FindDependents(committed, sess[s].item.tx) :
                          committed.tx[p].state = "PENDING_REFERENCE"}}].op = "cascade"
    BY DEF Idle
  <2> QED BY <1>1, <1>6, <2>1 DEF CascadeFind
<1>7. CASE CascadeNext(s)
  BY <1>1, <1>7 DEF CascadeNext, SessionState
<1>8. ASSUME NEW expired \in BOOLEAN, ResumeSettle(s, expired) \/ ResumeError(s, expired)
      PROVE  sess'[s].op = "cascade"
  BY <1>1, <1>3, <1>8 DEF ResumeSettle, ResumeError
<1>9. ASSUME NEW n, Rollback(s, n), n = AfterTx(s) PROVE sess'[s] = Idle
  BY <1>1, <1>2, <1>9 DEF Rollback
<1>10. CASE DeadlockVictim(s) \/ \E expired \in BOOLEAN : ResumeClash(s, expired)
  BY <1>9, <1>10 DEF DeadlockVictim, ResumeClash
<1> QED BY <1>4, <1>5, <1>6, <1>7, <1>8, <1>10 DEF Proceed

\* A commit publishes what the result stands on.
LEMMA CommitStands ==
  ASSUME NEW s, CommitOf(s), NEW r \in Request, lock[Input[r].wallet] = s,
         NEW status, NEW seen, Behind(current, r, status, seen)
  PROVE  Behind(committed', r, status, seen)
<1>1. Input[r].wallet \in Held(s)
  BY InputFacts DEF Held
<1>2. /\ EntriesOf(committed', Input[r].wallet) = EntriesOf(current, Input[r].wallet)
      /\ committed'.tx[r] = current.tx[r]
  BY <1>1 DEF CommitOf, Merge, EntriesOf
<1> QED BY <1>2 DEF Behind, Present

\* A handler that goes on has its result committed.
LEMMA ProceedStands ==
  ASSUME Known, AInv, NEW s \in Handler, Proceed(s), result[s] # Pending
  PROVE  LET res == result[s].submit
         IN /\ Behind(committed', res.tx, res.outcome, res.seen)
            /\ sess'[s] = Idle \/ sess'[s].op = "cascade"
<1> DEFINE res == result[s].submit
<1>1. /\ ResultInv(s) /\ s \in Session
      /\ result[s] \in [request : Request, submit : SubmitResult]
  BY DEF AInv, AnswersTypeOK, Session
<1>2. res.tx \in Request
  BY <1>1 DEF SubmitResult
<1>3. CASE sess[s].op = "cascade" /\ Behind(committed, res.tx, res.outcome, res.seen)
  <2>1. Behind(committed', res.tx, res.outcome, res.seen)
    BY <1>2, <1>3, StaysBehind DEF Known, RowsKeysInv, RInv
  <2> QED BY <1>1, <1>3, <2>1, CascadeStays DEF Known
<1>4. CASE /\ sess[s].op = "submit" /\ sess[s].pc = "commit"
           /\ lock[Input[res.tx].wallet] = s
           /\ Behind(current, res.tx, res.outcome, res.seen)
  <2>1. Commit(s)
    BY <1>4 DEF Proceed, LockForUpdate, CascadeFind, CascadeNext, ResumeSettle, ResumeClash,
                ResumeError, Resuming, DeadlockVictim
  <2>2. AfterCommit(s) = Idle \/ (AfterCommit(s).op = "cascade" /\ AfterCommit(s).pc = "find")
    BY <1>4 DEF AfterCommit, AfterTx, Idle
  <2>3. AfterCommit(s).pc # "commit"
    BY <2>2 DEF Idle
  <2>4. sess' = [sess EXCEPT ![s] = AfterCommit(s)] /\ sess \in [Session -> SessionState]
    BY <2>1 DEF Commit, Known, IInv
  <2>5. CommitOf(s)
    BY <2>1, <2>3, <2>4 DEF Commit, CommitOf
  <2>6. Behind(committed', res.tx, res.outcome, res.seen)
    BY <1>2, <1>4, <2>5, CommitStands
  <2>7. sess'[s] = AfterCommit(s)
    BY <1>1, <2>4
  <2> QED BY <2>2, <2>6, <2>7
<1> QED BY <1>1, <1>3, <1>4 DEF ResultInv

\* A result that stands may be answered.
LEMMA FinishTells ==
  ASSUME Known, AInv, NEW s \in Handler, Finish(s),
         result[s] # Pending =>
           LET res == result[s].submit
           IN Behind(committed', res.tx, res.outcome, res.seen)
  PROVE  /\ told' \in [Request -> SUBSET Answer] /\ ToldInv'
         /\ result' = [result EXCEPT ![s] = Pending]
<1> DEFINE r == result[s].request
           res == result[s].submit
           a == writeSubmitResult(res)
<1>1. Tell(r, a) /\ result' = [result EXCEPT ![s] = Pending]
  BY DEF Finish, Holds
<1>2. r \in Request => a \in Answer /\ Truthful(committed', r, a)
  <2> SUFFICES ASSUME r \in Request PROVE a \in Answer /\ Truthful(committed', r, a)
    OBVIOUS
  <2>1. result[s] # Pending
    BY ConstantsAssumption DEF Pending
  <2>2. /\ result[s] \in [request : Request, submit : SubmitResult]
        /\ ResultInv(s)
    BY <2>1 DEF AInv, AnswersTypeOK
  <2>3. /\ res \in SubmitResult /\ res.tx = r
        /\ Meant(res) /\ res.outcome # "REPLAY"
    BY <2>1, <2>2 DEF ResultInv
  <2>4. Behind(committed', res.tx, res.outcome, res.seen)
    BY <2>1
  <2> HIDE DEF res, r
  <2> QED BY <2>3, <2>4, FirstAnswer
<1> HIDE DEF r, res, a
<1>3. told' \in [Request -> SUBSET Answer] /\ ToldInv'
  BY <1>1, <1>2, Tells
<1> QED BY <1>1, <1>3

\* What a handler does keeps the other handlers' results.
LEMMA OnlyResult ==
  ASSUME Known, AInv, NEW s \in Handler, SessionStep(s) \/ Crash(s),
         result' = result \/ \E x : result' = [result EXCEPT ![s] = x],
         result'[s] = Pending \/ (result'[s] \in [request : Request, submit : SubmitResult]
                                    /\ ResultInv(s)')
  PROVE  /\ result' \in [Handler -> {Pending} \cup [request : Request, submit : SubmitResult]]
         /\ \A t \in Handler : ResultInv(t)'
<1>1. result \in [Handler -> {Pending} \cup [request : Request, submit : SubmitResult]]
  BY DEF AInv, AnswersTypeOK
<1>2. \A t \in Handler \ {s} : result'[t] = result[t]
  BY <1>1
<1>3. ResultInv(s)'
  BY DEF ResultInv
<1>4. ASSUME NEW t \in Handler \ {s} PROVE ResultInv(t)'
  <2>1. sess'[t] = sess[t]
    BY OthersStay DEF Known, Session
  <2> QED BY <1>2, <2>1, ResultStays
<1>5. result' \in [Handler -> {Pending} \cup [request : Request, submit : SubmitResult]]
  BY <1>1
<1> QED BY <1>3, <1>4, <1>5

\* What is not a handler at work answers nobody.
LEMMA ElsewhereStep ==
  ASSUME Known, AInv, Elsewhere
  PROVE  AInv'
<1>1. result' = result /\ told' = told
  BY DEF Elsewhere
<1>2. ASSUME NEW s \in Handler PROVE ResultInv(s)'
  <2>1. CASE sess[s] # Idle
    BY <1>1, <2>1, ResultStays DEF Elsewhere
  <2>2. CASE sess[s] = Idle
    <3>1. result[s] = Pending
      BY <2>2 DEF AInv, ResultInv, Idle
    <3> QED BY <1>1, <3>1 DEF ResultInv
  <2> QED BY <2>1, <2>2
<1> QED BY <1>1, <1>2, NextClean, Tells DEF AInv, AnswersTypeOK, Known

\* A handler decides, and holds the result.
LEMMA DecideStep ==
  ASSUME Known, AInv, NEW s \in Handler, Decide(s)
  PROVE  AInv'
<1> DEFINE r == sess[s].item.tx
           res == Decided(sess[s].wal, r, applyOperation(View(s), sess[s].wal, r))
<1>1. /\ SubmitApply(s) /\ SessionStep(s) /\ s \in Session
      /\ result' = [result EXCEPT ![s] = [request |-> r, submit |-> res]]
      /\ told' = told
  BY DEF Decide, Holds, SessionStep, Session
<1>2. /\ r \in Request /\ res \in SubmitResult /\ res.tx = r
      /\ Meant(res) /\ res.outcome # "REPLAY"
      /\ lock'[Input[r].wallet] = s
      /\ Behind(current', r, res.outcome, res.seen)
  BY <1>1, DecidedStands DEF Known, RowsKeysInv
<1>3. sess'[s].op = "submit" /\ sess'[s].pc = "commit"
  <2>1. sess[s] \in SessionState /\ sess[s].op = "submit"
    BY <1>1 DEF Known, IInv, SubmitApply, Fresh, Submitting
  <2>2. sess' = [sess EXCEPT ![s] = Goto(s, "commit")] /\ sess \in [Session -> SessionState]
    BY <1>1 DEF SubmitApply, Known, IInv
  <2>3. sess'[s] = Goto(s, "commit")
    BY <1>1, <2>2
  <2> QED BY <2>1, <2>3 DEF Goto, SessionState
<1> HIDE DEF r, res
<1>4. result'[s] = [request |-> r, submit |-> res]
  BY <1>1 DEF AInv, AnswersTypeOK
<1>5. result'[s] \in [request : Request, submit : SubmitResult]
  BY <1>2, <1>4
<1>6. /\ result'[s].request = r /\ result'[s].submit = res
  BY <1>4
<1>7. ResultInv(s)'
  BY <1>2, <1>3, <1>6 DEF ResultInv
<1>8. /\ result' \in [Handler -> {Pending} \cup [request : Request, submit : SubmitResult]]
      /\ \A t \in Handler : ResultInv(t)'
  BY <1>1, <1>5, <1>7, OnlyResult
<1> QED BY <1>1, <1>8, NextClean, Tells DEF AInv, AnswersTypeOK, Known

\* A replay answers from committed rows.
LEMMA ReplayStep ==
  ASSUME Known, AInv, NEW s \in Handler, Replay(s)
  PROVE  AInv'
<1> DEFINE r == sess[s].item.tx
           a == ReplayAnswer(View(s), r)
<1>1. /\ SubmitReplay(s) /\ SessionStep(s) /\ s \in Session
      /\ Tell(r, a) /\ result' = result
  BY DEF Replay, SessionStep, Session
<1>2. r \in Request /\ a \in Answer /\ Truthful(committed, r, a)
  BY <1>1, ReplayedAnswer DEF Known, RowsKeysInv, AInv
<1> HIDE DEF r, a
<1>3. Truthful(committed', r, a)
  BY <1>2, StaysTrue
<1>4. result'[s] = Pending
  BY <1>1 DEF SubmitReplay, Submitting, AInv, ResultInv
<1>5. /\ result' \in [Handler -> {Pending} \cup [request : Request, submit : SubmitResult]]
      /\ \A t \in Handler : ResultInv(t)'
  BY <1>1, <1>4, OnlyResult
<1>6. told' \in [Request -> SUBSET Answer] /\ ToldInv'
  BY <1>1, <1>2, <1>3, Tells
<1> QED BY <1>5, <1>6, NextClean DEF AInv, AnswersTypeOK, Known

\* A Submit that errs, or whose process dies, leaves no result; a failed
\* cascade does not take back what was committed before it.
LEMMA FailStep ==
  ASSUME Known, AInv, NEW s \in Handler, Refuse(s) \/ Fail(s)
  PROVE  AInv'
<1>1. SessionStep(s) \/ Crash(s)
  BY DEF Refuse, Fail, SessionStep
<1>2. result' = [result EXCEPT ![s] = Pending]
  BY DEF Refuse, Fail, Finish, Holds
<1>3. result'[s] = Pending
  BY <1>2 DEF AInv, AnswersTypeOK
<1>4. /\ result' \in [Handler -> {Pending} \cup [request : Request, submit : SubmitResult]]
      /\ \A t \in Handler : ResultInv(t)'
  BY <1>1, <1>2, <1>3, OnlyResult
<1>5. told' \in [Request -> SUBSET Answer] /\ ToldInv'
  <2>1. CASE told' = told
    BY <2>1, Tells
  <2>2. CASE Finish(s) /\ sess[s].op = "cascade"
    <3>1. ASSUME result[s] # Pending
          PROVE  LET res == result[s].submit
                 IN Behind(committed', res.tx, res.outcome, res.seen)
      <4> DEFINE res == result[s].submit
      <4>1. ResultInv(s) /\ result[s] \in [request : Request, submit : SubmitResult]
        BY <3>1 DEF AInv, AnswersTypeOK
      <4>2. res.tx \in Request /\ Behind(committed, res.tx, res.outcome, res.seen)
        BY <2>2, <3>1, <4>1 DEF ResultInv, SubmitResult
      <4> HIDE DEF res
      <4>3. Behind(committed', res.tx, res.outcome, res.seen)
        BY <4>2, StaysBehind DEF Known, RowsKeysInv, RInv
      <4> QED BY <4>3 DEF res
    <3> QED BY <2>2, <3>1, FinishTells
  <2> QED BY <2>1, <2>2 DEF Refuse, Fail
<1> QED BY <1>4, <1>5, NextClean DEF AInv, AnswersTypeOK, Known

\* A handler goes on with its cascade, or answers.
LEMMA CarryStep ==
  ASSUME Known, AInv, NEW s \in Handler, Carry(s)
  PROVE  AInv'
<1>1. Proceed(s) /\ SessionStep(s)
  BY DEF Carry, Proceed, SessionStep
<1>2. result[s] # Pending =>
        LET res == result[s].submit
        IN /\ Behind(committed', res.tx, res.outcome, res.seen)
           /\ sess'[s] = Idle \/ sess'[s].op = "cascade"
  BY <1>1, ProceedStands
<1>3. CASE sess'[s] = Idle
  <2>1. Finish(s)
    BY <1>3 DEF Carry
  <2>2. /\ told' \in [Request -> SUBSET Answer] /\ ToldInv'
        /\ result' = [result EXCEPT ![s] = Pending]
    BY <1>2, <2>1, FinishTells
  <2>3. result'[s] = Pending
    BY <2>2 DEF AInv, AnswersTypeOK
  <2>4. /\ result' \in [Handler -> {Pending} \cup [request : Request, submit : SubmitResult]]
        /\ \A t \in Handler : ResultInv(t)'
    BY <1>1, <2>2, <2>3, OnlyResult
  <2> QED BY <2>2, <2>4, NextClean DEF AInv, AnswersTypeOK, Known
<1>4. CASE sess'[s] # Idle
  <2>1. result' = result /\ told' = told
    BY <1>4 DEF Carry
  <2>2. result'[s] = Pending
          \/ (result'[s] \in [request : Request, submit : SubmitResult] /\ ResultInv(s)')
    <3> SUFFICES ASSUME result[s] # Pending
                 PROVE  result'[s] \in [request : Request, submit : SubmitResult] /\ ResultInv(s)'
      BY <2>1
    <3>1. ResultInv(s) /\ result[s] \in [request : Request, submit : SubmitResult]
      BY DEF AInv, AnswersTypeOK
    <3>2. ResultInv(s)'
      BY <1>2, <1>4, <2>1, <3>1 DEF ResultInv
    <3> QED BY <2>1, <3>1, <3>2
  <2>3. /\ result' \in [Handler -> {Pending} \cup [request : Request, submit : SubmitResult]]
        /\ \A t \in Handler : ResultInv(t)'
    BY <1>1, <2>1, <2>2, OnlyResult
  <2> QED BY <2>1, <2>3, NextClean, Tells DEF AInv, AnswersTypeOK, Known
<1> QED BY <1>3, <1>4

\* A GET writes nothing.
LEMMA GetStep ==
  ASSUME Known, AInv, NEW r \in Request, GetTransaction(r)
  PROVE  AInv'
<1> DEFINE a == transactionBody(committed, r)
<1>1. UNCHANGED <<committed, current, lock, sess, result>> /\ Tell(r, a)
  BY DEF GetTransaction, vars
<1>2. a \in Answer /\ Truthful(committed, r, a)
  BY GetAnswer DEF Known, RowsKeysInv, GetTransaction
<1> HIDE DEF a
<1>3. told' \in [Request -> SUBSET Answer] /\ ToldInv'
  BY <1>1, <1>2, StaysTrue, Tells
<1>4. \A s \in Handler : ResultInv(s)'
  BY <1>1, ResultStays
<1> QED BY <1>1, <1>3, <1>4, NextClean DEF AInv, AnswersTypeOK, Known

\* Every step of Answers.
LEMMA NextAnswers ==
  IInv /\ RowsKeysInv /\ StakeInv /\ Ahead /\ AInv /\ [AnswersNext]_answersVars => AInv'
<1> SUFFICES ASSUME IInv, RowsKeysInv, StakeInv, Ahead, AInv, [AnswersNext]_answersVars
             PROVE  AInv'
  OBVIOUS
<1>1. Known
  BY Projects, NextShape, NextGrows DEF Known
<1>2. CASE UNCHANGED answersVars
  <2>1. UNCHANGED <<committed, current, lock, sess, result, told>>
    BY <1>2 DEF answersVars, vars
  <2>2. \A s \in Handler : ResultInv(s)'
    BY <1>1, <2>1, ResultStays
  <2> QED BY <1>1, <2>1, <2>2, NextClean, Tells DEF AInv, AnswersTypeOK, Known
<1>3. CASE Elsewhere
  BY <1>1, <1>3, ElsewhereStep
<1>4. ASSUME NEW s \in Handler, HandlerStep(s) PROVE AInv'
  BY <1>1, <1>4, DecideStep, ReplayStep, FailStep, CarryStep DEF HandlerStep
<1>5. ASSUME NEW r \in Request, GetTransaction(r) PROVE AInv'
  BY <1>1, <1>5, GetStep
<1> QED BY <1>2, <1>3, <1>4, <1>5 DEF AnswersNext

\* Before anything is asked nothing is told.
LEMMA InitAnswers == AnswersInit => AInv
<1> SUFFICES ASSUME AnswersInit PROVE AInv
  OBVIOUS
<1>1. committed = current
  BY DEF AnswersInit, Init
<1> QED BY <1>1 DEF AnswersInit, AInv, AnswersTypeOK, CleanInv, Same, EntriesOf, ToldInv, ResultInv

-----------------------------------------------------------------------------
(* The theorems.                                                           *)

\* The invariants of Wagering hold of Answers, and with them that of the
\* answers.
THEOREM AnswersInvariance ==
  AnswersSpec => [](IInv /\ RowsKeysInv /\ StakeInv /\ Ahead /\ AInv)
<1>1. AnswersInit => IInv /\ RowsKeysInv /\ StakeInv /\ Ahead /\ AInv
  BY InitOK, InitRows, InitStake, InitMaps, InitAnswers DEF AnswersInit
<1>2. IInv /\ RowsKeysInv /\ StakeInv /\ Ahead /\ AInv /\ [AnswersNext]_answersVars
        => IInv' /\ RowsKeysInv' /\ StakeInv' /\ Ahead' /\ AInv'
  BY Projects, NextPreserves, NextRows, NextStake, NextGrows, NextAnswers DEF Step
<1> QED BY <1>1, <1>2, PTL DEF AnswersSpec

\* No answer, of a POST or of a GET, carries a failure code with a success or
\* comes without one for a rejection.
THEOREM AnswersTyped == AnswersSpec => []AnswersTypeOK
<1>1. AInv => AnswersTypeOK
  BY DEF AInv
<1> QED BY <1>1, AnswersInvariance, PTL

\* What a provider is told stays true for ever, however its requests and
\* retries interleave with other sessions and whatever fails: behind an
\* answer is a committed row of an operation with the same content, and behind
\* a success the movement with the balance that was answered.
THEOREM AnswersStand == AnswersSpec => []AnswersHold
<1>1. AInv => AnswersHold
  <2> SUFFICES ASSUME AInv, NEW r \in Request, NEW a \in told[r], a.http \in {200, 201, 202}
               PROVE  /\ PayloadHash(a.tx) = PayloadHash(r)
                      /\ Present(committed, a.tx)
                      /\ a.status = "PROCESSED" /\ Input[r].kind # "LOSS" =>
                           \E e \in committed.ledger : /\ e.tx = a.tx
                                                       /\ e.after = a.seen.balance
                                                       /\ e.version = a.seen.version
    BY DEF AnswersHold
  <2>1. /\ PayloadHash(a.tx) = PayloadHash(r)
        /\ Behind(committed, a.tx, a.status, a.seen)
    BY DEF AInv, ToldInv, Truthful
  <2>2. PayloadHash(a.tx)["kind"] = PayloadHash(r)["kind"]
    BY <2>1
  <2>3. Input[a.tx].kind = Input[r].kind
    BY <2>2 DEF PayloadHash
  <2> QED BY <2>1, <2>3 DEF Behind, EntriesOf
<1> QED BY <1>1, AnswersInvariance, PTL

-----------------------------------------------------------------------------
(* Third part: what is final stays.                                        *)

Waiting(d, r) == d.tx[r].state = "PENDING_REFERENCE"

\* The columns that a replay or a GET answers from.
Columns(d, r) ==
  [state |-> d.tx[r].state, code |-> d.tx[r].code,
   balance |-> d.tx[r].balance, version |-> d.tx[r].version]

\* What session n is going to resume.
ToResume(n) ==
  IF n.op \notin {"cascade", "work"} THEN {}
  ELSE {i.tx : i \in n.todo} \cup (IF n.pc \in {"lock", "apply"} THEN {n.item.tx} ELSE {})

\* The BET whose dependents a cascade resumes, as they name it.
Serves(n) ==
  IF n.op # "cascade" THEN {}
  ELSE IF n.pc = "find" THEN {Own(n.item.tx)}
  ELSE {Named(q) : q \in ToResume(n) \cup (IF n.pc = "commit" THEN {n.item.tx} ELSE {})}

\* No operation is twice in what a session is going to resume.
Neat(n) ==
  n.op \in {"cascade", "work"} =>
    /\ \A i, j \in n.todo : i.tx = j.tx => i = j
    /\ n.pc \in {"lock", "apply"} => \A i \in n.todo : i.tx # n.item.tx

\* What a session is going to do: a cascade has the dependents of one
\* committed BET.
PlanOK(n) ==
  /\ Neat(n)
  /\ n.pc = "find" => n.op = "cascade" /\ ToResume(n) = {}
  /\ \A q \in ToResume(n) : Parkable(q)
  /\ \A g, h \in Serves(n) : g = h
  /\ \A g \in Serves(n) :
       \E b \in Request : Input[b].kind = "BET" /\ Present(committed, b) /\ Own(b) = g

\* No two cascades have the same dependents, and only workers poll.
PlansInv ==
  /\ \A s \in Session : PlanOK(sess[s]) /\ (sess[s].op = "work" => s \in Worker)
  /\ \A s, t \in Session : s # t => Serves(sess[s]) \cap Serves(sess[t]) = {}

\* No version has a row that waits and cannot be parked.
NeverWaits == \A r \in Request : ~Parkable(r) => ~Waiting(committed, r) /\ ~Waiting(current, r)

\* Nobody writes over the outcome of a firm operation.
Unaltered ==
  \A r \in Request : Firm(r) /\ IsTerminal(committed.tx[r].state) =>
    Columns(current, r) = Columns(committed, r)

\* A firm operation that has moved money is processed.
MovesStand(d) == \A r \in Request : Firm(r) /\ HasEntry(d, r) => d.tx[r].state = "PROCESSED"

\* A submit that is about to commit has inserted its operation.
Inserting(s) ==
  LET r == sess[s].item.tx
  IN sess[s].op = "submit" /\ sess[s].pc = "commit" =>
       lock[Input[r].wallet] = s /\ Present(current, r) /\ ~Present(committed, r)

\* What the only party that can resume an operation is going to resume waits.
StillWaits(s) ==
  \A q \in ToResume(sess[s]) : Sole(q) => Waiting(committed, q) /\ Waiting(current, q)

\* Such an operation is resumed, but not committed yet, by that party.
ResumedBy(q) ==
  LET s == lock[Input[q].wallet]
  IN /\ s \in Session
     /\ sess[s].op = "work" \/ Named(q) \in Serves(sess[s])

Resumed ==
  \A q \in Request :
    Sole(q) /\ Waiting(committed, q) => Waiting(current, q) \/ ResumedBy(q)

FirmRows ==
  /\ NeverWaits
  /\ Unaltered
  /\ MovesStand(committed) /\ MovesStand(current)
  /\ \A s \in Session : Inserting(s) /\ StillWaits(s)
  /\ Resumed

FirmInv == PlansInv /\ FirmRows

-----------------------------------------------------------------------------
(* Plans. *)

\* Session s goes on with n and takes up nothing new.
GoesOn(s, n) ==
  /\ Neat(n)
  /\ n.pc # "find"
  /\ ToResume(n) \subseteq ToResume(sess[s])
  /\ Serves(n) \subseteq Serves(sess[s])
  /\ n.op = "work" => sess[s].op = "work"

\* Nothing is left to resume of a session that stops, or only the rest of a
\* worker's batch.
LEMMA StopGoesOn ==
  ASSUME IInv, PlansInv, NEW s \in Session, NEW n \in {Idle, AfterTx(s)}
  PROVE  GoesOn(s, n) /\ n.op # "submit" /\ Serves(n) = {}
<1>1. CASE n = Idle
  BY <1>1 DEF GoesOn, Neat, ToResume, Serves, Idle
<1>2. CASE n # Idle
  <2>1. /\ n = [Idle EXCEPT !.pc = "next", !.op = "work", !.todo = sess[s].todo]
        /\ sess[s].op = "work"
    BY <1>2 DEF AfterTx
  <2>2. n.pc = "next" /\ n.op = "work" /\ n.todo = sess[s].todo
    BY <2>1 DEF Idle
  <2>3. Neat(sess[s])
    BY DEF PlansInv, PlanOK
  <2> QED BY <2>1, <2>2, <2>3 DEF GoesOn, Neat, ToResume, Serves
<1> QED BY <1>1, <1>2

\* A session that has resumed its item goes on with the others.
LEMMA ResumeGoesOn ==
  ASSUME IInv, PlansInv, NEW s \in Session, Resuming(s)
  PROVE  LET n == AfterResume(s)
             r == sess[s].item.tx
         IN /\ GoesOn(s, n)
            /\ Serves(n) = Serves(sess[s])
            /\ n.op = sess[s].op
            /\ r \in ToResume(sess[s]) /\ r \notin ToResume(n)
            /\ n.op = "cascade" => Named(r) \in Serves(n)
<1> DEFINE n == AfterResume(s)
           r == sess[s].item.tx
           rest == {i.tx : i \in sess[s].todo}
<1>1. /\ sess[s].pc = "apply" /\ sess[s].op \in {"cascade", "work"}
      /\ sess[s] \in SessionState
  BY DEF Resuming, IInv
<1>2. PlanOK(sess[s])
  BY DEF PlansInv
<1>3. /\ \A i, j \in sess[s].todo : i.tx = j.tx => i = j
      /\ r \notin rest
  BY <1>1, <1>2 DEF PlanOK, Neat
<1>4. ToResume(sess[s]) = rest \cup {r}
  BY <1>1 DEF ToResume
<1>5. /\ n.op = sess[s].op /\ n.todo = sess[s].todo
      /\ \/ n.pc = "next" /\ sess[s].todo # {}
         \/ n.pc = "commit" /\ n.item = sess[s].item
      /\ n.op = "cascade" /\ n.pc = "commit" => sess[s].todo = {}
  BY <1>1 DEF AfterResume, Goto, Idle, SessionState
<1> HIDE DEF n
<1>6. ToResume(n) = rest
  BY <1>1, <1>5 DEF ToResume
<1>7. Neat(n)
  BY <1>3, <1>5 DEF Neat
<1>8. Serves(n) = Serves(sess[s]) /\ (n.op = "cascade" => Named(r) \in Serves(n))
  <2>1. CASE n.op # "cascade"
    BY <1>5, <2>1 DEF Serves
  <2>2. CASE n.op = "cascade"
    <3>1. Serves(sess[s]) = {Named(q) : q \in rest \cup {r}}
      BY <1>1, <1>4, <1>5, <2>2 DEF Serves
    <3>2. \A g, h \in Serves(sess[s]) : g = h
      BY <1>2 DEF PlanOK
    <3>3. CASE n.pc = "commit"
      <4>1. rest = {}
        BY <1>5, <2>2, <3>3
      <4>2. Serves(n) = {Named(q) : q \in {r}}
        BY <1>5, <1>6, <2>2, <3>3, <4>1 DEF Serves
      <4> QED BY <3>1, <4>1, <4>2
    <3>4. CASE n.pc = "next"
      <4>1. Serves(n) = {Named(q) : q \in rest}
        BY <1>6, <2>2, <3>4 DEF Serves
      <4>2. PICK i \in sess[s].todo : TRUE
        BY <1>5, <3>4
      <4>3. i.tx \in rest
        BY <4>2
      <4>4. Named(i.tx) = Named(r)
        BY <3>1, <3>2, <4>3
      <4> QED BY <3>1, <4>1, <4>3, <4>4
    <3> QED BY <1>5, <3>3, <3>4
  <2> QED BY <2>1, <2>2
<1> QED BY <1>3, <1>4, <1>5, <1>6, <1>7, <1>8 DEF GoesOn, n

\* A step after which session s is in state n, and serves no other BET than
\* before, keeps the plans.
LEMMA PlansKept ==
  ASSUME PlansInv, RowsGrow(committed, committed'), NEW s, NEW n,
         \A t \in Session : sess'[t] = IF t = s THEN n ELSE sess[t],
         s \in Session => /\ Neat(n) /\ n.pc # "find"
                          /\ \A q \in ToResume(n) : Parkable(q)
                          /\ Serves(n) \subseteq Serves(sess[s])
                          /\ n.op = "work" => s \in Worker
  PROVE  PlansInv'
<1>1. \A b \in Request : Present(committed, b) => Present(committed', b)
  BY DEF RowsGrow
<1>2. \A t \in Session : Serves(sess'[t]) \subseteq Serves(sess[t])
  OBVIOUS
<1>3. ASSUME NEW t \in Session
      PROVE  PlanOK(sess[t])' /\ (sess'[t].op = "work" => t \in Worker)
  <2>1. PlanOK(sess[t]) /\ (sess[t].op = "work" => t \in Worker)
    BY DEF PlansInv
  <2>2. \A g \in Serves(sess'[t]) :
          \E b \in Request : Input[b].kind = "BET" /\ Present(committed', b) /\ Own(b) = g
    BY <1>1, <1>2, <2>1 DEF PlanOK
  <2>3. \A g, h \in Serves(sess'[t]) : g = h
    BY <1>2, <2>1 DEF PlanOK
  <2>4. \A q \in ToResume(sess'[t]) : Parkable(q)
    BY <2>1 DEF PlanOK
  <2>5. /\ Neat(sess'[t])
        /\ sess'[t].pc = "find" => sess'[t].op = "cascade" /\ ToResume(sess'[t]) = {}
        /\ sess'[t].op = "work" => t \in Worker
    BY <2>1 DEF PlanOK
  <2> QED BY <2>2, <2>3, <2>4, <2>5 DEF PlanOK
<1>4. \A t, u \in Session : t # u => Serves(sess'[t]) \cap Serves(sess'[u]) = {}
  BY <1>2 DEF PlansInv
<1> QED BY <1>3, <1>4 DEF PlansInv

\* A session that goes on with its plan leaves all plans in order.
LEMMA PlansGoOn ==
  ASSUME PlansInv, RowsGrow(committed, committed'), NEW s \in Session, NEW n,
         \A t \in Session : sess'[t] = IF t = s THEN n ELSE sess[t],
         GoesOn(s, n)
  PROVE  PlansInv'
<1>1. PlanOK(sess[s]) /\ (sess[s].op = "work" => s \in Worker)
  BY DEF PlansInv
<1> QED BY <1>1, PlansKept DEF GoesOn, PlanOK

-----------------------------------------------------------------------------
(* Rows. *)

\* A step that changes no row, moves nothing, and after which session s is in
\* state n.
LEMMA RowsCalm ==
  ASSUME IInv, CleanInv, FirmRows, NEW s, NEW n,
         committed'.tx = committed.tx, current'.tx = current.tx,
         \A r \in Request : /\ HasEntry(committed', r) => HasEntry(committed, r)
                            /\ HasEntry(current', r) => HasEntry(current, r),
         \A w \in Wallet : lock'[w] = lock[w] \/ lock[w] = None,
         \A t \in Session : sess'[t] = IF t = s THEN n ELSE sess[t],
         s \in Session =>
           /\ n.op = "submit" => n.pc # "commit"
           /\ \A q \in ToResume(n) : \/ q \in ToResume(sess[s])
                                     \/ Sole(q) => Waiting(committed, q) /\ Waiting(current, q)
           /\ Clean(sess[s]) \/ (n.op = sess[s].op /\ Serves(n) = Serves(sess[s]))
  PROVE  FirmRows'
<1>0. /\ \A r \in Request : Input[r].wallet \in Wallet
      /\ None \notin Session
  BY InputFacts, ConstantsAssumption DEF Session
<1>1. NeverWaits' /\ Unaltered'
  BY DEF FirmRows, NeverWaits, Unaltered, Waiting, Columns
<1>2. MovesStand(committed)' /\ MovesStand(current)'
  BY DEF FirmRows, MovesStand
<1>3. ASSUME NEW t \in Session PROVE Inserting(t)' /\ StillWaits(t)'
  <2>1. Inserting(t) /\ StillWaits(t)
    BY DEF FirmRows
  <2>2. Inserting(t)'
    <3> SUFFICES ASSUME sess'[t].op = "submit", sess'[t].pc = "commit"
                 PROVE  LET r == sess'[t].item.tx
                        IN /\ lock'[Input[r].wallet] = t
                           /\ Present(current', r) /\ ~Present(committed', r)
      BY DEF Inserting
    <3>1. sess'[t] = sess[t]
      OBVIOUS
    <3>2. sess[t].item.tx \in Request
      BY <3>1 DEF IInv, SessionOK
    <3> QED BY <1>0, <2>1, <3>1, <3>2 DEF Inserting, Present
  <2>3. StillWaits(t)'
    BY <2>1 DEF StillWaits, Waiting
  <2> QED BY <2>2, <2>3
<1>4. Resumed'
  <2> SUFFICES ASSUME NEW q \in Request, Sole(q), Waiting(committed, q), ~Waiting(current, q)
               PROVE  ResumedBy(q)'
    BY DEF Resumed, Waiting
  <2> DEFINE w == Input[q].wallet
  <2>1. ResumedBy(q)
    BY DEF FirmRows, Resumed
  <2>2. current.tx[q] # committed.tx[q]
    BY DEF Waiting
  <2>3. lock[w] \in Session /\ ~Clean(sess[lock[w]])
    BY <1>0, <2>1, <2>2 DEF CleanInv, Same, ResumedBy
  <2>4. lock'[w] = lock[w]
    BY <1>0, <2>3
  <2> QED BY <2>1, <2>3, <2>4 DEF ResumedBy
<1> QED BY <1>1, <1>2, <1>3, <1>4 DEF FirmRows

\* What a merge of the two versions has of an operation.
LEMMA MergeRow ==
  ASSUME IInv, NEW d \in {committed, current}, NEW e \in {committed, current}, NEW ws
  PROVE  LET m == Merge(d, e, ws)
         IN \A q \in Request :
              /\ m.tx[q] = IF Input[q].wallet \in ws THEN e.tx[q] ELSE d.tx[q]
              /\ HasEntry(m, q) <=> IF Input[q].wallet \in ws THEN HasEntry(e, q)
                                    ELSE HasEntry(d, q)
<1>1. d \in Database /\ e \in Database /\ Owned(d) /\ Owned(e)
  BY DEF IInv, TablesOK, DbInv
<1> DEFINE m == Merge(d, e, ws)
<1>2. \A q \in Request : HasEntry(m, q) <=> IF Input[q].wallet \in ws THEN HasEntry(e, q)
                                           ELSE HasEntry(d, q)
  BY <1>1, MergeVoids
<1>3. \A q \in Request : m.tx[q] = IF Input[q].wallet \in ws THEN e.tx[q] ELSE d.tx[q]
  BY DEF Merge
<1> QED BY <1>2, <1>3

\* A rollback or a commit: on the wallets that s held both versions are then
\* the same, on the others nothing has changed.
LEMMA RowsSettled ==
  ASSUME IInv, FirmRows, NEW s \in Session, NEW n,
         NEW old \in {committed, current},
         \A q \in Request : Input[q].wallet \in Held(s) =>
           /\ committed'.tx[q] = old.tx[q] /\ current'.tx[q] = old.tx[q]
           /\ HasEntry(committed', q) <=> HasEntry(old, q)
           /\ HasEntry(current', q) <=> HasEntry(old, q),
         \A q \in Request : Input[q].wallet \notin Held(s) =>
           /\ committed'.tx[q] = committed.tx[q] /\ current'.tx[q] = current.tx[q]
           /\ HasEntry(committed', q) <=> HasEntry(committed, q)
           /\ HasEntry(current', q) <=> HasEntry(current, q),
         lock' = Release(s),
         \A t \in Session : sess'[t] = IF t = s THEN n ELSE sess[t],
         n.op # "submit", ToResume(n) \subseteq ToResume(sess[s])
  PROVE  FirmRows'
<1>0. /\ \A q \in Request : Input[q].wallet \in Wallet
      /\ None \notin Session
  BY InputFacts, ConstantsAssumption DEF Session
<1>1. \A w \in Wallet : w \in Held(s) <=> lock[w] = s
  BY DEF Held
<1>2. \A w \in Wallet : w \notin Held(s) => lock'[w] = lock[w]
  BY DEF Release, Held
<1>3. NeverWaits'
  BY DEF FirmRows, NeverWaits, Waiting
<1>4. Unaltered'
  BY DEF FirmRows, Unaltered, Columns
<1>5. MovesStand(committed)' /\ MovesStand(current)'
  <2>1. MovesStand(committed) /\ MovesStand(current)
    BY DEF FirmRows
  <2> QED BY <2>1 DEF MovesStand
<1>6. ASSUME NEW t \in Session PROVE Inserting(t)' /\ StillWaits(t)'
  <2>1. Inserting(t) /\ StillWaits(t)
    BY DEF FirmRows
  <2>2. Inserting(t)'
    <3> SUFFICES ASSUME sess'[t].op = "submit", sess'[t].pc = "commit"
                 PROVE  LET r == sess'[t].item.tx
                        IN /\ lock'[Input[r].wallet] = t
                           /\ Present(current', r) /\ ~Present(committed', r)
      BY DEF Inserting
    <3>1. t # s /\ sess'[t] = sess[t]
      OBVIOUS
    <3>2. sess[t].item.tx \in Request
      BY <3>1 DEF IInv, SessionOK
    <3>3. lock[Input[sess[t].item.tx].wallet] = t
      BY <2>1, <3>1 DEF Inserting
    <3>4. Input[sess[t].item.tx].wallet \notin Held(s)
      BY <1>1, <3>1, <3>3 DEF Held
    <3> QED BY <1>0, <1>2, <2>1, <3>1, <3>2, <3>4 DEF Inserting, Present
  <2>3. StillWaits(t)'
    <3> SUFFICES ASSUME NEW q \in ToResume(sess'[t]), Sole(q)
                 PROVE  Waiting(committed', q) /\ Waiting(current', q)
      BY DEF StillWaits
    <3>1. q \in ToResume(sess[t])
      OBVIOUS
    <3>2. q \in Request
      BY <3>1 DEF ToResume, IInv, SessionOK
    <3> QED BY <2>1, <3>1, <3>2 DEF StillWaits, Waiting
  <2> QED BY <2>2, <2>3
<1>7. Resumed'
  <2> SUFFICES ASSUME NEW q \in Request, Sole(q), Waiting(committed', q), ~Waiting(current', q)
               PROVE  ResumedBy(q)'
    BY DEF Resumed
  <2>1. Input[q].wallet \notin Held(s)
    BY DEF Waiting
  <2>2. ResumedBy(q)
    BY <2>1 DEF FirmRows, Resumed, Waiting
  <2>3. lock'[Input[q].wallet] = lock[Input[q].wallet] /\ lock[Input[q].wallet] # s
    BY <1>0, <1>1, <1>2, <2>1
  <2> QED BY <2>2, <2>3 DEF ResumedBy
<1> QED BY <1>3, <1>4, <1>5, <1>6, <1>7 DEF FirmRows

\* What an effect on operation r may change in the tables.
TouchesOnly(d, x, r) ==
  /\ \A q \in Request \ {r} : /\ Columns(x, q) = Columns(d, q)
                              /\ HasEntry(x, q) => HasEntry(d, q)
  /\ HasEntry(x, r) => HasEntry(d, r) \/ x.tx[r].state = "PROCESSED"

\* A session with the wallet of r writes an effect on r, and goes on with n.
LEMMA RowsWritten ==
  ASSUME IInv, FirmRows, NEW s \in Session, NEW n, NEW r \in Request, NEW x \in Database,
         Write(s, x), Owned(x), TouchesOnly(View(s), x, r), lock[Input[r].wallet] = s,
         UNCHANGED <<committed, lock>>,
         \A t \in Session : sess'[t] = IF t = s THEN n ELSE sess[t],
         ToResume(n) \subseteq ToResume(sess[s]), Serves(n) = Serves(sess[s]),
         n.op = sess[s].op,
         Parkable(r) \/ ~Waiting(x, r),
         Firm(r) => ~IsTerminal(committed.tx[r].state) /\ ~HasEntry(current, r),
         n.op = "submit" => n.item.tx = r /\ Present(x, r) /\ ~Present(committed, r),
         Sole(r) => \A t \in Session : r \notin ToResume(sess'[t]),
         Waiting(committed, r) => n.op = "work" \/ Named(r) \in Serves(n)
  PROVE  FirmRows'
<1>0. /\ \A q \in Request : Input[q].wallet \in Wallet
      /\ None \notin Session
  BY InputFacts, ConstantsAssumption DEF Session
<1>1. \A w \in Wallet : w \in Held(s) <=> lock[w] = s
  BY DEF Held
<1>2. /\ current' = Merge(current, x, Held(s))
      /\ View(s) = Merge(committed, current, Held(s))
  BY DEF Write, View
<1>3. /\ current \in Database /\ Owned(current)
      /\ committed \in Database /\ Owned(committed)
  BY DEF IInv, TablesOK, DbInv
<1>4. \A q \in Request :
        /\ current'.tx[q] = IF Input[q].wallet \in Held(s) THEN x.tx[q] ELSE current.tx[q]
        /\ View(s).tx[q] = IF Input[q].wallet \in Held(s) THEN current.tx[q]
                           ELSE committed.tx[q]
  BY <1>2 DEF Merge
<1>5. \A q \in Request :
        /\ HasEntry(current', q) <=> IF Input[q].wallet \in Held(s) THEN HasEntry(x, q)
                                     ELSE HasEntry(current, q)
        /\ HasEntry(View(s), q) <=> IF Input[q].wallet \in Held(s) THEN HasEntry(current, q)
                                    ELSE HasEntry(committed, q)
  BY <1>2, <1>3, MergeVoids
<1>6. \A q \in Request \ {r} : /\ Columns(current', q) = Columns(current, q)
                               /\ HasEntry(current', q) => HasEntry(current, q)
  BY <1>4, <1>5 DEF TouchesOnly, Columns
<1>7. /\ current'.tx[r] = x.tx[r]
      /\ HasEntry(current', r) => HasEntry(current, r) \/ x.tx[r].state = "PROCESSED"
  BY <1>0, <1>1, <1>4, <1>5 DEF TouchesOnly
<1>8. \A q \in Request \ {r} : current'.tx[q].state = current.tx[q].state
  BY <1>6 DEF Columns
<1>9. NeverWaits'
  BY <1>7, <1>8 DEF FirmRows, NeverWaits, Waiting
<1>10. Unaltered'
  <2> SUFFICES ASSUME NEW q \in Request, Firm(q), IsTerminal(committed.tx[q].state)
               PROVE  Columns(current', q) = Columns(committed', q)
    BY DEF Unaltered
  <2>1. q # r
    OBVIOUS
  <2>2. Columns(current, q) = Columns(committed, q)
    BY DEF FirmRows, Unaltered
  <2> QED BY <1>6, <2>1, <2>2
<1>11. MovesStand(committed)' /\ MovesStand(current)'
  <2>1. MovesStand(committed) /\ MovesStand(current)
    BY DEF FirmRows
  <2> QED BY <1>6, <1>7, <1>8, <2>1 DEF MovesStand
<1>12. ASSUME NEW t \in Session PROVE Inserting(t)' /\ StillWaits(t)'
  <2>1. Inserting(t) /\ StillWaits(t)
    BY DEF FirmRows
  <2>2. Inserting(t)'
    <3> SUFFICES ASSUME sess'[t].op = "submit", sess'[t].pc = "commit"
                 PROVE  LET p == sess'[t].item.tx
                        IN /\ lock[Input[p].wallet] = t
                           /\ Present(current', p) /\ ~Present(committed, p)
      BY DEF Inserting
    <3>1. CASE t = s
      BY <1>7, <3>1 DEF Present
    <3>2. CASE t # s
      <4>1. sess'[t] = sess[t] /\ sess[t].item.tx \in Request
        BY <3>2 DEF IInv, SessionOK
      <4>2. sess[t].item.tx # r
        BY <2>1, <3>2, <4>1 DEF Inserting
      <4> QED BY <1>8, <2>1, <4>1, <4>2 DEF Inserting, Present
    <3> QED BY <3>1, <3>2
  <2>3. StillWaits(t)'
    <3> SUFFICES ASSUME NEW q \in ToResume(sess'[t]), Sole(q)
                 PROVE  Waiting(committed, q) /\ Waiting(current', q)
      BY DEF StillWaits
    <3>1. q \in ToResume(sess[t])
      OBVIOUS
    <3>2. q \in Request
      BY <3>1 DEF ToResume, IInv, SessionOK
    <3>3. q # r
      OBVIOUS
    <3> QED BY <1>8, <2>1, <3>1, <3>2, <3>3 DEF StillWaits, Waiting
  <2> QED BY <2>2, <2>3
<1>13. Resumed'
  <2> SUFFICES ASSUME NEW q \in Request, Sole(q), Waiting(committed, q), ~Waiting(current', q)
               PROVE  ResumedBy(q)'
    BY DEF Resumed
  <2>1. CASE q = r
    BY <2>1 DEF ResumedBy
  <2>2. CASE q # r
    <3>1. ResumedBy(q)
      BY <1>8, <2>2 DEF FirmRows, Resumed, Waiting
    <3> QED BY <3>1 DEF ResumedBy
  <2> QED BY <2>1, <2>2
<1> QED BY <1>9, <1>10, <1>11, <1>12, <1>13 DEF FirmRows

-----------------------------------------------------------------------------
(* The effects touch only their own operation. *)

\* A processed operation.
LEMMA ProcessedTouches ==
  ASSUME NEW d \in Database, NEW row \in WalletRow, NEW r \in Request, NEW v,
         Sound(v, row, r), v.outcome = "PROCESSED", Moves(v, r)
  PROVE  LET x == processed(d, row, r, v)
         IN TouchesOnly(d, x, r) /\ x.tx[r].state = "PROCESSED"
<1>1. PICK x : x = processed(d, row, r, v)
  OBVIOUS
<1>2. /\ \A q \in Request \ {r} : /\ x.tx[q].state = d.tx[q].state
                                  /\ x.tx[q].balance = d.tx[q].balance
                                  /\ x.tx[q].version = d.tx[q].version
      /\ x.tx[r].state = "PROCESSED"
  BY <1>1, ProcessedRows
<1>3. \A q \in Request \ {r} : /\ x.tx[q].code = d.tx[q].code
                               /\ HasEntry(x, q) => HasEntry(d, q)
  BY <1>1, ProcessedSlotRows
<1> QED BY <1>1, <1>2, <1>3 DEF TouchesOnly, Columns

\* A rejected operation.
LEMMA RejectedTouches ==
  ASSUME NEW d \in Database, NEW row \in WalletRow, NEW r \in Request, NEW v
  PROVE  LET x == rejected(d, row, r, v)
         IN TouchesOnly(d, x, r) /\ x.tx[r].state = "REJECTED"
<1>1. PICK x : x = rejected(d, row, r, v)
  OBVIOUS
<1>2. /\ x.tx[r].state = "REJECTED"
      /\ \A q \in Request \ {r} : x.tx[q] = d.tx[q]
      /\ x.ledger = d.ledger
  BY <1>1 DEF rejected, UpdateState, Database
<1> QED BY <1>1, <1>2 DEF TouchesOnly, Columns, HasEntry

\* What a step on the work rows or the inbox leaves alone.
LEMMA SameTouches ==
  ASSUME NEW d, NEW y, NEW x, NEW r, TouchesOnly(d, y, r), x.tx = y.tx, x.ledger = y.ledger
  PROVE  TouchesOnly(d, x, r)
BY DEF TouchesOnly, Columns, HasEntry

\* A first submission; the row waits only if the verdict is to park it.
LEMMA AcceptTouches ==
  ASSUME NEW d \in Database, NEW row \in WalletRow, NEW r \in Request, NEW v,
         Sound(v, row, r), Moves(v, r)
  PROVE  LET x == Accept(d, row, r, v)
         IN TouchesOnly(d, x, r) /\ (Waiting(x, r) => v.outcome \notin {"PROCESSED", "REJECTED"})
<1> DEFINE y == CASE v.outcome = "PROCESSED" -> processed(d, row, r, v)
                  [] v.outcome = "REJECTED" -> rejected(d, row, r, v)
                  [] OTHER -> parkReference(d, row, r)
<1>1. /\ y \in Database /\ TouchesOnly(d, y, r)
      /\ Waiting(y, r) => v.outcome \notin {"PROCESSED", "REJECTED"}
  <2>1. CASE v.outcome = "PROCESSED"
    BY <2>1, ProcessedTouches, ProcessedType DEF Waiting
  <2>2. CASE v.outcome = "REJECTED"
    BY <2>2, RejectedTouches, RejectedType DEF Waiting
  <2>3. CASE v.outcome \notin {"PROCESSED", "REJECTED"}
    <3>1. PICK x : x = parkReference(d, row, r)
      OBVIOUS
    <3>2. /\ \A q \in Request \ {r} : x.tx[q] = d.tx[q]
          /\ x.ledger = d.ledger
      BY <3>1 DEF parkReference, NoTx, Database
    <3>3. TouchesOnly(d, x, r)
      BY <3>2 DEF TouchesOnly, Columns, HasEntry
    <3> QED BY <2>3, <3>1, <3>3, ParkType
  <2> QED BY <2>1, <2>2, <2>3
<1>2. Accept(d, row, r, v) = InsertInbox(y, r)
  BY DEF Accept
<1> HIDE DEF y
<1>3. PICK x : x = InsertInbox(y, r)
  OBVIOUS
<1>4. x.tx = y.tx /\ x.ledger = y.ledger
  BY <1>1, <1>3 DEF InsertInbox, Database
<1> QED BY <1>1, <1>2, <1>3, <1>4, SameTouches DEF Waiting

\* A resume.
LEMMA SettleTouches ==
  ASSUME NEW d \in Database, NEW row \in WalletRow, NEW r \in Request, NEW v,
         Sound(v, row, r), Moves(v, r)
  PROVE  TouchesOnly(d, Settle(d, row, r, v), r)
<1>1. CASE v.outcome = "PROCESSED"
  <2>1. PICK y : y = processed(d, row, r, v)
    OBVIOUS
  <2>2. PICK x : x = DeleteWork(y, r)
    OBVIOUS
  <2>3. y \in Database /\ TouchesOnly(d, y, r)
    BY <1>1, <2>1, ProcessedTouches, ProcessedType
  <2>4. x.tx = y.tx /\ x.ledger = y.ledger
    BY <2>2, <2>3 DEF DeleteWork, Database
  <2>5. Settle(d, row, r, v) = x
    BY <1>1, <2>1, <2>2 DEF Settle, settleProcessedExisting
  <2> QED BY <2>3, <2>4, <2>5, SameTouches
<1>2. CASE v.outcome = "REJECTED"
  <2>1. PICK y : y = rejected(d, row, r, v)
    OBVIOUS
  <2>2. PICK x : x = DeleteWork(y, r)
    OBVIOUS
  <2>3. y \in Database /\ TouchesOnly(d, y, r)
    BY <1>2, <2>1, RejectedTouches, RejectedType
  <2>4. x.tx = y.tx /\ x.ledger = y.ledger
    BY <2>2, <2>3 DEF DeleteWork, Database
  <2>5. Settle(d, row, r, v) = x
    BY <1>2, <2>1, <2>2 DEF Settle, settleRejectedExisting
  <2> QED BY <2>3, <2>4, <2>5, SameTouches
<1>3. CASE v.outcome \notin {"PROCESSED", "REJECTED"}
  <2>1. PICK x : x = TouchWork(d, r, d.work[r].ref + 1, 0, TRUE)
    OBVIOUS
  <2>2. x.tx = d.tx /\ x.ledger = d.ledger
    BY <2>1 DEF TouchWork, Database
  <2>3. Settle(d, row, r, v) = x
    BY <1>3, <2>1 DEF Settle
  <2> QED BY <2>2, <2>3 DEF TouchesOnly, Columns, HasEntry
<1> QED BY <1>1, <1>2, <1>3

\* A failed attempt of a worker, the last one included.
LEMMA noteInfraTouches ==
  ASSUME NEW d \in Database, NEW i \in Item, i.tx \in Request
  PROVE  TouchesOnly(d, noteInfra(d, i), i.tx)
<1>1. PICK x : x = noteInfra(d, i)
  OBVIOUS
<1>2. \/ x.tx = d.tx
      \/ x.tx = [d.tx EXCEPT ![i.tx] = [d.tx[i.tx] EXCEPT !.state = "FAILED",
                                                          !.code = "INFRA_EXHAUSTED"]]
  BY <1>1 DEF noteInfra, TouchWork, DeleteWork, Database
<1>3. \A q \in Request \ {i.tx} : x.tx[q] = d.tx[q]
  BY <1>2 DEF Database
<1>4. x.ledger = d.ledger
  BY <1>1 DEF noteInfra, TouchWork, DeleteWork, Database
<1> QED BY <1>1, <1>3, <1>4 DEF TouchesOnly, Columns, HasEntry

-----------------------------------------------------------------------------
(* The steps keep FirmInv. *)

\* What every proof of a step starts from.
FirmContext == IInv /\ RowsKeysInv /\ CleanInv /\ FirmInv

\* What is committed stays present and final.
LEMMA CommittedGrows ==
  ASSUME IInv, RowsAhead, Shape
  PROVE  RowsGrow(committed, committed')
<1>1. CASE committed'.tx = committed.tx
  BY <1>1, RowsGrowReflexive
<1>2. ASSUME NEW s \in Session, CommitOf(s) PROVE RowsGrow(committed, committed')
  <2>1. committed' = Merge(committed, current, Held(s))
    BY <1>2 DEF CommitOf
  <2>2. \A q \in Request : committed'.tx[q] = IF Input[q].wallet \in Held(s)
                                                THEN current.tx[q] ELSE committed.tx[q]
    BY <2>1 DEF Merge
  <2> QED BY <2>2 DEF RowsAhead, RowsGrow, Present
<1> QED BY <1>1, <1>2 DEF Shape, CalmStep, LockForUpdate, RollbackOf, WriteOf

\* The operation a session is going to resume is named to the BET it serves,
\* and no other session has it when only one party can resume it.
LEMMA OneResumes ==
  ASSUME PlansInv, NEW s \in Session, NEW t \in Session, NEW q,
         q \in ToResume(sess[s]), q \in ToResume(sess[t]), Sole(q)
  PROVE  s = t
<1>1. \A u \in Session : q \in ToResume(sess[u]) =>
        \/ sess[u].op = "work" /\ u \in Worker
        \/ /\ Named(q) \in Serves(sess[u])
           /\ \E b \in Request : Input[b].kind = "BET" /\ Own(b) = Named(q)
  <2> SUFFICES ASSUME NEW u \in Session, q \in ToResume(sess[u]), sess[u].op # "work"
               PROVE  /\ Named(q) \in Serves(sess[u])
                      /\ \E b \in Request : Input[b].kind = "BET" /\ Own(b) = Named(q)
    BY DEF PlansInv
  <2>1. sess[u].op = "cascade"
    BY DEF ToResume
  <2>2. PlanOK(sess[u])
    BY DEF PlansInv
  <2>3. sess[u].pc # "find"
    BY <2>2 DEF PlanOK
  <2>4. Named(q) \in Serves(sess[u])
    BY <2>1, <2>3 DEF Serves
  <2> QED BY <2>2, <2>4 DEF PlanOK
<1> QED BY <1>1 DEF PlansInv, Sole

\* A step that leaves rows and ledgers alone.
LEMMA FirmCalm ==
  ASSUME FirmContext, NEW s, NEW n,
         committed'.tx = committed.tx, committed'.ledger = committed.ledger,
         current'.tx = current.tx, current'.ledger = current.ledger,
         \A w \in Wallet : lock'[w] = lock[w] \/ lock[w] = None,
         \A t \in Session : sess'[t] = IF t = s THEN n ELSE sess[t],
         s \in Session =>
           /\ n.op = "submit" => n.pc # "commit"
           /\ GoesOn(s, n)
           /\ Clean(sess[s]) \/ (n.op = sess[s].op /\ Serves(n) = Serves(sess[s]))
  PROVE  FirmInv'
<1>1. RowsGrow(committed, committed')
  BY RowsGrowReflexive
<1>2. s \in Session => PlanOK(sess[s]) /\ (sess[s].op = "work" => s \in Worker)
  BY DEF FirmContext, FirmInv, PlansInv
<1>3. PlansInv'
  BY <1>1, <1>2, PlansKept DEF FirmContext, FirmInv, GoesOn, PlanOK
<1>4. \A r \in Request : /\ HasEntry(committed', r) => HasEntry(committed, r)
                         /\ HasEntry(current', r) => HasEntry(current, r)
  BY DEF HasEntry
<1>5. FirmRows'
  BY <1>4, RowsCalm DEF FirmContext, FirmInv, GoesOn
<1> QED BY <1>3, <1>5 DEF FirmInv

\* A session that gets its lock resumes what it was about to.
LEMMA FirmLock ==
  ASSUME FirmContext, NEW s \in Session, LockForUpdate(s)
  PROVE  FirmInv'
<1> DEFINE n == [sess[s] EXCEPT !.pc = "apply", !.wal = View(s).wallet[WalletOf(s)]]
<1>1. /\ sess[s].pc = "lock" /\ sess[s] \in SessionState
      /\ sess' = [sess EXCEPT ![s] = n]
      /\ UNCHANGED <<committed, current>>
      /\ sess \in [Session -> SessionState]
  BY DEF LockForUpdate, FirmContext, IInv
<1>2. /\ n.pc = "apply" /\ n.op = sess[s].op
      /\ n.item = sess[s].item /\ n.todo = sess[s].todo
  BY <1>1 DEF SessionState
<1>3. \A w \in Wallet : lock'[w] = lock[w] \/ lock[w] = None
  BY DEF LockForUpdate, LockFree, FirmContext, IInv
<1> HIDE DEF n
<1>4. \A t \in Session : sess'[t] = IF t = s THEN n ELSE sess[t]
  BY <1>1
<1>5. PlanOK(sess[s])
  BY DEF FirmContext, FirmInv, PlansInv
<1>6. ToResume(n) = ToResume(sess[s])
  BY <1>1, <1>2 DEF ToResume
<1>7. Serves(n) = Serves(sess[s])
  BY <1>1, <1>2, <1>6 DEF Serves
<1>8. Neat(n)
  BY <1>1, <1>2, <1>5 DEF PlanOK, Neat
<1>9. GoesOn(s, n)
  BY <1>2, <1>6, <1>7, <1>8 DEF GoesOn
<1> QED BY <1>1, <1>2, <1>3, <1>4, <1>7, <1>9, FirmCalm

\* A cascade takes up the next dependent of its plan.
LEMMA FirmCascadeNext ==
  ASSUME FirmContext, NEW s \in Session, CascadeNext(s)
  PROVE  FirmInv'
<1>1. PICK i \in sess[s].todo :
        sess' = [sess EXCEPT ![s] = [sess[s] EXCEPT !.pc = "lock", !.item = i,
                                                    !.todo = sess[s].todo \ {i}]]
  BY DEF CascadeNext, FirmContext, IInv
<1> DEFINE n == [sess[s] EXCEPT !.pc = "lock", !.item = i, !.todo = sess[s].todo \ {i}]
<1>2. /\ sess[s].pc = "next" /\ sess[s].op = "cascade" /\ sess[s] \in SessionState
      /\ sess \in [Session -> SessionState]
      /\ UNCHANGED <<committed, current, lock>>
  BY DEF CascadeNext, FirmContext, IInv
<1>3. n.pc = "lock" /\ n.op = "cascade" /\ n.item = i /\ n.todo = sess[s].todo \ {i}
  BY <1>2 DEF SessionState
<1>4. \A t \in Session : sess'[t] = IF t = s THEN n ELSE sess[t]
  BY <1>1, <1>2
<1> HIDE DEF n
<1>5. Neat(sess[s])
  BY DEF FirmContext, FirmInv, PlansInv, PlanOK
<1>6. ToResume(n) = ToResume(sess[s])
  BY <1>1, <1>2, <1>3 DEF ToResume
<1>7. Serves(n) = Serves(sess[s])
  BY <1>2, <1>3, <1>6 DEF Serves
<1>8. Neat(n)
  BY <1>1, <1>2, <1>3, <1>5 DEF Neat
<1>9. GoesOn(s, n)
  BY <1>3, <1>6, <1>7, <1>8 DEF GoesOn
<1> QED BY <1>2, <1>3, <1>4, <1>7, <1>9, FirmCalm

\* A worker takes up the next item of its batch, or drops a settled one.
LEMMA FirmWorkGet ==
  ASSUME FirmContext, NEW s \in Session, WorkGet(s)
  PROVE  FirmInv'
<1>1. PICK i \in sess[s].todo :
        LET rest == [sess[s] EXCEPT !.todo = @ \ {i}]
        IN IF IsTerminal(committed.tx[i.tx].state)
             THEN /\ committed' = DeleteWork(committed, i.tx)
                  /\ current' = DeleteWork(current, i.tx)
                  /\ sess' = [sess EXCEPT ![s] = IF rest.todo = {} THEN Idle ELSE rest]
             ELSE /\ sess' = [sess EXCEPT ![s] = [rest EXCEPT !.pc = "lock", !.item = i]]
                  /\ UNCHANGED <<committed, current>>
  BY DEF WorkGet
<1> DEFINE rest == [sess[s] EXCEPT !.todo = @ \ {i}]
           taken == [rest EXCEPT !.pc = "lock", !.item = i]
<1>2. /\ sess[s].pc = "next" /\ sess[s].op = "work" /\ sess[s] \in SessionState
      /\ sess \in [Session -> SessionState]
      /\ lock' = lock
      /\ committed \in Database /\ current \in Database
  BY DEF WorkGet, FirmContext, IInv, TablesOK
<1>3. /\ committed'.tx = committed.tx /\ committed'.ledger = committed.ledger
      /\ current'.tx = current.tx /\ current'.ledger = current.ledger
  <2>1. \A d \in Database : /\ DeleteWork(d, i.tx).tx = d.tx
                            /\ DeleteWork(d, i.tx).ledger = d.ledger
    BY DEF DeleteWork, Database
  <2> QED BY <1>1, <1>2, <2>1
<1>4. /\ rest.pc = "next" /\ rest.op = "work" /\ rest.todo = sess[s].todo \ {i}
      /\ taken.pc = "lock" /\ taken.op = "work" /\ taken.item = i
      /\ taken.todo = sess[s].todo \ {i}
  BY <1>2 DEF SessionState
<1>5. PICK n \in {Idle, rest, taken} : \A t \in Session : sess'[t] = IF t = s THEN n ELSE sess[t]
  <2>1. \E n \in {Idle, rest, taken} : sess' = [sess EXCEPT ![s] = n]
    BY <1>1
  <2> QED BY <1>2, <2>1
<1> HIDE DEF rest, taken
<1>6. Neat(sess[s])
  BY DEF FirmContext, FirmInv, PlansInv, PlanOK
<1>7. GoesOn(s, n) /\ n.op # "submit"
  <2>1. CASE n = Idle
    BY <2>1, StopGoesOn DEF FirmContext, FirmInv
  <2>2. CASE n = rest
    <3>1. Neat(n)
      BY <1>2, <1>4, <1>6, <2>2 DEF Neat
    <3>2. ToResume(n) \subseteq ToResume(sess[s]) /\ Serves(n) = {}
      BY <1>2, <1>4, <2>2 DEF ToResume, Serves
    <3> QED BY <1>2, <1>4, <2>2, <3>1, <3>2 DEF GoesOn
  <2>3. CASE n = taken
    <3>1. Neat(n)
      BY <1>1, <1>2, <1>4, <1>6, <2>3 DEF Neat
    <3>2. ToResume(n) \subseteq ToResume(sess[s]) /\ Serves(n) = {}
      BY <1>1, <1>2, <1>4, <2>3 DEF ToResume, Serves
    <3> QED BY <1>2, <1>4, <2>3, <3>1, <3>2 DEF GoesOn
  <2> QED BY <2>1, <2>2, <2>3
<1>8. Clean(sess[s])
  BY <1>2 DEF Clean
<1> QED BY <1>2, <1>3, <1>5, <1>7, <1>8, FirmCalm

\* The session takes its first operation up, or gives it up before it has
\* written anything.
LEMMA FirmSubmitLocal ==
  ASSUME FirmContext, NEW s \in Session,
         SubmitNoWallet(s) \/ \E r \in Request : SubmitBegin(s, r)
  PROVE  FirmInv'
<1>1. UNCHANGED <<committed, current, lock>>
  BY DEF SubmitNoWallet, SubmitBegin
<1>2. Clean(sess[s])
  BY DEF SubmitNoWallet, SubmitBegin, Clean
<1>3. PICK n : /\ sess' = [sess EXCEPT ![s] = n]
               /\ n.op \in {"none", "submit"} /\ n.pc \in {"idle", "lock"}
  BY DEF SubmitNoWallet, SubmitBegin, Idle
<1>4. GoesOn(s, n)
  BY <1>3 DEF GoesOn, Neat, ToResume, Serves
<1>5. \A t \in Session : sess'[t] = IF t = s THEN n ELSE sess[t]
  BY <1>3 DEF FirmContext, IInv
<1> QED BY <1>1, <1>2, <1>3, <1>4, <1>5, FirmCalm

\* A worker claims rows of operations that wait.
LEMMA FirmClaim ==
  ASSUME FirmContext, NEW s \in Worker, NEW rs \in SUBSET Request, ClaimWork(s, rs)
  PROVE  FirmInv'
<1> DEFINE todo == {[tx |-> r, ref |-> committed.work[r].ref,
                     infra |-> committed.work[r].infra] : r \in rs}
           n == [Idle EXCEPT !.pc = "next", !.op = "work", !.todo = todo]
<1>1. /\ sess[s].pc = "idle" /\ s \in Session
      /\ \A r \in rs : committed.work[r].present /\ current.work[r] = committed.work[r]
      /\ committed' = Leased(committed, rs, TRUE)
      /\ current' = Leased(current, rs, TRUE)
      /\ sess' = [sess EXCEPT ![s] = n]
      /\ lock' = lock
  BY DEF ClaimWork, Claimable, Session
<1>2. \A r \in rs : Waiting(committed, r) /\ Waiting(current, r) /\ Parkable(r)
  <2>1. \A r \in rs : Waiting(committed, r) /\ Waiting(current, r)
    BY <1>1 DEF FirmContext, RowsKeysInv, RInv, RowsInv, Parked, Waiting
  <2> QED BY <2>1 DEF FirmContext, FirmInv, FirmRows, NeverWaits
<1>3. /\ committed'.tx = committed.tx /\ committed'.ledger = committed.ledger
      /\ current'.tx = current.tx /\ current'.ledger = current.ledger
  <2>1. \A d \in Database : /\ Leased(d, rs, TRUE).tx = d.tx
                            /\ Leased(d, rs, TRUE).ledger = d.ledger
    BY DEF Leased, Database
  <2> QED BY <1>1, <2>1 DEF FirmContext, IInv, TablesOK
<1>4. /\ {i.tx : i \in todo} = rs
      /\ \A i, j \in todo : i.tx = j.tx => i = j
  <2>1. ASSUME NEW i \in todo
        PROVE  i.tx \in rs /\ i = [tx |-> i.tx, ref |-> committed.work[i.tx].ref,
                                   infra |-> committed.work[i.tx].infra]
    OBVIOUS
  <2>2. ASSUME NEW q \in rs PROVE \E i \in todo : i.tx = q
    <3>1. [tx |-> q, ref |-> committed.work[q].ref, infra |-> committed.work[q].infra] \in todo
      OBVIOUS
    <3> QED BY <3>1
  <2> HIDE DEF todo
  <2>3. \A i, j \in todo : i.tx = j.tx => i = j
    BY <2>1
  <2> QED BY <2>1, <2>2, <2>3
<1>5. n.pc = "next" /\ n.op = "work" /\ n.todo = todo
  BY DEF Idle
<1> HIDE DEF todo
<1> HIDE DEF n
<1>6. \A t \in Session : sess'[t] = IF t = s THEN n ELSE sess[t]
  BY <1>1 DEF FirmContext, IInv
<1>7. Neat(n) /\ ToResume(n) = rs /\ Serves(n) = {}
  BY <1>4, <1>5 DEF Neat, ToResume, Serves
<1>8. PlansInv'
  <2>1. RowsGrow(committed, committed')
    BY <1>3, RowsGrowReflexive
  <2> QED BY <1>2, <1>5, <1>6, <1>7, <2>1, PlansKept DEF FirmContext, FirmInv
<1>9. FirmRows'
  <2>1. \A r \in Request : /\ HasEntry(committed', r) => HasEntry(committed, r)
                           /\ HasEntry(current', r) => HasEntry(current, r)
    BY <1>3 DEF HasEntry
  <2>2. Clean(sess[s])
    BY <1>1 DEF Clean
  <2>3. \A q \in ToResume(n) : Sole(q) => Waiting(committed, q) /\ Waiting(current, q)
    BY <1>2, <1>7
  <2>4. n.op # "submit"
    BY <1>5
  <2>5. \A w \in Wallet : lock'[w] = lock[w] \/ lock[w] = None
    BY <1>1
  <2> QED BY <1>3, <1>6, <2>1, <2>2, <2>3, <2>4, <2>5, RowsCalm DEF FirmContext, FirmInv
<1> QED BY <1>8, <1>9 DEF FirmInv

\* What waits for the BET of a cascade, and can be resumed by nobody else, has
\* not been resumed.
LEMMA StillUntouched ==
  ASSUME FirmContext, NEW s \in Session, sess[s].pc = "find",
         NEW q \in Request, Waiting(committed, q), Sole(q), Named(q) \in Serves(sess[s])
  PROVE  Waiting(current, q)
<1> SUFFICES ASSUME ~Waiting(current, q) PROVE FALSE
  OBVIOUS
<1> DEFINE w == Input[q].wallet
<1>1. lock[w] \in Session /\ (sess[lock[w]].op = "work" \/ Named(q) \in Serves(sess[lock[w]]))
  BY DEF FirmContext, FirmInv, FirmRows, Resumed, ResumedBy
<1>2. \E b \in Request : Input[b].kind = "BET" /\ Own(b) = Named(q)
  BY DEF FirmContext, FirmInv, PlansInv, PlanOK
<1>3. Worker = {}
  BY <1>2 DEF Sole
<1>4. lock[w] = s
  BY <1>1, <1>3 DEF FirmContext, FirmInv, PlansInv
<1>5. Same(w)
  <2>1. w \in Wallet /\ Clean(sess[lock[w]])
    BY <1>4, InputFacts DEF Clean
  <2> QED BY <2>1 DEF FirmContext, CleanInv
<1> QED BY <1>5 DEF Same, Waiting

\* A cascade finds what waits for its BET.
LEMMA FirmCascadeFind ==
  ASSUME FirmContext, NEW s \in Session, CascadeFind(s)
  PROVE  FirmInv'
<1> DEFINE b == sess[s].item.tx
           deps == {q \in FindDependents(committed, b) :
                      committed.tx[q].state = "PENDING_REFERENCE"}
           todo == {ItemOf(q) : q \in deps}
           next == [Idle EXCEPT !.pc = "next", !.op = "cascade", !.todo = todo]
<1>1. /\ sess[s].pc = "find"
      /\ sess' = [sess EXCEPT ![s] = IF deps = {} THEN Idle ELSE next]
      /\ UNCHANGED <<committed, current, lock>>
  BY DEF CascadeFind
<1>2. /\ sess[s].op = "cascade" /\ ToResume(sess[s]) = {}
      /\ Serves(sess[s]) = {Own(b)}
  <2>1. sess[s].op = "cascade" /\ ToResume(sess[s]) = {}
    BY <1>1 DEF FirmContext, FirmInv, PlansInv, PlanOK
  <2> QED BY <1>1, <2>1 DEF Serves
<1>3. \A q \in deps : q \in Request /\ Waiting(committed, q) /\ Named(q) = Own(b)
  BY DEF FindDependents, Waiting, Named, Own
<1>4. \A q \in deps : Parkable(q) /\ (Sole(q) => Waiting(current, q))
  BY <1>1, <1>2, <1>3, StillUntouched DEF FirmContext, FirmInv, FirmRows, NeverWaits
<1>5. /\ {i.tx : i \in todo} = deps
      /\ \A i, j \in todo : i.tx = j.tx => i = j
  <2>1. \A q : ItemOf(q).tx = q
    BY DEF ItemOf
  <2> HIDE DEF deps
  <2>2. \A i \in todo : i.tx \in deps /\ i = ItemOf(i.tx)
    BY <2>1
  <2>3. \A q \in deps : ItemOf(q) \in todo
    OBVIOUS
  <2> HIDE DEF todo
  <2>4. \A i, j \in todo : i.tx = j.tx => i = j
    BY <2>2
  <2> QED BY <2>1, <2>2, <2>3, <2>4
<1>6. next.pc = "next" /\ next.op = "cascade" /\ next.todo = todo
  BY DEF Idle
<1> HIDE DEF todo, deps
<1> HIDE DEF next
<1>7. PICK n \in {Idle, next} : \A t \in Session : sess'[t] = IF t = s THEN n ELSE sess[t]
  BY <1>1 DEF FirmContext, IInv
<1>8. /\ Neat(n) /\ n.pc # "find" /\ n.op \in {"none", "cascade"}
      /\ ToResume(n) \subseteq deps
      /\ Serves(n) \subseteq Serves(sess[s])
  <2>1. CASE n = Idle
    BY <2>1 DEF Neat, ToResume, Serves, Idle
  <2>2. CASE n = next
    <3>1. ToResume(next) = deps
      BY <1>5, <1>6 DEF ToResume
    <3>2. Serves(next) = {Named(q) : q \in deps}
      BY <1>6, <3>1 DEF Serves
    <3>3. Neat(next)
      BY <1>5, <1>6 DEF Neat
    <3> QED BY <1>2, <1>3, <1>6, <2>2, <3>1, <3>2, <3>3
  <2> QED BY <2>1, <2>2
<1>9. PlansInv'
  <2>1. RowsGrow(committed, committed')
    BY <1>1, RowsGrowReflexive
  <2> QED BY <1>4, <1>7, <1>8, <2>1, PlansKept DEF FirmContext, FirmInv
<1>10. FirmRows'
  <2>1. \A r \in Request : /\ HasEntry(committed', r) => HasEntry(committed, r)
                           /\ HasEntry(current', r) => HasEntry(current, r)
    BY <1>1
  <2>2. Clean(sess[s])
    BY <1>1 DEF Clean
  <2>3. \A q \in ToResume(n) : Sole(q) => Waiting(committed, q) /\ Waiting(current, q)
    BY <1>3, <1>4, <1>8
  <2>4. n.op = "submit" => n.pc # "commit"
    BY <1>8
  <2> QED BY <1>1, <1>7, <2>1, <2>2, <2>3, <2>4, RowsCalm DEF FirmContext, FirmInv
<1> QED BY <1>9, <1>10 DEF FirmInv

\* A step of no session that leaves the rows of requests alone.
LEMMA FirmElsewhere ==
  ASSUME FirmContext, committed'.tx = committed.tx, current'.tx = current.tx,
         \A r \in Request : /\ HasEntry(committed', r) => HasEntry(committed, r)
                            /\ HasEntry(current', r) => HasEntry(current, r),
         UNCHANGED <<lock, sess>>
  PROVE  FirmInv'
<1>1. None \notin Session
  BY ConstantsAssumption DEF Session
<1>2. \A t \in Session : sess'[t] = IF t = None THEN Idle ELSE sess[t]
  BY <1>1
<1>3. RowsGrow(committed, committed')
  BY RowsGrowReflexive
<1>4. PlansInv'
  BY <1>1, <1>2, <1>3, PlansKept DEF FirmContext, FirmInv
<1>5. FirmRows'
  BY <1>1, <1>2, RowsCalm DEF FirmContext, FirmInv
<1> QED BY <1>4, <1>5 DEF FirmInv

\* Opening a wallet touches no operation.
LEMMA FirmOpen ==
  ASSUME FirmContext, NEW w \in Wallet, OpenWallet(w)
  PROVE  FirmInv'
<1>1. \A d \in Database : /\ Opened(d, w).tx = d.tx
                          /\ Opened(d, w).ledger = d.ledger \cup OpeningEntry(w)
  BY DEF Opened, Database
<1>2. /\ committed'.tx = committed.tx /\ current'.tx = current.tx
      /\ committed'.ledger = committed.ledger \cup OpeningEntry(w)
      /\ current'.ledger = current.ledger \cup OpeningEntry(w)
      /\ UNCHANGED <<lock, sess>>
  BY <1>1 DEF OpenWallet, FirmContext, IInv, TablesOK
<1>3. \A e \in OpeningEntry(w) : e.tx \notin Request
  BY ConstantsAssumption DEF OpeningEntry
<1> QED BY <1>2, <1>3, FirmElsewhere DEF HasEntry

\* A lease that runs out changes work rows only.
LEMMA FirmLease ==
  ASSUME FirmContext, NEW r \in Request, LeaseExpires(r)
  PROVE  FirmInv'
<1>1. \A d \in Database : /\ Leased(d, {r}, FALSE).tx = d.tx
                          /\ Leased(d, {r}, FALSE).ledger = d.ledger
  BY DEF Leased, Database
<1> QED BY <1>1, FirmElsewhere DEF LeaseExpires, HasEntry, FirmContext, IInv, TablesOK

\* A session that rolls back takes up nothing new.
LEMMA FirmAbort ==
  ASSUME FirmContext, NEW s \in Session, NEW n \in {Idle, AfterTx(s)}, Rollback(s, n)
  PROVE  FirmInv'
<1>1. /\ committed' = committed /\ current' = Merge(current, committed, Held(s))
      /\ lock' = Release(s)
      /\ \A t \in Session : sess'[t] = IF t = s THEN n ELSE sess[t]
  BY DEF Rollback, FirmContext, IInv
<1>2. GoesOn(s, n) /\ n.op # "submit"
  BY StopGoesOn DEF FirmContext, FirmInv
<1>3. PlansInv'
  BY <1>1, <1>2, RowsGrowReflexive, PlansGoOn DEF FirmContext, FirmInv
<1>4. \A q \in Request :
        /\ current'.tx[q] = IF Input[q].wallet \in Held(s) THEN committed.tx[q]
                            ELSE current.tx[q]
        /\ HasEntry(current', q) <=> IF Input[q].wallet \in Held(s) THEN HasEntry(committed, q)
                                     ELSE HasEntry(current, q)
  BY <1>1, MergeRow DEF FirmContext
<1>5. FirmRows'
  BY <1>1, <1>2, <1>4, RowsSettled DEF FirmContext, FirmInv, GoesOn
<1> QED BY <1>3, <1>5 DEF FirmInv

\* An operation that cannot be parked is decided at once.
LEMMA DecidedAtOnce ==
  ASSUME NEW d, NEW row, NEW r \in Request, ~Parkable(r)
  PROVE  applyOperation(d, row, r).outcome \in {"PROCESSED", "REJECTED", "ERROR"}
<1>1. \A c, t, dir : /\ Reject(c, t).outcome = "REJECTED"
                     /\ Process(dir, t).outcome = "PROCESSED"
                     /\ Error.outcome = "ERROR"
  BY DEF Reject, Process, Error, Verdict
<1>2. /\ Input[r].kind \in {"BET", "WIN", "LOSS"}
      /\ Input[r].kind = "WIN" => Input[r].ref = None
  BY ConstantsAssumption DEF Parkable, IsReversalKind, InputType, ExternalKind
<1>3. CASE Input[r].kind = "BET"
  BY <1>1, <1>3 DEF applyOperation, DebitVerdict
<1>4. CASE Input[r].kind = "LOSS"
  BY <1>1, <1>4 DEF applyOperation
<1>5. CASE Input[r].kind = "WIN"
  BY <1>1, <1>2, <1>5 DEF applyOperation, CreditVerdict
<1> QED BY <1>2, <1>3, <1>4, <1>5

\* A first submission inserts its operation.
LEMMA FirmSubmitApply ==
  ASSUME FirmContext, NEW s \in Session, SubmitApply(s)
  PROVE  FirmInv'
<1> DEFINE r == sess[s].item.tx
           row == sess[s].wal
           d == View(s)
           v == applyOperation(d, row, r)
           x == Accept(d, row, r, v)
           n == Goto(s, "commit")
<1>0. IInv /\ RInv /\ PlansInv /\ FirmRows
  BY DEF FirmContext, RowsKeysInv, FirmInv
<1>1. /\ sess[s].pc = "apply" /\ sess[s].op = "submit"
      /\ v.outcome # "ERROR"
      /\ Write(s, x)
      /\ sess' = [sess EXCEPT ![s] = n]
      /\ UNCHANGED <<committed, lock>>
  BY DEF SubmitApply, Fresh, Submitting
<1>2. /\ r \in Request /\ row \in WalletRow /\ row.version > 0
      /\ row = d.wallet[Input[r].wallet] /\ d \in Database /\ DbInv(d)
  BY <1>0, <1>1, ApplyFacts DEF WalletOf
<1>3. /\ ~Present(d, r) /\ RowsInv(d)
      /\ Present(committed, r) => Present(d, r)
  BY <1>0, <1>2, SubmitView, ViewRows
<1>4. lock[Input[r].wallet] = s /\ Input[r].wallet \in Held(s)
  BY <1>0, <1>1, <1>2, InputFacts DEF IInv, LockOK, Reserved, WalletOf, Held
<1>5. /\ n.pc = "commit" /\ n.op = "submit" /\ n.item = sess[s].item
  BY <1>0, <1>1 DEF Goto, IInv, SessionState
<1>6. \A t \in Session : sess'[t] = IF t = s THEN n ELSE sess[t]
  BY <1>0, <1>1 DEF IInv
<1>7. HasEntry(current, r) => HasEntry(d, r)
  BY <1>0, <1>2, <1>4, MergeRow DEF View
<1>8. n.item.tx = r
  BY <1>5
<1> HIDE DEF d, r, row, n
<1>9. \A e \in d.ledger : e.tx # r
  BY <1>2, <1>3 DEF DbInv, Owned
<1>10. Sound(v, row, r) /\ Moves(v, r)
  BY <1>2, SoundVerdicts, VerdictsMove
<1>11. Parkable(r) \/ v.outcome \in {"PROCESSED", "REJECTED"}
  BY <1>1, <1>2, DecidedAtOnce
<1> HIDE DEF v
<1>12. x \in Database /\ DbInv(x)
  BY <1>2, <1>9, <1>10, AcceptType, AcceptInv
<1>13. /\ TouchesOnly(d, x, r)
       /\ Waiting(x, r) => v.outcome \notin {"PROCESSED", "REJECTED"}
  BY <1>2, <1>10, AcceptTouches
<1>14. Present(x, r)
  BY <1>2, <1>3, <1>10, AcceptRowsInv DEF OnlyNew
<1> HIDE DEF x
<1>15. ToResume(n) = {} /\ Serves(n) = {} /\ Serves(sess[s]) = {} /\ Neat(n)
  BY <1>1, <1>5 DEF ToResume, Serves, Neat
<1>16. PlansInv'
  <2>1. GoesOn(s, n)
    BY <1>5, <1>15 DEF GoesOn
  <2>2. RowsGrow(committed, committed')
    BY <1>1, RowsGrowReflexive
  <2> QED BY <1>0, <1>6, <2>1, <2>2, PlansGoOn
<1>17. FirmRows'
  <2>1. ~IsTerminal(committed.tx[r].state) /\ ~Waiting(committed, r)
    BY <1>3 DEF Present, IsTerminal, Waiting
  <2>2. ~HasEntry(current, r)
    BY <1>7, <1>9 DEF HasEntry
  <2>3. Sole(r) => \A t \in Session : r \notin ToResume(sess'[t])
    <3>1. \A t \in Session : Sole(r) => r \notin ToResume(sess[t])
      BY <1>0, <2>1 DEF FirmRows, StillWaits
    <3> QED BY <1>6, <1>15, <3>1
  <2>4. Owned(x) /\ Write(s, x) /\ TouchesOnly(View(s), x, r)
    BY <1>1, <1>12, <1>13 DEF DbInv, d, x
  <2>5. Parkable(r) \/ ~Waiting(x, r)
    BY <1>11, <1>13
  <2>6. n.op = sess[s].op /\ ToResume(n) \subseteq ToResume(sess[s]) /\ Serves(n) = Serves(sess[s])
    BY <1>1, <1>5, <1>15
  <2>7. n.item.tx = r /\ Present(x, r) /\ ~Present(committed, r)
    BY <1>3, <1>8, <1>14
  <2> QED BY <1>0, <1>1, <1>2, <1>4, <1>6, <1>12, <2>1, <2>2, <2>3, <2>4, <2>5, <2>6, <2>7,
             RowsWritten
<1> QED BY <1>16, <1>17 DEF FirmInv

\* A session writes what becomes of the operation that it resumes.
LEMMA FirmResumeWrite ==
  ASSUME FirmContext, NEW s \in Session, Resuming(s), NEW x \in Database,
         Write(s, x), Owned(x), TouchesOnly(View(s), x, sess[s].item.tx),
         sess' = [sess EXCEPT ![s] = AfterResume(s)],
         UNCHANGED <<committed, lock>>
  PROVE  FirmInv'
<1> DEFINE r == sess[s].item.tx
           n == AfterResume(s)
<1>0. IInv /\ PlansInv /\ FirmRows
  BY DEF FirmContext, FirmInv
<1>1. sess[s].pc = "apply" /\ sess[s].op \in {"cascade", "work"}
  BY DEF Resuming
<1>2. /\ r \in Request /\ Input[r].wallet \in Wallet
      /\ lock[Input[r].wallet] = s
  BY <1>0, <1>1, ApplyFacts, InputFacts DEF IInv, LockOK, Reserved, WalletOf
<1>3. /\ GoesOn(s, n)
      /\ Serves(n) = Serves(sess[s])
      /\ n.op = sess[s].op
      /\ r \in ToResume(sess[s]) /\ r \notin ToResume(n)
      /\ n.op = "cascade" => Named(r) \in Serves(n)
  BY <1>0, ResumeGoesOn
<1>4. \A t \in Session : sess'[t] = IF t = s THEN n ELSE sess[t]
  BY <1>0 DEF IInv
<1>5. TouchesOnly(View(s), x, r)
  OBVIOUS
<1> HIDE DEF n, r
<1>6. Parkable(r)
  BY <1>0, <1>3 DEF PlansInv, PlanOK
<1>7. PlansInv'
  <2>1. RowsGrow(committed, committed')
    BY RowsGrowReflexive
  <2> QED BY <1>0, <1>3, <1>4, <2>1, PlansGoOn
<1>8. FirmRows'
  <2>1. Firm(r) => ~IsTerminal(committed.tx[r].state) /\ ~HasEntry(current, r)
    <3> SUFFICES ASSUME Firm(r)
                 PROVE  ~IsTerminal(committed.tx[r].state) /\ ~HasEntry(current, r)
      OBVIOUS
    <3>1. Waiting(committed, r) /\ Waiting(current, r)
      BY <1>0, <1>3, <1>6 DEF Firm, FirmRows, StillWaits
    <3>2. HasEntry(current, r) => current.tx[r].state = "PROCESSED"
      BY <1>0, <1>2 DEF FirmRows, MovesStand
    <3> QED BY <3>1, <3>2 DEF Waiting, IsTerminal
  <2>2. Sole(r) => \A t \in Session : r \notin ToResume(sess'[t])
    BY <1>0, <1>3, <1>4, OneResumes
  <2>3. Waiting(committed, r) => n.op = "work" \/ Named(r) \in Serves(n)
    BY <1>1, <1>3
  <2>4. n.op # "submit" /\ ToResume(n) \subseteq ToResume(sess[s])
    BY <1>1, <1>3 DEF GoesOn
  <2> QED BY <1>0, <1>2, <1>3, <1>4, <1>5, <1>6, <2>1, <2>2, <2>3, <2>4, RowsWritten
<1> QED BY <1>7, <1>8 DEF FirmInv

\* A resume writes over nothing settled: its session is the only one to resume
\* the operation, which still waits.
LEMMA FirmResumeSettle ==
  ASSUME FirmContext, NEW s \in Session, NEW expired \in BOOLEAN, ResumeSettle(s, expired)
  PROVE  FirmInv'
<1> DEFINE r == sess[s].item.tx
           row == sess[s].wal
           d == View(s)
           v == resumeOne(d, row, r, expired)
           x == Settle(d, row, r, v)
<1>1. /\ Resuming(s) /\ sess[s].pc = "apply"
      /\ ~LedgerClash(d, r, v)
      /\ Write(s, x)
      /\ sess' = [sess EXCEPT ![s] = AfterResume(s)]
      /\ UNCHANGED <<committed, lock>>
  BY DEF ResumeSettle, Resuming
<1>2. /\ r \in Request /\ row \in WalletRow /\ row.version > 0
      /\ row = d.wallet[Input[r].wallet] /\ d \in Database /\ DbInv(d)
  BY <1>1, ApplyFacts DEF WalletOf, FirmContext
<1> HIDE DEF d, r, row
<1>3. Sound(v, row, r) /\ Moves(v, r)
  BY <1>2, SoundVerdicts, VerdictsMove
<1> HIDE DEF v
<1>4. x \in Database /\ DbInv(x) /\ TouchesOnly(d, x, r)
  BY <1>1, <1>2, <1>3, SettleType, SettleInv, SettleTouches
<1> HIDE DEF x
<1> QED BY <1>1, <1>4, FirmResumeWrite DEF d, r, DbInv

\* A resume that errs: a worker notes it, a cascade passes over.
LEMMA FirmResumeError ==
  ASSUME FirmContext, NEW s \in Session, NEW expired \in BOOLEAN, ResumeError(s, expired)
  PROVE  FirmInv'
<1> DEFINE i == sess[s].item
           d == View(s)
           x == noteInfra(d, i)
           n == AfterResume(s)
<1>1. /\ Resuming(s) /\ sess[s].pc = "apply" /\ sess[s].op \in {"cascade", "work"}
      /\ Write(s, x) \/ current' = current
      /\ sess' = [sess EXCEPT ![s] = n]
      /\ UNCHANGED <<committed, lock>>
  BY DEF ResumeError, Resuming
<1>2. i \in Item /\ i.tx \in Request /\ d \in Database /\ DbInv(d)
  BY <1>1, ApplyFacts DEF FirmContext
<1>3. CASE Write(s, x)
  <2> HIDE DEF d, i
  <2>1. x \in Database /\ DbInv(x) /\ TouchesOnly(d, x, i.tx)
    BY <1>2, noteInfraType, noteInfraInv, noteInfraTouches
  <2> HIDE DEF x
  <2> QED BY <1>1, <1>3, <2>1, FirmResumeWrite DEF d, i, n, DbInv
<1>4. CASE current' = current
  <2>1. GoesOn(s, n) /\ n.op = sess[s].op /\ Serves(n) = Serves(sess[s])
    BY <1>1, ResumeGoesOn DEF FirmContext, FirmInv
  <2>2. \A t \in Session : sess'[t] = IF t = s THEN n ELSE sess[t]
    BY <1>1 DEF FirmContext, IInv
  <2> HIDE DEF n
  <2> QED BY <1>1, <1>4, <2>1, <2>2, FirmCalm
<1> QED BY <1>1, <1>3, <1>4

\* The cascade that follows a commit is the first that has the dependents of
\* its BET.
LEMMA PlansCommit ==
  ASSUME FirmContext, NEW s \in Session, Commit(s), RowsGrow(committed, committed')
  PROVE  PlansInv'
<1> DEFINE b == sess[s].item.tx
           n == AfterCommit(s)
<1>0. IInv /\ PlansInv /\ FirmRows
  BY DEF FirmContext, FirmInv
<1>1. /\ sess[s].pc = "commit"
      /\ ~UniqueViolation(s)
      /\ committed' = Merge(committed, current, Held(s))
      /\ \A t \in Session : sess'[t] = IF t = s THEN n ELSE sess[t]
  BY <1>0 DEF Commit, IInv
<1>2. b \in Request
  BY <1>0, <1>1 DEF IInv, SessionOK
<1>3. CASE n = AfterTx(s)
  <2>1. GoesOn(s, n)
    BY <1>0, <1>3, StopGoesOn
  <2> HIDE DEF n
  <2> QED BY <1>0, <1>1, <2>1, PlansGoOn
<1>4. CASE n # AfterTx(s)
  <2>1. /\ sess[s].op = "submit" /\ Input[b].kind = "BET"
        /\ n = [Idle EXCEPT !.pc = "find", !.op = "cascade", !.item = sess[s].item]
    BY <1>4 DEF AfterCommit
  <2>2. n.pc = "find" /\ n.op = "cascade" /\ n.item.tx = b /\ n.todo = {}
    BY <2>1 DEF Idle
  <2> HIDE DEF n
  <2>3. /\ lock[Input[b].wallet] = s /\ Present(current, b) /\ ~Present(committed, b)
    BY <1>0, <1>1, <2>1 DEF FirmRows, Inserting
  <2>4. b \in Inserted(s)
    BY <1>2, <2>3, InputFacts DEF Inserted, Held
  <2>5. Priors(committed, b) = {}
    BY <1>1, <2>4 DEF UniqueViolation
  <2>6. Present(committed', b)
    BY <1>1, <1>2, <2>3, <2>4 DEF Merge, Inserted, Present
  <2>7. ToResume(n) = {} /\ Serves(n) = {Own(b)} /\ Neat(n)
    BY <2>2 DEF ToResume, Serves, Neat
  <2>8. \A t \in Session : Own(b) \notin Serves(sess[t])
    <3> SUFFICES ASSUME NEW t \in Session, Own(b) \in Serves(sess[t]) PROVE FALSE
      OBVIOUS
    <3>1. PICK c \in Request : Present(committed, c) /\ Own(c) = Own(b)
      BY <1>0 DEF PlansInv, PlanOK
    <3>2. Input[c].provider = Input[b].provider /\ Input[c].ext = Input[b].ext
      BY <3>1 DEF Own
    <3>3. c \in Priors(committed, b)
      BY <3>1, <3>2 DEF Priors, FindByProviderExternal
    <3> QED BY <2>5, <3>3
  <2>9. ASSUME NEW t \in Session
        PROVE  PlanOK(sess[t])' /\ (sess'[t].op = "work" => t \in Worker)
    <3>1. CASE t = s
      <4>1. sess'[t] = n
        BY <1>1, <3>1
      <4>2. \A g \in Serves(sess'[t]) :
              \E c \in Request : Input[c].kind = "BET" /\ Present(committed', c) /\ Own(c) = g
        BY <1>2, <2>1, <2>6, <2>7, <4>1
      <4> HIDE DEF b
      <4>3. Neat(sess'[t]) /\ ToResume(sess'[t]) = {} /\ Serves(sess'[t]) = {Own(b)}
        BY <2>7, <4>1
      <4> QED BY <2>2, <4>1, <4>2, <4>3 DEF PlanOK
    <3>2. CASE t # s
      <4>1. sess'[t] = sess[t]
        BY <1>1, <3>2
      <4>2. PlanOK(sess[t]) /\ (sess[t].op = "work" => t \in Worker)
        BY <1>0 DEF PlansInv
      <4>3. \A c \in Request : Present(committed, c) => Present(committed', c)
        BY DEF RowsGrow
      <4>4. \A g \in Serves(sess'[t]) :
              \E c \in Request : Input[c].kind = "BET" /\ Present(committed', c) /\ Own(c) = g
        BY <4>1, <4>2, <4>3 DEF PlanOK
      <4> QED BY <4>1, <4>2, <4>4 DEF PlanOK
    <3> QED BY <3>1, <3>2
  <2>10. \A t, u \in Session : t # u => Serves(sess'[t]) \cap Serves(sess'[u]) = {}
    <3>1. \A t, u \in Session : t # u => Serves(sess[t]) \cap Serves(sess[u]) = {}
      BY <1>0 DEF PlansInv
    <3>2. \A t \in Session : Serves(sess'[t]) = IF t = s THEN {Own(b)} ELSE Serves(sess[t])
      BY <1>1, <2>7
    <3> QED BY <2>8, <3>1, <3>2
  <2> QED BY <2>9, <2>10 DEF PlansInv
<1> QED BY <1>3, <1>4

\* A commit publishes the outcome, and a BET goes on with its cascade.
LEMMA FirmCommit ==
  ASSUME FirmContext, NEW s \in Session, Commit(s)
  PROVE  FirmInv'
<1> DEFINE n == AfterCommit(s)
<1>0. IInv /\ RowsAhead /\ PlansInv /\ FirmRows
  BY DEF FirmContext, FirmInv, RowsKeysInv, RInv
<1>1. /\ committed' = Merge(committed, current, Held(s)) /\ current' = current
      /\ lock' = Release(s)
      /\ \A t \in Session : sess'[t] = IF t = s THEN n ELSE sess[t]
  BY <1>0 DEF Commit, IInv
<1>2. n.op # "submit" /\ ToResume(n) \subseteq ToResume(sess[s])
  <2>1. CASE n = AfterTx(s)
    BY <1>0, <2>1, StopGoesOn DEF GoesOn
  <2>2. CASE n # AfterTx(s)
    <3>1. n = [Idle EXCEPT !.pc = "find", !.op = "cascade", !.item = sess[s].item]
      BY <2>2 DEF AfterCommit
    <3>2. n.pc = "find" /\ n.op = "cascade" /\ n.todo = {}
      BY <3>1 DEF Idle
    <3> QED BY <3>2 DEF ToResume
  <2> QED BY <2>1, <2>2
<1> HIDE DEF n
<1>3. PlansInv'
  <2>1. Shape
    BY SessionShape, <1>0 DEF SessionStep
  <2>2. RowsGrow(committed, committed')
    BY <1>0, <2>1, CommittedGrows
  <2> QED BY <2>2, PlansCommit
<1>4. \A q \in Request :
        /\ committed'.tx[q] = IF Input[q].wallet \in Held(s) THEN current.tx[q]
                              ELSE committed.tx[q]
        /\ HasEntry(committed', q) <=> IF Input[q].wallet \in Held(s) THEN HasEntry(current, q)
                                       ELSE HasEntry(committed, q)
  BY <1>0, <1>1, MergeRow
<1>5. FirmRows'
  BY <1>0, <1>1, <1>2, <1>4, RowsSettled
<1> QED BY <1>3, <1>5 DEF FirmInv

\* Every step of a session.
LEMMA SessionStepFirm ==
  ASSUME FirmContext, NEW s \in Session, SessionStep(s)
  PROVE  FirmInv'
<1>1. CASE LockForUpdate(s)
  BY <1>1, FirmLock
<1>2. CASE SubmitNoWallet(s)
  BY <1>2, FirmSubmitLocal
<1>3. CASE SubmitMismatch(s) \/ SubmitReplay(s) \/ SubmitError(s) \/ CommitRefused(s)
             \/ DeadlockVictim(s) \/ \E expired \in BOOLEAN : ResumeClash(s, expired)
  <2>1. \E n \in {Idle, AfterTx(s)} : Rollback(s, n)
    BY <1>3 DEF SubmitMismatch, SubmitReplay, SubmitError, CommitRefused, DeadlockVictim,
                ResumeClash
  <2> QED BY <2>1, FirmAbort
<1>4. CASE SubmitApply(s)
  BY <1>4, FirmSubmitApply
<1>5. CASE Commit(s)
  BY <1>5, FirmCommit
<1>6. CASE CascadeFind(s)
  BY <1>6, FirmCascadeFind
<1>7. CASE CascadeNext(s)
  BY <1>7, FirmCascadeNext
<1>8. CASE WorkGet(s)
  BY <1>8, FirmWorkGet
<1>9. ASSUME NEW expired \in BOOLEAN, ResumeSettle(s, expired) \/ ResumeError(s, expired)
      PROVE  FirmInv'
  BY <1>9, FirmResumeSettle, FirmResumeError
<1> QED BY <1>1, <1>2, <1>3, <1>4, <1>5, <1>6, <1>7, <1>8, <1>9 DEF SessionStep

\* Every step.
LEMMA NextFirm == FirmContext /\ [Next]_vars => FirmContext'
<1> SUFFICES ASSUME FirmContext, [Next]_vars PROVE FirmContext'
  OBVIOUS
<1> USE DEF Session
<1>1. ASSUME UNCHANGED vars PROVE FirmInv'
  BY <1>1, FirmElsewhere DEF vars
<1>2. ASSUME NEW w \in Wallet, OpenWallet(w) PROVE FirmInv'
  BY <1>2, FirmOpen
<1>3. ASSUME NEW s \in Handler, NEW r \in Request, SubmitBegin(s, r) PROVE FirmInv'
  BY <1>3, FirmSubmitLocal
<1>4. ASSUME NEW s \in Session, SessionStep(s) PROVE FirmInv'
  BY <1>4, SessionStepFirm
<1>5. ASSUME NEW s \in Worker, NEW rs \in SUBSET Request, ClaimWork(s, rs) PROVE FirmInv'
  BY <1>5, FirmClaim
<1>6. ASSUME NEW s \in Session, TxFails(s) \/ Crash(s) PROVE FirmInv'
  <2>1. \E n \in {Idle, AfterTx(s)} : Rollback(s, n)
    BY <1>6 DEF TxFails, Crash
  <2> QED BY <2>1, FirmAbort
<1>7. ASSUME NEW r \in Request, LeaseExpires(r) PROVE FirmInv'
  BY <1>7, FirmLease
<1>8. FirmInv'
  BY <1>1, <1>2, <1>3, <1>4, <1>5, <1>6, <1>7 DEF Next
<1>9. IInv' /\ RowsKeysInv' /\ CleanInv'
  BY NextPreserves, NextRows, NextShape, NextClean DEF FirmContext
<1> QED BY <1>8, <1>9 DEF FirmContext

\* Nothing is settled and nobody has a plan.
LEMMA InitFirm == Init => FirmContext
<1> SUFFICES ASSUME Init PROVE FirmContext
  OBVIOUS
<1>1. IInv /\ RowsKeysInv
  BY InitOK, InitRows
<1>2. /\ committed = EmptyDatabase /\ current = EmptyDatabase
      /\ \A s \in Session : sess[s] = Idle
  BY DEF Init
<1>3. CleanInv
  BY <1>2 DEF CleanInv, Same
<1>4. PlansInv
  BY <1>2 DEF PlansInv, PlanOK, Neat, ToResume, Serves, Idle
<1>5. \A r \in Request : /\ committed.tx[r].state = "ABSENT" /\ current.tx[r].state = "ABSENT"
                         /\ ~HasEntry(committed, r) /\ ~HasEntry(current, r)
  BY <1>2 DEF EmptyDatabase, NoTx, HasEntry
<1>6. FirmRows
  <2>1. \A s \in Session : Inserting(s) /\ StillWaits(s)
    BY <1>2 DEF Inserting, StillWaits, ToResume, Idle
  <2> QED BY <1>5, <2>1 DEF FirmRows, NeverWaits, Unaltered, MovesStand, Resumed, Waiting,
                            IsTerminal
<1> QED BY <1>1, <1>3, <1>4, <1>6 DEF FirmContext, FirmInv

\* For every value of the constants: no two cascades have the same dependents,
\* what only one party can resume waits until that party resumes it, and no
\* version changes the outcome of a firm operation.
THEOREM FirmInvariance == Spec => []FirmContext
<1> QED BY InitFirm, NextFirm, PTL DEF Spec

\* A step publishes no other outcome of a firm operation than the one it has.
LEMMA OutcomeStays ==
  ASSUME FirmContext, [Next]_vars, NEW r \in Request, Firm(r),
         IsTerminal(committed.tx[r].state)
  PROVE  Columns(committed', r) = Columns(committed, r)
<1>1. Shape
  BY NextShape DEF FirmContext
<1>2. Columns(current, r) = Columns(committed, r)
  BY DEF FirmContext, FirmInv, FirmRows, Unaltered
<1>3. committed'.tx[r] \in {committed.tx[r], current.tx[r]}
  <2>1. CASE committed'.tx = committed.tx
    BY <2>1
  <2>2. ASSUME NEW s \in Session, CommitOf(s)
        PROVE  committed'.tx[r] \in {committed.tx[r], current.tx[r]}
    <3>1. committed' = Merge(committed, current, Held(s))
      BY <2>2 DEF CommitOf
    <3> QED BY <3>1 DEF Merge
  <2> QED BY <1>1, <2>1, <2>2 DEF Shape, CalmStep, LockForUpdate, RollbackOf, WriteOf
<1> QED BY <1>2, <1>3 DEF Columns

\* The outcome of an operation that at most one party can resume is final: its
\* state, its failure code and the balance it answers are never written again,
\* neither by a worker whose lease ran out nor by the cascade (resumeOne does
\* not read the row again), whatever crashes and retries there are.
THEOREM OutcomesAreFinal ==
  Spec => [][\A r \in Request : Firm(r) /\ IsTerminal(committed.tx[r].state) =>
               Columns(committed', r) = Columns(committed, r)]_committed
<1>1. FirmContext /\ [Next]_vars =>
        [\A r \in Request : Firm(r) /\ IsTerminal(committed.tx[r].state) =>
           Columns(committed', r) = Columns(committed, r)]_committed
  BY OutcomeStays
<1> QED BY <1>1, FirmInvariance, PTL DEF Spec

\* With one worker and no cascade that could come before it, or with cascades
\* only, a transaction in a terminal state never changes state again.
THEOREM TerminalStates ==
  ASSUME \A r \in Request : Firm(r)
  PROVE  Spec => TerminalIsFinal
<1>1. FirmContext /\ [Next]_vars =>
        [\A r \in Request : IsTerminal(committed.tx[r].state) =>
           committed'.tx[r].state = committed.tx[r].state]_committed
  <2> SUFFICES ASSUME FirmContext, [Next]_vars, NEW r \in Request,
                      IsTerminal(committed.tx[r].state)
               PROVE  committed'.tx[r].state = committed.tx[r].state
    OBVIOUS
  <2>1. Columns(committed', r) = Columns(committed, r)
    BY OutcomeStays
  <2> QED BY <2>1 DEF Columns
<1> QED BY <1>1, FirmInvariance, PTL DEF Spec, TerminalIsFinal

\* Whatever resumes an operation and however often: what was accepted stays, and
\* what was settled stays settled (only which outcome it has may change).
THEOREM SettledStaysSettled ==
  Spec => [][\A r \in Request :
               /\ Present(committed, r) => Present(committed', r)
               /\ IsTerminal(committed.tx[r].state) =>
                    IsTerminal(committed'.tx[r].state)]_committed
<1>1. IInv /\ RowsKeysInv /\ [Next]_vars =>
        [\A r \in Request :
           /\ Present(committed, r) => Present(committed', r)
           /\ IsTerminal(committed.tx[r].state) => IsTerminal(committed'.tx[r].state)]_committed
  BY NextShape, CommittedGrows DEF RowsKeysInv, RInv, RowsGrow
<1> QED BY <1>1, RowsInvariance, PTL DEF Spec

-----------------------------------------------------------------------------
(* Fourth part: the answers agree.                                         *)

\* The columns that an answer or a result of outcome status tells.
Said(status, x) == [state |-> status, code |-> x.code,
                    balance |-> x.seen.balance, version |-> x.seen.version]

\* An operation with other content has the key or the external id of r.
Contested(d, r) ==
  \E p \in Request : /\ Present(d, p)
                     /\ Input[p].provider = Input[r].provider
                     /\ Input[p].key = Input[r].key \/ Input[p].ext = Input[r].ext
                     /\ PayloadHash(p) # PayloadHash(r)

\* What a final answer a to request r tells of the tables: a conflict, or the
\* outcome of a firm operation.
Settled(d, r, a) ==
  /\ a.http = 409 \/ a.status = "CONFLICT" => a = Conflict /\ Contested(d, r)
  /\ a.status \in {"PROCESSED", "REJECTED"} /\ Firm(a.tx) =>
       Columns(d, a.tx) = Said(a.status, a)

FinalTold == \A r \in Request : \A a \in told[r] : Settled(committed, r, a)

\* So does the result that a handler holds.
FinalResult(s) ==
  LET res == result[s].submit
  IN result[s] # Pending /\ res.outcome \in {"PROCESSED", "REJECTED"} /\ Firm(res.tx) =>
       /\ sess[s].op = "submit" => Columns(current, res.tx) = Said(res.outcome, res)
       /\ sess[s].op = "cascade" => Columns(committed, res.tx) = Said(res.outcome, res)

FinalInv == FinalTold /\ \A s \in Handler : FinalResult(s)

\* What the proofs below know of a step.
FinalStep == Known /\ AInv /\ FirmContext /\ FinalInv /\ [Next]_vars

\* What is settled stays settled.
LEMMA StaysSettled ==
  ASSUME FinalStep, NEW r \in Request, NEW a \in Answer, Settled(committed, r, a),
         a.status \in {"PROCESSED", "REJECTED"} => a.tx \in Request
  PROVE  Settled(committed', r, a)
<1>1. Contested(committed, r) => Contested(committed', r)
  <2>1. RowsGrow(committed, committed')
    BY CommittedGrows DEF FinalStep, Known, RowsKeysInv, RInv
  <2> QED BY <2>1 DEF Contested, RowsGrow
<1>2. ASSUME a.status \in {"PROCESSED", "REJECTED"}, Firm(a.tx)
      PROVE  Columns(committed', a.tx) = Said(a.status, a)
  <2>1. Columns(committed, a.tx) = Said(a.status, a)
    BY <1>2 DEF Settled
  <2>2. committed.tx[a.tx].state = a.status
    BY <2>1 DEF Columns, Said
  <2>3. IsTerminal(committed.tx[a.tx].state)
    BY <1>2, <2>2 DEF IsTerminal
  <2> QED BY <1>2, <2>1, <2>3, OutcomeStays DEF FinalStep
<1> QED BY <1>1, <1>2 DEF Settled

\* A final answer that is true is about an operation.
LEMMA ToldFinal ==
  ASSUME AInv, FinalTold, NEW r \in Request, NEW a \in told[r]
  PROVE  /\ a \in Answer
         /\ a.status \in {"PROCESSED", "REJECTED"} =>
              /\ a.tx \in Request /\ PayloadHash(a.tx) = PayloadHash(r)
              /\ Present(committed, a.tx)
<1>1. a \in Answer /\ Truthful(committed, r, a) /\ Settled(committed, r, a)
  BY DEF AInv, AnswersTypeOK, ToldInv, FinalTold
<1>2. a.status \in {"PROCESSED", "REJECTED"} => a.http # 409
  BY <1>1 DEF Settled, Conflict
<1> QED BY <1>1, <1>2 DEF Truthful, Behind

\* Telling nothing, or to nobody, or what is settled.
LEMMA TellsFinal ==
  ASSUME FinalStep,
         \/ UNCHANGED told
         \/ \E r, a : Tell(r, a) /\ (r \in Request => Settled(committed', r, a))
  PROVE  FinalTold'
<1>1. told \in [Request -> SUBSET Answer]
  BY DEF FinalStep, AInv, AnswersTypeOK
<1>2. \A r \in Request : \A a \in told[r] : Settled(committed', r, a)
  <2> SUFFICES ASSUME NEW r \in Request, NEW a \in told[r] PROVE Settled(committed', r, a)
    OBVIOUS
  <2>1. FinalTold /\ AInv
    BY DEF FinalStep, FinalInv
  <2>2. Settled(committed, r, a) /\ a \in Answer
    BY <2>1, ToldFinal DEF FinalTold
  <2> QED BY <2>1, <2>2, ToldFinal, StaysSettled
<1>3. CASE UNCHANGED told
  BY <1>2, <1>3 DEF FinalTold
<1>4. ASSUME NEW r, NEW a, Tell(r, a), r \in Request => Settled(committed', r, a)
      PROVE  FinalTold'
  <2>1. \A q \in Request : \A b \in told'[q] : b \in told[q] \/ (q = r /\ b = a)
    BY <1>1, <1>4 DEF Tell
  <2>2. \A q \in Request : \A b \in told'[q] : Settled(committed', q, b)
    BY <1>2, <1>4, <2>1
  <2> QED BY <2>2 DEF FinalTold
<1> QED BY <1>3, <1>4

\* What a handler is about to commit nobody else writes.
LEMMA BystanderRow ==
  ASSUME IInv, Shape, NEW s \in Session, sess'[s] = sess[s], sess[s].pc = "commit",
         NEW r \in Request, lock[Input[r].wallet] = s
  PROVE  current'.tx[r] = current.tx[r]
<1> DEFINE w == Input[r].wallet
<1>0. /\ w \in Wallet
      /\ sess \in [Session -> SessionState]
  BY InputFacts DEF IInv
<1>1. CASE current'.tx = current.tx
  BY <1>1
<1>2. ASSUME NEW t \in Session, RollbackOf(t) \/ WriteOf(t)
      PROVE  current'.tx[r] = current.tx[r]
  <2>1. t # s
    BY <1>0, <1>2 DEF RollbackOf, WriteOf
  <2>2. w \notin Held(t)
    BY <2>1 DEF Held
  <2>3. PICK d : current' = Merge(current, d, Held(t))
    BY <1>2 DEF RollbackOf, WriteOf
  <2> QED BY <2>2, <2>3 DEF Merge
<1> QED BY <1>1, <1>2 DEF Shape, CalmStep, LockForUpdate, CommitOf

\* A committed outcome that a result tells stays.
LEMMA ResultSettled ==
  ASSUME FinalStep, NEW r \in Request, NEW res, Firm(r),
         res.outcome \in {"PROCESSED", "REJECTED"},
         Columns(committed, r) = Said(res.outcome, res)
  PROVE  Columns(committed', r) = Said(res.outcome, res)
<1>1. committed.tx[r].state = res.outcome
  BY DEF Columns, Said
<1>2. IsTerminal(committed.tx[r].state)
  BY <1>1 DEF IsTerminal
<1> QED BY <1>2, OutcomeStays DEF FinalStep

\* A result that nobody touches stays what it is.
LEMMA FinalResultStays ==
  ASSUME FinalStep, NEW s \in Handler, sess'[s] = sess[s], result'[s] = result[s]
  PROVE  FinalResult(s)'
<1> DEFINE res == result[s].submit
<1> SUFFICES ASSUME result[s] # Pending, res.outcome \in {"PROCESSED", "REJECTED"},
                    Firm(res.tx)
             PROVE  /\ sess[s].op = "submit" => Columns(current', res.tx) = Said(res.outcome, res)
                    /\ sess[s].op = "cascade" =>
                         Columns(committed', res.tx) = Said(res.outcome, res)
  BY DEF FinalResult
<1>1. /\ ResultInv(s) /\ FinalResult(s) /\ s \in Session
      /\ result[s] \in [request : Request, submit : SubmitResult]
  BY DEF FinalStep, FinalInv, AInv, AnswersTypeOK, Session
<1>2. res \in SubmitResult /\ res.tx \in Request
  BY <1>1 DEF SubmitResult
<1>3. ASSUME sess[s].op = "submit" PROVE Columns(current', res.tx) = Said(res.outcome, res)
  <2>1. sess[s].pc = "commit" /\ lock[Input[res.tx].wallet] = s
    BY <1>1, <1>3 DEF ResultInv
  <2>2. Columns(current, res.tx) = Said(res.outcome, res)
    BY <1>1, <1>3 DEF FinalResult
  <2> HIDE DEF res
  <2>3. current'.tx[res.tx] = current.tx[res.tx]
    BY <1>1, <1>2, <2>1, BystanderRow DEF FinalStep, Known
  <2> QED BY <2>2, <2>3 DEF Columns
<1>4. ASSUME sess[s].op = "cascade" PROVE Columns(committed', res.tx) = Said(res.outcome, res)
  <2>1. Columns(committed, res.tx) = Said(res.outcome, res)
    BY <1>1, <1>4 DEF FinalResult
  <2> HIDE DEF res
  <2> QED BY <1>2, <2>1, ResultSettled
<1> QED BY <1>3, <1>4

\* What an accepted operation that is settled at once has in its columns.
LEMMA AcceptedColumns ==
  ASSUME NEW d \in Database, NEW row \in WalletRow, NEW r \in Request, NEW v,
         Sound(v, row, r), Codes(v), v.outcome \in {"PROCESSED", "REJECTED"}
  PROVE  LET res == Decided(row, r, v)
         IN Columns(Accept(d, row, r, v), r) = Said(res.outcome, res)
<1> DEFINE after == Apply(row, v.dir, Input[r].amount)
           x == Accept(d, row, r, v)
           res == Decided(row, r, v)
<1>1. res.outcome = v.outcome /\ res.code = v.code /\ res.seen = after
  BY DEF Decided
<1>2. \A y \in Database : InsertInbox(y, r).tx = y.tx
  BY DEF InsertInbox, Database
<1>3. /\ x.tx[r].state = v.outcome /\ x.tx[r].code = v.code
      /\ x.tx[r].balance = after.balance /\ x.tx[r].version = after.version
  <2>1. CASE v.outcome = "PROCESSED"
    <3> DEFINE y == processed(d, row, r, v)
               txs == UpdateState(d, r, "PROCESSED", Ok, after, v.refTx)
    <3>1. y \in Database /\ x = InsertInbox(y, r)
      BY <2>1, ProcessedType DEF Accept
    <3>2. /\ y.tx[r].state = "PROCESSED"
          /\ y.tx[r].balance = after.balance /\ y.tx[r].version = after.version
      BY <2>1, ProcessedRows
    <3>3. y.tx[r].code = Ok
      <4>1. txs[r].code = Ok
        BY DEF UpdateState, Database
      <4>2. \A t : MarkReversed(d, txs, r, t)[r].code = Ok
        <5>1. txs[r] = [state |-> "PROCESSED", code |-> Ok, balance |-> after.balance,
                        version |-> after.version, refTx |-> v.refTx,
                        reversedBy |-> d.tx[r].reversedBy]
          BY DEF UpdateState, Database
        <5> HIDE DEF txs
        <5> QED BY <4>1, <5>1 DEF MarkReversed
      <4>3. y.tx = IF IsReversalKind(Input[r].kind) THEN MarkReversed(d, txs, r, v.refTx) ELSE txs
        BY DEF processed, Database
      <4> QED BY <4>1, <4>2, <4>3
    <3> HIDE DEF x, y, after
    <3>4. x.tx = y.tx
      BY <1>2, <3>1
    <3> QED BY <2>1, <3>2, <3>3, <3>4 DEF Codes
  <2>2. CASE v.outcome = "REJECTED"
    <3> DEFINE y == rejected(d, row, r, v)
    <3>1. y \in Database /\ x = InsertInbox(y, r)
      BY <2>2, RejectedType DEF Accept
    <3>2. /\ y.tx[r].state = "REJECTED" /\ y.tx[r].code = v.code
          /\ y.tx[r].balance = row.balance /\ y.tx[r].version = row.version
      BY DEF rejected, UpdateState, Database
    <3>3. after = row
      BY <2>2 DEF Codes, Apply
    <3> HIDE DEF x, y, after
    <3>4. x.tx = y.tx
      BY <1>2, <3>1
    <3> QED BY <2>2, <3>2, <3>3, <3>4
  <2> QED BY <2>1, <2>2
<1> HIDE DEF x, res, after
<1> QED BY <1>1, <1>3 DEF Columns, Said, x, res

\* The result that a handler takes away from its transaction tells the columns
\* that the transaction has written.
LEMMA DecidedSettled ==
  ASSUME IInv, NEW s \in Session, SubmitApply(s)
  PROVE  LET r == sess[s].item.tx
             res == Decided(sess[s].wal, r, applyOperation(View(s), sess[s].wal, r))
         IN res.outcome \in {"PROCESSED", "REJECTED"} =>
              Columns(current', r) = Said(res.outcome, res)
<1> DEFINE r == sess[s].item.tx
           row == sess[s].wal
           d == View(s)
           v == applyOperation(d, row, r)
           x == Accept(d, row, r, v)
           res == Decided(row, r, v)
<1>1. /\ sess[s].pc = "apply"
      /\ current' = Merge(current, x, Held(s))
  BY DEF SubmitApply, Fresh, Submitting, Write
<1>2. r \in Request /\ row \in WalletRow /\ d \in Database
  BY <1>1, ApplyFacts
<1>3. Input[r].wallet \in Held(s)
  <2>1. lock[Input[r].wallet] = s
    BY <1>1 DEF IInv, LockOK, Reserved, WalletOf
  <2> QED BY <1>2, <2>1, InputFacts DEF Held
<1> HIDE DEF d, r, row
<1>4. Sound(v, row, r) /\ Codes(v)
  BY <1>2, SoundVerdicts, VerdictCodes
<1> HIDE DEF v
<1>5. v.outcome = res.outcome
  BY DEF Decided
<1>6. v.outcome \in {"PROCESSED", "REJECTED"} => Columns(x, r) = Said(res.outcome, res)
  BY <1>2, <1>4, AcceptedColumns
<1> HIDE DEF x, res
<1>7. Columns(current', r) = Columns(x, r)
  BY <1>1, <1>2, <1>3 DEF Merge, Columns
<1> QED BY <1>5, <1>6, <1>7 DEF res, v, d, r, row

\* A handler that goes on has published the outcome it is going to tell.
LEMMA PublishedResult ==
  ASSUME FinalStep, NEW s \in Handler, Proceed(s) \/ sess[s].op = "cascade",
         result[s] # Pending
  PROVE  LET res == result[s].submit
         IN res.outcome \in {"PROCESSED", "REJECTED"} /\ Firm(res.tx) =>
              Columns(committed', res.tx) = Said(res.outcome, res)
<1> DEFINE res == result[s].submit
<1> SUFFICES ASSUME res.outcome \in {"PROCESSED", "REJECTED"}, Firm(res.tx)
             PROVE  Columns(committed', res.tx) = Said(res.outcome, res)
  OBVIOUS
<1>1. /\ ResultInv(s) /\ FinalResult(s)
      /\ result[s] \in [request : Request, submit : SubmitResult]
  BY DEF FinalStep, FinalInv, AInv, AnswersTypeOK
<1>2. res.tx \in Request
  BY <1>1 DEF SubmitResult
<1>3. CASE sess[s].op = "cascade"
  <2>1. Columns(committed, res.tx) = Said(res.outcome, res)
    BY <1>1, <1>3 DEF FinalResult
  <2> HIDE DEF res
  <2> QED BY <1>2, <2>1, ResultSettled
<1>4. CASE sess[s].op # "cascade"
  <2>1. /\ sess[s].op = "submit" /\ sess[s].pc = "commit"
        /\ lock[Input[res.tx].wallet] = s
    BY <1>1, <1>4 DEF ResultInv
  <2>2. Columns(current, res.tx) = Said(res.outcome, res)
    BY <1>1, <2>1 DEF FinalResult
  <2>3. Commit(s)
    BY <1>4, <2>1 DEF Proceed, LockForUpdate, CascadeFind, CascadeNext, ResumeSettle, ResumeClash,
                      ResumeError, Resuming, DeadlockVictim
  <2> HIDE DEF res
  <2>4. Input[res.tx].wallet \in Held(s)
    BY <1>2, <2>1, InputFacts DEF Held
  <2>5. committed'.tx[res.tx] = current.tx[res.tx]
    BY <1>2, <2>3, <2>4 DEF Commit, Merge
  <2> QED BY <2>2, <2>5 DEF Columns
<1> QED BY <1>3, <1>4

\* A first answer tells the outcome of the result.
LEMMA FirstSettled ==
  ASSUME NEW d, NEW res \in SubmitResult, Meant(res), res.outcome # "REPLAY", NEW r,
         res.outcome \in {"PROCESSED", "REJECTED"} /\ Firm(res.tx) =>
           Columns(d, res.tx) = Said(res.outcome, res)
  PROVE  Settled(d, r, writeSubmitResult(res))
<1> DEFINE a == writeSubmitResult(res)
<1>1. /\ a.tx = res.tx /\ a.seen = res.seen /\ a.code = res.code
      /\ a.http # 409 /\ a.status \in {"PROCESSED", "REJECTED", "PENDING"}
      /\ a.status \in {"PROCESSED", "REJECTED"} => a.status = res.outcome
  BY BodyOf
<1> HIDE DEF a
<1>2. Said(a.status, a) = Said(a.status, res)
  BY <1>1 DEF Said
<1> QED BY <1>1, <1>2 DEF Settled, a

\* A replay tells the outcome of the row, or of a conflict with one.
LEMMA ReplaySettled ==
  ASSUME IInv, RInv, StakeInv, CleanInv, NEW s \in Session, SubmitReplay(s)
  PROVE  LET r == sess[s].item.tx
         IN Settled(committed, r, ReplayAnswer(View(s), r))
<1> DEFINE r == sess[s].item.tx
           a == ReplayAnswer(View(s), r)
<1>1. PICK p \in Request :
        /\ Present(committed, p)
        /\ p \in Priors(View(s), r)
        /\ a = IF PayloadHash(p) # PayloadHash(r) THEN Conflict
               ELSE writeSubmitResult(replayResult(committed, p))
  BY ReplayedPrior
<1> HIDE DEF a, r
<1>2. CASE PayloadHash(p) # PayloadHash(r)
  <2>1. a = Conflict
    BY <1>1, <1>2
  <2>2. /\ Input[p].provider = Input[r].provider
        /\ Input[p].key = Input[r].key \/ Input[p].ext = Input[r].ext
    BY <1>1 DEF Priors, FindByProviderKey, FindByProviderExternal
  <2>3. Contested(committed, r)
    BY <1>1, <1>2, <2>2 DEF Contested
  <2> QED BY <2>1, <2>3 DEF Settled, Conflict, a, r
<1>3. CASE PayloadHash(p) = PayloadHash(r)
  <2> DEFINE row == committed.tx[p]
             seen == [balance |-> row.balance, version |-> row.version]
  <2>1. a = writeSubmitResult(replayResult(committed, p))
    BY <1>1, <1>3
  <2>2. /\ a.tx = p /\ a.http # 409 /\ a.status \in {"PROCESSED", "REJECTED", "PENDING"}
        /\ a.status \in {"PROCESSED", "REJECTED"} =>
             a.status = row.state /\ a.code = row.code /\ a.seen = seen
    BY <1>1, <2>1, ReplayedRow
  <2>3. a.status \in {"PROCESSED", "REJECTED"} => Columns(committed, p) = Said(a.status, a)
    BY <2>2 DEF Columns, Said
  <2> QED BY <2>2, <2>3 DEF Settled, a, r
<1> QED BY <1>2, <1>3

\* What a handler does keeps what the results of the others tell.
LEMMA OnlyFinalResult ==
  ASSUME FinalStep, NEW s \in Handler, SessionStep(s) \/ Crash(s),
         result' = result \/ \E x : result' = [result EXCEPT ![s] = x],
         FinalResult(s)'
  PROVE  \A t \in Handler : FinalResult(t)'
<1>1. \A t \in Handler \ {s} : result'[t] = result[t]
  BY DEF FinalStep, AInv, AnswersTypeOK
<1>2. \A t \in Handler \ {s} : sess'[t] = sess[t]
  BY OthersStay DEF FinalStep, Known, Session
<1> QED BY <1>1, <1>2, FinalResultStays

\* A result whose outcome is published may be answered.
LEMMA FinishSettles ==
  ASSUME FinalStep, NEW s \in Handler, Finish(s), Proceed(s) \/ sess[s].op = "cascade"
  PROVE  FinalTold' /\ result' = [result EXCEPT ![s] = Pending]
<1> DEFINE r == result[s].request
           res == result[s].submit
           a == writeSubmitResult(res)
<1>1. Tell(r, a) /\ result' = [result EXCEPT ![s] = Pending]
  BY DEF Finish, Holds
<1>2. r \in Request => Settled(committed', r, a)
  <2> SUFFICES ASSUME r \in Request PROVE Settled(committed', r, a)
    OBVIOUS
  <2>1. result[s] # Pending
    BY ConstantsAssumption DEF Pending
  <2>2. /\ result[s] \in [request : Request, submit : SubmitResult]
        /\ ResultInv(s)
    BY <2>1 DEF FinalStep, AInv, AnswersTypeOK
  <2>3. res \in SubmitResult /\ Meant(res) /\ res.outcome # "REPLAY"
    BY <2>1, <2>2 DEF ResultInv
  <2>4. res.outcome \in {"PROCESSED", "REJECTED"} /\ Firm(res.tx) =>
          Columns(committed', res.tx) = Said(res.outcome, res)
    BY <2>1, PublishedResult
  <2> HIDE DEF res, r
  <2> QED BY <2>3, <2>4, FirstSettled
<1> HIDE DEF r, res, a
<1>3. FinalTold'
  BY <1>1, <1>2, TellsFinal
<1> QED BY <1>1, <1>3

\* What is not a handler at work answers nobody.
LEMMA ElsewhereFinal ==
  ASSUME FinalStep, Elsewhere
  PROVE  FinalInv'
<1>1. result' = result /\ told' = told
  BY DEF Elsewhere
<1>2. ASSUME NEW s \in Handler PROVE FinalResult(s)'
  <2>1. CASE sess[s] # Idle
    BY <1>1, <2>1, FinalResultStays DEF Elsewhere
  <2>2. CASE sess[s] = Idle
    <3>1. result[s] = Pending
      BY <2>2 DEF FinalStep, AInv, ResultInv, Idle
    <3> QED BY <1>1, <3>1 DEF FinalResult
  <2> QED BY <2>1, <2>2
<1> QED BY <1>1, <1>2, TellsFinal DEF FinalInv

\* A handler decides, and holds the result.
LEMMA DecideFinal ==
  ASSUME FinalStep, NEW s \in Handler, Decide(s)
  PROVE  FinalInv'
<1> DEFINE r == sess[s].item.tx
           res == Decided(sess[s].wal, r, applyOperation(View(s), sess[s].wal, r))
<1>1. /\ SubmitApply(s) /\ SessionStep(s) /\ s \in Session
      /\ result' = [result EXCEPT ![s] = [request |-> r, submit |-> res]]
      /\ told' = told
  BY DEF Decide, Holds, SessionStep, Session
<1>2. res.tx = r
  BY DEF Decided
<1>3. res.outcome \in {"PROCESSED", "REJECTED"} => Columns(current', r) = Said(res.outcome, res)
  BY <1>1, DecidedSettled DEF FinalStep, Known
<1>4. sess'[s].op = "submit"
  <2>1. sess[s] \in SessionState /\ sess[s].op = "submit"
    BY <1>1 DEF FinalStep, Known, IInv, SubmitApply, Fresh, Submitting
  <2>2. sess' = [sess EXCEPT ![s] = Goto(s, "commit")] /\ sess \in [Session -> SessionState]
    BY <1>1 DEF SubmitApply, FinalStep, Known, IInv
  <2>3. sess'[s] = Goto(s, "commit")
    BY <1>1, <2>2
  <2> QED BY <2>1, <2>3 DEF Goto, SessionState
<1> HIDE DEF r, res
<1>5. result'[s] = [request |-> r, submit |-> res]
  BY <1>1 DEF FinalStep, AInv, AnswersTypeOK
<1>6. result'[s].submit = res
  BY <1>5
<1>7. FinalResult(s)'
  BY <1>2, <1>3, <1>4, <1>6 DEF FinalResult
<1>8. \A t \in Handler : FinalResult(t)'
  BY <1>1, <1>7, OnlyFinalResult
<1> QED BY <1>1, <1>8, TellsFinal DEF FinalInv

\* A replay answers from committed rows.
LEMMA ReplayFinal ==
  ASSUME FinalStep, NEW s \in Handler, Replay(s)
  PROVE  FinalInv'
<1> DEFINE r == sess[s].item.tx
           a == ReplayAnswer(View(s), r)
<1>1. /\ SubmitReplay(s) /\ SessionStep(s) /\ s \in Session
      /\ Tell(r, a) /\ result' = result
  BY DEF Replay, SessionStep, Session
<1>2. Settled(committed, r, a)
  BY <1>1, ReplaySettled DEF FinalStep, Known, RowsKeysInv, AInv
<1>3. committed' = committed
  BY <1>1 DEF SubmitReplay, Rollback
<1>4. result[s] = Pending
  BY <1>1 DEF SubmitReplay, Submitting, FinalStep, AInv, ResultInv
<1> HIDE DEF r, a
<1>5. FinalTold'
  BY <1>1, <1>2, <1>3, TellsFinal
<1>6. FinalResult(s)'
  BY <1>1, <1>4 DEF FinalResult
<1>7. \A t \in Handler : FinalResult(t)'
  BY <1>1, <1>6, OnlyFinalResult
<1> QED BY <1>5, <1>7 DEF FinalInv

\* A Submit that errs, or whose process dies, answers nobody; a failed cascade
\* does not take back what was committed before it.
LEMMA FailFinal ==
  ASSUME FinalStep, NEW s \in Handler, Refuse(s) \/ Fail(s)
  PROVE  FinalInv'
<1>1. SessionStep(s) \/ Crash(s)
  BY DEF Refuse, Fail, SessionStep
<1>2. result' = [result EXCEPT ![s] = Pending]
  BY DEF Refuse, Fail, Finish, Holds
<1>3. FinalResult(s)'
  BY <1>2 DEF FinalStep, AInv, AnswersTypeOK, FinalResult
<1>4. \A t \in Handler : FinalResult(t)'
  BY <1>1, <1>2, <1>3, OnlyFinalResult
<1>5. FinalTold'
  <2>1. CASE told' = told
    BY <2>1, TellsFinal
  <2>2. CASE Finish(s) /\ sess[s].op = "cascade"
    BY <2>2, FinishSettles
  <2> QED BY <2>1, <2>2 DEF Refuse, Fail
<1> QED BY <1>4, <1>5 DEF FinalInv

\* A handler goes on with its cascade, or answers.
LEMMA CarryFinal ==
  ASSUME FinalStep, NEW s \in Handler, Carry(s)
  PROVE  FinalInv'
<1>1. Proceed(s) /\ SessionStep(s)
  BY DEF Carry, Proceed, SessionStep
<1>2. CASE sess'[s] = Idle
  <2>1. FinalTold' /\ result' = [result EXCEPT ![s] = Pending]
    BY <1>1, <1>2, FinishSettles DEF Carry
  <2>2. FinalResult(s)'
    BY <2>1 DEF FinalStep, AInv, AnswersTypeOK, FinalResult
  <2>3. \A t \in Handler : FinalResult(t)'
    BY <1>1, <2>1, <2>2, OnlyFinalResult
  <2> QED BY <2>1, <2>3 DEF FinalInv
<1>3. CASE sess'[s] # Idle
  <2>1. result' = result /\ told' = told
    BY <1>3 DEF Carry
  <2>2. FinalResult(s)'
    <3>1. CASE result[s] = Pending
      BY <2>1, <3>1 DEF FinalResult
    <3>2. CASE result[s] # Pending
      <4>1. sess'[s].op = "cascade"
        BY <1>1, <1>3, <3>2, ProceedStands DEF FinalStep
      <4>2. LET res == result[s].submit
            IN res.outcome \in {"PROCESSED", "REJECTED"} /\ Firm(res.tx) =>
                 Columns(committed', res.tx) = Said(res.outcome, res)
        BY <1>1, <3>2, PublishedResult
      <4> QED BY <2>1, <4>1, <4>2 DEF FinalResult
    <3> QED BY <3>1, <3>2
  <2>3. \A t \in Handler : FinalResult(t)'
    BY <1>1, <2>1, <2>2, OnlyFinalResult
  <2> QED BY <2>1, <2>3, TellsFinal DEF FinalInv
<1> QED BY <1>2, <1>3

\* A GET tells the columns of the row.
LEMMA GetFinal ==
  ASSUME FinalStep, NEW r \in Request, GetTransaction(r)
  PROVE  FinalInv'
<1> DEFINE a == transactionBody(committed, r)
<1>1. UNCHANGED <<committed, sess, result>> /\ Tell(r, a)
  BY DEF GetTransaction, vars
<1>2. committed.tx[r].state # "CONFLICT"
  BY DEF FinalStep, Known, IInv, TablesOK, Database, TxRow, TransactionState
<1>3. Settled(committed, r, a)
  BY <1>2 DEF transactionBody, Settled, Columns, Said
<1> HIDE DEF a
<1>4. FinalTold'
  BY <1>1, <1>3, TellsFinal
<1>5. \A s \in Handler : FinalResult(s)'
  BY <1>1, FinalResultStays
<1> QED BY <1>4, <1>5 DEF FinalInv

\* The invariants of Wagering and of its answers.
FinalContext ==
  /\ IInv /\ RowsKeysInv /\ StakeInv /\ Ahead
  /\ AInv /\ FirmInv /\ FinalInv

\* Every step of Answers.
LEMMA NextFinal == FinalContext /\ [AnswersNext]_answersVars => FinalContext'
<1> SUFFICES ASSUME FinalContext, [AnswersNext]_answersVars PROVE FinalContext'
  OBVIOUS
<1>1. [Next]_vars
  BY Projects
<1>2. Known
  BY <1>1, NextShape, NextGrows DEF Known, FinalContext
<1>3. FirmContext
  BY DEF FinalContext, FirmContext, AInv
<1>4. FinalStep
  BY <1>1, <1>2, <1>3 DEF FinalStep, FinalContext
<1>5. FinalInv'
  <2>1. CASE UNCHANGED answersVars
    <3>1. UNCHANGED <<sess, result, told>>
      BY <2>1 DEF answersVars, vars
    <3>2. \A s \in Handler : FinalResult(s)'
      BY <1>4, <3>1, FinalResultStays
    <3> QED BY <1>4, <3>1, <3>2, TellsFinal DEF FinalInv
  <2>2. CASE Elsewhere
    BY <1>4, <2>2, ElsewhereFinal
  <2>3. ASSUME NEW s \in Handler, HandlerStep(s) PROVE FinalInv'
    BY <1>4, <2>3, DecideFinal, ReplayFinal, FailFinal, CarryFinal DEF HandlerStep
  <2>4. ASSUME NEW r \in Request, GetTransaction(r) PROVE FinalInv'
    BY <1>4, <2>4, GetFinal
  <2> QED BY <2>1, <2>2, <2>3, <2>4 DEF AnswersNext
<1>6. FirmInv'
  BY <1>1, <1>3, NextFirm DEF FirmContext
<1>7. IInv' /\ RowsKeysInv' /\ StakeInv' /\ Ahead' /\ AInv'
  BY <1>1, NextPreserves, NextRows, NextStake, NextGrows, NextAnswers DEF Step, FinalContext
<1> QED BY <1>5, <1>6, <1>7 DEF FinalContext

\* Before anything is asked nothing is told.
LEMMA InitFinal == AnswersInit => FinalContext
<1> SUFFICES ASSUME AnswersInit PROVE FinalContext
  OBVIOUS
<1>1. IInv /\ RowsKeysInv /\ StakeInv /\ Ahead /\ AInv
  BY InitOK, InitRows, InitStake, InitMaps, InitAnswers DEF AnswersInit
<1>2. FirmInv
  BY InitFirm DEF AnswersInit, FirmContext
<1>3. FinalInv
  BY DEF AnswersInit, FinalInv, FinalTold, FinalResult
<1> QED BY <1>1, <1>2, <1>3 DEF FinalContext

\* Every final answer tells a conflict that is there or the columns of the row
\* as they are now, whatever was lost and however long ago it was given.
THEOREM AnswersSettled == AnswersSpec => []FinalContext
<1> QED BY InitFinal, NextFinal, PTL DEF AnswersSpec

\* Operations of the same content are firm together.
LEMMA FirmAlike ==
  ASSUME NEW r, NEW p, PayloadHash(p) = PayloadHash(r)
  PROVE  /\ Firm(p) <=> Firm(r)
         /\ Input[p].provider = Input[r].provider /\ Input[p].ext = Input[r].ext
<1>1. \A f \in {"provider", "ext", "kind", "ref"} : PayloadHash(p)[f] = PayloadHash(r)[f]
  OBVIOUS
<1>2. \A f \in {"provider", "ext", "kind", "ref"} : Input[p][f] = Input[r][f]
  BY <1>1 DEF PayloadHash
<1>3. /\ Input[p].provider = Input[r].provider /\ Input[p].ext = Input[r].ext
      /\ Input[p].kind = Input[r].kind /\ Input[p].ref = Input[r].ref
  BY <1>2
<1> QED BY <1>3 DEF Firm, Parkable, Sole, Own, Named

\* What a refusal leaves open: nothing.
RefusalFinal(r) ==
  \A a \in told[r] :
    /\ a.status = "REJECTED" /\ Firm(r) => \A e \in committed.ledger : e.tx # a.tx
    /\ a.status = "CONFLICT" => ~Present(committed, r)

\* What was answered 422 has moved no money and never will, when nobody else
\* can resume it; what was answered 409 is never accepted.
THEOREM RefusalsStand == AnswersSpec => [](\A r \in Request : RefusalFinal(r))
<1>1. FinalContext => \A r \in Request : RefusalFinal(r)
  <2> SUFFICES ASSUME FinalContext, NEW r \in Request, NEW a \in told[r]
               PROVE  /\ a.status = "REJECTED" /\ Firm(r) =>
                           \A e \in committed.ledger : e.tx # a.tx
                      /\ a.status = "CONFLICT" => ~Present(committed, r)
    BY DEF RefusalFinal
  <2>1. Settled(committed, r, a)
    BY DEF FinalContext, FinalInv, FinalTold
  <2>2. a.status \in {"PROCESSED", "REJECTED"} =>
          a.tx \in Request /\ PayloadHash(a.tx) = PayloadHash(r)
    BY ToldFinal DEF FinalContext, FinalInv
  <2>3. ASSUME a.status = "REJECTED", Firm(r)
        PROVE  \A e \in committed.ledger : e.tx # a.tx
    <3>1. a.tx \in Request /\ Firm(a.tx)
      BY <2>2, <2>3, FirmAlike
    <3>2. committed.tx[a.tx].state = "REJECTED"
      BY <2>1, <2>3, <3>1 DEF Settled, Columns, Said
    <3>3. ~HasEntry(committed, a.tx)
      BY <3>1, <3>2 DEF FinalContext, FirmInv, FirmRows, MovesStand
    <3> QED BY <3>3 DEF HasEntry
  <2>4. ASSUME a.status = "CONFLICT" PROVE ~Present(committed, r)
    <3>1. PICK p \in Request : /\ Present(committed, p)
                               /\ Input[p].provider = Input[r].provider
                               /\ Input[p].key = Input[r].key \/ Input[p].ext = Input[r].ext
                               /\ PayloadHash(p) # PayloadHash(r)
      BY <2>1, <2>4 DEF Settled, Contested
    <3>2. p # r
      BY <3>1
    <3> QED BY <3>1, <3>2 DEF FinalContext, RowsKeysInv, KeysInv, OneOperationPerKey
  <2> QED BY <2>3, <2>4
<1> QED BY <1>1, AnswersSettled, PTL

\* All final answers to r say the same.
Agree(r) == \A a, b \in Final(r) : [a EXCEPT !.http = b.http] = b

\* Who knows of a conflict has not been told of an operation.
LEMMA ConflictOrOutcome ==
  ASSUME FinalContext, NEW r \in Request, NoReuse(r), Contested(committed, r),
         NEW q \in Request, PayloadHash(q) = PayloadHash(r), Present(committed, q)
  PROVE  FALSE
<1>1. PICK p \in Request : /\ Present(committed, p)
                           /\ Input[p].provider = Input[r].provider
                           /\ Input[p].key = Input[r].key \/ Input[p].ext = Input[r].ext
                           /\ PayloadHash(p) # PayloadHash(r)
  BY DEF Contested
<1>2. Input[q].provider = Input[r].provider /\ Input[q].ext = Input[r].ext
  BY FirmAlike
<1>3. p # q
  BY <1>1
<1>4. Input[p].key # Input[q].key /\ Input[p].ext # Input[q].ext
  BY <1>1, <1>2, <1>3 DEF FinalContext, RowsKeysInv, KeysInv, OneOperationPerKey
<1>5. q # r /\ Input[p].key = Input[r].key
  BY <1>1, <1>2, <1>4
<1> QED BY <1>1, <1>5 DEF NoReuse

\* However often a request is repeated and whatever was lost in between, every
\* final answer to it is the same: unless the keys of the provider collide as in
\* NoReuse, and unless more than one party can resume the operation.
THEOREM AnswersAgreeing ==
  AnswersSpec => [](\A r \in Request : Firm(r) /\ NoReuse(r) => Agree(r))
<1>1. FinalContext => \A r \in Request : Firm(r) /\ NoReuse(r) => Agree(r)
  <2> SUFFICES ASSUME FinalContext, NEW r \in Request, Firm(r), NoReuse(r),
                      NEW a \in Final(r), NEW b \in Final(r)
               PROVE  [a EXCEPT !.http = b.http] = b
    BY DEF Agree
  <2> DEFINE outcome(x) == x.status \in {"PROCESSED", "REJECTED"}
  <2>1. \A x \in Final(r) : x \in told[r] /\ (outcome(x) \/ x.status = "CONFLICT")
    BY DEF Final
  <2>2. \A x \in Final(r) : x.status = "CONFLICT" => x = Conflict /\ Contested(committed, r)
    BY <2>1 DEF FinalContext, FinalInv, FinalTold, Settled
  <2>3. \A x \in Final(r) :
          /\ x \in Answer
          /\ outcome(x) => /\ x.tx \in Request /\ PayloadHash(x.tx) = PayloadHash(r)
                           /\ Present(committed, x.tx)
    BY <2>1, ToldFinal DEF FinalContext, FinalInv
  <2>4. \A x \in Final(r) : outcome(x) => Columns(committed, x.tx) = Said(x.status, x)
    BY <2>1, <2>3, FirmAlike DEF FinalContext, FinalInv, FinalTold, Settled
  <2>5. CASE a.status = "CONFLICT" /\ b.status = "CONFLICT"
    <3>1. a = b
      BY <2>2, <2>5
    <3>2. a = Conflict
      BY <2>2, <2>5
    <3> QED BY <3>1, <3>2 DEF Conflict
  <2>6. CASE outcome(a) /\ outcome(b)
    <3>1. a.tx = b.tx
      <4>1. /\ Input[a.tx].provider = Input[b.tx].provider
            /\ Input[a.tx].ext = Input[b.tx].ext
        BY <2>3, <2>6, FirmAlike
      <4> QED BY <2>3, <2>6, <4>1 DEF FinalContext, RowsKeysInv, KeysInv, OneOperationPerKey
    <3>2. Said(a.status, a) = Said(b.status, b)
      BY <2>4, <2>6, <3>1
    <3>3. /\ a.status = b.status /\ a.code = b.code
          /\ a.seen.balance = b.seen.balance /\ a.seen.version = b.seen.version
      BY <3>2 DEF Said
    <3>4. a \in Answer /\ b \in Answer
      BY <2>3
    <3>5. a.seen = b.seen
      BY <3>3, <3>4 DEF Answer, WalletRow
    <3> QED BY <3>1, <3>3, <3>4, <3>5 DEF Answer
  <2>7. CASE \/ a.status = "CONFLICT" /\ outcome(b)
             \/ b.status = "CONFLICT" /\ outcome(a)
    BY <2>2, <2>3, <2>7, ConflictOrOutcome
  <2> QED BY <2>1, <2>5, <2>6, <2>7
<1> QED BY <1>1, AnswersSettled, PTL

\* With one worker and no cascade that could come before it, or with cascades
\* only, what was refused has moved nothing and never will.
THEOREM RefusedForGood ==
  ASSUME \A r \in Request : Firm(r)
  PROVE  AnswersSpec => []RefusedMovesNothing
<1>1. (\A r \in Request : RefusalFinal(r)) => RefusedMovesNothing
  BY DEF RefusalFinal, RefusedMovesNothing
<1> QED BY <1>1, RefusalsStand, PTL

\* With the same parties, and keys that nobody uses for other content, every
\* repetition of a request has the same answer.
THEOREM RetriesAgree ==
  ASSUME \A r \in Request : Firm(r) /\ NoReuse(r)
  PROVE  AnswersSpec => []AnswersAgree
<1>1. (\A r \in Request : Firm(r) /\ NoReuse(r) => Agree(r)) => AnswersAgree
  BY DEF Agree, AnswersAgree
<1> QED BY <1>1, AnswersAgreeing, PTL

-----------------------------------------------------------------------------
(* Fifth part: who waits for whom.                                         *)

\* Why session n may hold wallet w: a submit or a worker for the one operation
\* it has in hand, a cascade for dependents of the BET it serves.
Rightly(n, w) ==
  \/ n.op # "cascade" /\ n.pc \in {"apply", "commit"} /\ Input[n.item.tx].wallet = w
  \/ /\ n.op = "cascade" /\ n.pc \in {"lock", "next", "apply", "commit"}
     /\ \E q \in Request : Parkable(q) /\ Input[q].wallet = w /\ Named(q) \in Serves(n)

LocksInv == \A w \in Wallet : lock[w] # None => Rightly(sess[lock[w]], w)

\* What a proof of a step starts from.
LockContext == IInv /\ PlansInv /\ LocksInv

\* Session s goes on with n, and holds what it may hold.
LEMMA LocksKept ==
  ASSUME LockContext, NEW s \in Session, NEW n,
         \A t \in Session : sess'[t] = IF t = s THEN n ELSE sess[t],
         \A w \in Wallet : lock'[w] \in {lock[w], s, None},
         \A w \in Wallet : lock'[w] = s => Rightly(n, w)
  PROVE  LocksInv'
<1> SUFFICES ASSUME NEW w \in Wallet, lock'[w] # None
             PROVE  Rightly(sess'[lock'[w]], w)
  BY DEF LocksInv
<1>1. lock[w] \in Session \cup {None}
  BY DEF LockContext, IInv
<1>2. CASE lock'[w] = s
  BY <1>2
<1>3. CASE lock'[w] = lock[w] /\ lock'[w] # s
  BY <1>1, <1>3 DEF LockContext, LocksInv
<1> QED BY <1>2, <1>3

\* A session between its transactions holds nothing, nor does one that waits
\* for its only wallet.
LEMMA HoldsNothing ==
  ASSUME LockContext, NEW s \in Session,
         \/ sess[s].pc \in {"idle", "find"}
         \/ sess[s].op # "cascade" /\ sess[s].pc \in {"lock", "next"}
  PROVE  \A w \in Wallet : lock[w] # s
BY ConstantsAssumption DEF LockContext, LocksInv, Rightly, Session

\* Nobody gets a lock and no session goes on.
LEMMA LocksCalm ==
  ASSUME LockContext, lock' = lock, sess' = sess
  PROVE  LocksInv'
BY DEF LockContext, LocksInv

\* A session that holds nothing goes on without a lock.
LEMMA LocksFree ==
  ASSUME LockContext, NEW s \in Session, NEW n, lock' = lock, sess' = [sess EXCEPT ![s] = n],
         \/ sess[s].pc \in {"idle", "find"}
         \/ sess[s].op # "cascade" /\ sess[s].pc \in {"lock", "next"}
  PROVE  LocksInv'
<1>1. \A t \in Session : sess'[t] = IF t = s THEN n ELSE sess[t]
  BY DEF LockContext, IInv
<1>2. \A w \in Wallet : lock'[w] # s
  BY HoldsNothing
<1>3. s # None
  BY ConstantsAssumption DEF Session
<1> QED BY <1>1, <1>2, <1>3, LocksKept

\* The end of a transaction frees its locks.
LEMMA LocksReleased ==
  ASSUME LockContext, NEW s \in Session, NEW n, lock' = Release(s),
         sess' = [sess EXCEPT ![s] = n]
  PROVE  LocksInv'
<1>1. \A t \in Session : sess'[t] = IF t = s THEN n ELSE sess[t]
  BY DEF LockContext, IInv
<1>2. s # None
  BY ConstantsAssumption DEF Session
<1>3. \A w \in Wallet : lock'[w] = IF lock[w] = s THEN None ELSE lock[w]
  BY DEF Release
<1> QED BY <1>1, <1>2, <1>3, LocksKept

\* Locking a wallet.
LEMMA LocksTaken ==
  ASSUME LockContext, NEW s \in Session, LockForUpdate(s)
  PROVE  LocksInv'
<1> DEFINE n == sess'[s]
           r == sess[s].item.tx
<1>1. /\ sess[s].pc = "lock" /\ r \in Request
      /\ \A t \in Session : sess'[t] = IF t = s THEN n ELSE sess[t]
      /\ n.pc = "apply" /\ n.op = sess[s].op /\ n.item = sess[s].item /\ n.todo = sess[s].todo
      /\ lock' = [lock EXCEPT ![WalletOf(s)] = s]
  BY DEF LockForUpdate, LockContext, IInv, SessionOK, SessionState
<1>2. s # None
  BY ConstantsAssumption DEF Session
<1>3. \A w \in Wallet : lock'[w] = IF w = WalletOf(s) THEN s ELSE lock[w]
  BY <1>1 DEF LockContext, IInv
<1> HIDE DEF n
<1>4. WalletOf(s) = Input[n.item.tx].wallet
  BY <1>1 DEF WalletOf
<1>5. ToResume(n) = ToResume(sess[s]) /\ Serves(n) = Serves(sess[s])
  BY <1>1 DEF ToResume, Serves
<1>6. n.op = "cascade" => Parkable(r) /\ Named(r) \in Serves(n)
  BY <1>1 DEF ToResume, Serves, LockContext, PlansInv, PlanOK
<1>7. ASSUME NEW w \in Wallet, lock'[w] = s PROVE Rightly(n, w)
  <2>1. CASE w = WalletOf(s)
    BY <1>1, <1>4, <1>6, <2>1 DEF Rightly
  <2>2. CASE w # WalletOf(s)
    <3>1. lock[w] = s
      BY <1>3, <1>7, <2>2
    <3>2. Rightly(sess[s], w)
      BY <1>2, <3>1 DEF LockContext, LocksInv
    <3> QED BY <1>1, <1>5, <3>2 DEF Rightly
  <2> QED BY <2>1, <2>2
<1> QED BY <1>1, <1>2, <1>3, <1>7, LocksKept

\* A session that keeps its locks and serves whom it served.
LEMMA LocksCarried ==
  ASSUME LockContext, NEW s \in Session, NEW n, lock' = lock, sess' = [sess EXCEPT ![s] = n],
         n.op = sess[s].op,
         n.op = "cascade" => /\ n.pc \in {"lock", "next", "apply", "commit"}
                             /\ Serves(sess[s]) \subseteq Serves(n),
         n.op # "cascade" => n.pc \in {"apply", "commit"} /\ n.item = sess[s].item
  PROVE  LocksInv'
<1>1. \A t \in Session : sess'[t] = IF t = s THEN n ELSE sess[t]
  BY DEF LockContext, IInv
<1>2. s # None
  BY ConstantsAssumption DEF Session
<1>3. ASSUME NEW w \in Wallet, lock'[w] = s PROVE Rightly(n, w)
  <2>1. Rightly(sess[s], w)
    BY <1>2, <1>3 DEF LockContext, LocksInv
  <2> QED BY <2>1 DEF Rightly
<1> QED BY <1>1, <1>2, <1>3, LocksKept

\* A session resumes an operation and goes on.
LEMMA LocksResume ==
  ASSUME LockContext, NEW s \in Session, Resuming(s), lock' = lock,
         sess' = [sess EXCEPT ![s] = AfterResume(s)]
  PROVE  LocksInv'
<1> DEFINE n == AfterResume(s)
<1>1. n.op = sess[s].op /\ Serves(n) = Serves(sess[s])
  BY ResumeGoesOn DEF LockContext
<1>2. sess[s] \in SessionState
  BY DEF LockContext, IInv
<1>3. /\ n.op = "cascade" => n.pc \in {"next", "commit"}
      /\ n.op # "cascade" => n.pc = "commit" /\ n.item = sess[s].item
  BY <1>2 DEF AfterResume, Goto, Idle, SessionState, Resuming
<1> HIDE DEF n
<1> QED BY <1>1, <1>3, LocksCarried DEF n

\* A cascade takes up its next dependent.
LEMMA LocksNext ==
  ASSUME LockContext, NEW s \in Session, CascadeNext(s)
  PROVE  LocksInv'
<1>1. /\ sess[s].pc = "next" /\ sess[s].op = "cascade" /\ lock' = lock
      /\ sess[s] \in SessionState
  BY DEF CascadeNext, LockContext, IInv
<1>2. PICK i \in sess[s].todo :
        sess' = [sess EXCEPT ![s] = [@ EXCEPT !.pc = "lock", !.item = i,
                                              !.todo = sess[s].todo \ {i}]]
  BY DEF CascadeNext
<1> DEFINE n == [sess[s] EXCEPT !.pc = "lock", !.item = i, !.todo = sess[s].todo \ {i}]
<1>3. n.pc = "lock" /\ n.op = "cascade" /\ n.item = i /\ n.todo = sess[s].todo \ {i}
  BY <1>1 DEF SessionState
<1>4. sess' = [sess EXCEPT ![s] = n]
  BY <1>2 DEF LockContext, IInv
<1> HIDE DEF n
<1>5. ToResume(sess[s]) \subseteq ToResume(n)
  BY <1>1, <1>3 DEF ToResume
<1>6. Serves(sess[s]) \subseteq Serves(n)
  BY <1>1, <1>3, <1>5 DEF Serves
<1> QED BY <1>1, <1>3, <1>4, <1>6, LocksCarried

\* Every step of a session.
LEMMA SessionStepLocks ==
  ASSUME LockContext, NEW s \in Session, SessionStep(s)
  PROVE  LocksInv'
<1>0. sess \in [Session -> SessionState] /\ sess[s] \in SessionState
  BY DEF LockContext, IInv
<1>1. CASE LockForUpdate(s)
  BY <1>1, LocksTaken
<1>2. CASE SubmitNoWallet(s)
  BY <1>2, LocksFree DEF SubmitNoWallet
<1>3. CASE SubmitMismatch(s) \/ SubmitReplay(s) \/ SubmitError(s) \/ CommitRefused(s)
             \/ DeadlockVictim(s) \/ \E expired \in BOOLEAN : ResumeClash(s, expired)
  <2>1. PICK n : Rollback(s, n)
    BY <1>3 DEF SubmitMismatch, SubmitReplay, SubmitError, CommitRefused, DeadlockVictim,
                ResumeClash
  <2> QED BY <2>1, LocksReleased DEF Rollback
<1>4. CASE SubmitApply(s)
  <2>1. /\ sess[s].op = "submit" /\ lock' = lock
        /\ sess' = [sess EXCEPT ![s] = Goto(s, "commit")]
    BY <1>4 DEF SubmitApply, Fresh, Submitting
  <2>2. LET n == Goto(s, "commit")
        IN n.op = "submit" /\ n.pc = "commit" /\ n.item = sess[s].item
    BY <1>0, <2>1 DEF Goto, SessionState
  <2> QED BY <2>1, <2>2, LocksCarried
<1>5. CASE Commit(s)
  BY <1>5, LocksReleased DEF Commit
<1>6. CASE CascadeFind(s)
  BY <1>6, LocksFree DEF CascadeFind
<1>7. CASE CascadeNext(s)
  BY <1>7, LocksNext
<1>8. CASE WorkGet(s)
  <2>1. /\ sess[s].pc = "next" /\ sess[s].op # "cascade" /\ lock' = lock
        /\ \E n : sess' = [sess EXCEPT ![s] = n]
    BY <1>8 DEF WorkGet
  <2> QED BY <2>1, LocksFree
<1>9. ASSUME NEW expired \in BOOLEAN, ResumeSettle(s, expired) \/ ResumeError(s, expired)
      PROVE  LocksInv'
  BY <1>9, LocksResume DEF ResumeSettle, ResumeError
<1> QED BY <1>1, <1>2, <1>3, <1>4, <1>5, <1>6, <1>7, <1>8, <1>9 DEF SessionStep

\* Every step.
LEMMA NextLocks == LockContext /\ [Next]_vars => LocksInv'
<1> SUFFICES ASSUME LockContext, [Next]_vars PROVE LocksInv'
  OBVIOUS
<1> USE DEF Session
<1>1. CASE UNCHANGED vars
  BY <1>1, LocksCalm DEF vars
<1>2. ASSUME NEW w \in Wallet, OpenWallet(w) PROVE LocksInv'
  BY <1>2, LocksCalm DEF OpenWallet
<1>3. ASSUME NEW s \in Handler, NEW r \in Request, SubmitBegin(s, r) PROVE LocksInv'
  BY <1>3, LocksFree DEF SubmitBegin
<1>4. ASSUME NEW s \in Session, SessionStep(s) PROVE LocksInv'
  BY <1>4, SessionStepLocks
<1>5. ASSUME NEW s \in Worker, NEW rs, ClaimWork(s, rs) PROVE LocksInv'
  BY <1>5, LocksFree DEF ClaimWork
<1>6. ASSUME NEW s \in Session, TxFails(s) \/ Crash(s) PROVE LocksInv'
  <2>1. PICK n : Rollback(s, n)
    BY <1>6 DEF TxFails, Crash
  <2> QED BY <2>1, LocksReleased DEF Rollback
<1>7. ASSUME NEW r \in Request, LeaseExpires(r) PROVE LocksInv'
  BY <1>7, LocksCalm DEF LeaseExpires
<1> QED BY <1>1, <1>2, <1>3, <1>4, <1>5, <1>6, <1>7 DEF Next

\* Why a session may hold what it holds, for every value of the constants.
THEOREM LocksInvariance == Spec => [](FirmContext /\ LocksInv)
<1>1. Init => LocksInv
  BY DEF Init, LocksInv
<1>2. FirmContext /\ LocksInv /\ [Next]_vars => LocksInv'
  BY NextLocks DEF LockContext, FirmContext, FirmInv
<1> QED BY <1>1, <1>2, FirmInvariance, PTL DEF Spec

\* Whoever holds a wallet while it waits for another is a cascade: a submit and
\* a worker lock one wallet and hold none before.
LEMMA OnlyCascadesHold ==
  ASSUME LockContext, NEW s \in Session, NEW w \in Wallet, lock[w] = s, sess[s].pc = "lock"
  PROVE  /\ sess[s].op = "cascade"
         /\ \E q \in Request : /\ Parkable(q) /\ Input[q].wallet = w
                               /\ Named(q) \in Serves(sess[s])
BY ConstantsAssumption DEF LockContext, LocksInv, Rightly, Session

\* PostgreSQL never aborts a submit or a worker's transaction as the victim of a
\* deadlock (what Answers relies on): no cycle of waiting sessions goes through
\* them, only through cascades.
THEOREM VictimsAreCascades ==
  Spec => [][\A s \in Session : DeadlockVictim(s) => sess[s].op = "cascade"]_vars
<1>1. LockContext => \A s \in Session : DeadlockVictim(s) => sess[s].op = "cascade"
  <2> SUFFICES ASSUME LockContext, NEW s \in Session, DeadlockVictim(s)
               PROVE  sess[s].op = "cascade"
    OBVIOUS
  <2>1. PICK ss \in SUBSET Session : /\ s \in ss /\ Deadlocked(ss)
                                     /\ \A tt \in SUBSET ss : Deadlocked(tt) => tt = ss
    BY DEF DeadlockVictim
  <2>2. PICK t \in ss : WaitsFor(t, s)
    <3> SUFFICES ASSUME \A t \in ss : ~WaitsFor(t, s) PROVE FALSE
      OBVIOUS
    <3>1. PICK u \in ss : WaitsFor(s, u)
      BY <2>1 DEF Deadlocked
    <3>2. u \in ss \ {s}
      BY <3>1 DEF WaitsFor
    <3>3. \A t \in ss \ {s} : \E x \in ss \ {s} : WaitsFor(t, x)
      BY <2>1 DEF Deadlocked
    <3>4. Deadlocked(ss \ {s})
      BY <3>2, <3>3 DEF Deadlocked
    <3> QED BY <2>1, <3>4
  <2>3. sess[s].pc = "lock"
    BY DEF DeadlockVictim
  <2>4. lock[WalletOf(t)] = s /\ WalletOf(t) \in Wallet
    <3>1. sess[t].item.tx \in Request
      BY <2>1, <2>2 DEF WaitsFor, LockContext, IInv, SessionOK
    <3> QED BY <2>2, <3>1, InputFacts DEF WaitsFor, WalletOf
  <2> QED BY <2>3, <2>4, OnlyCascadesHold
<1>2. FirmContext /\ LocksInv => LockContext
  BY DEF LockContext, FirmContext, FirmInv
<1> QED BY <1>1, <1>2, LocksInvariance, PTL

\* No sessions ever wait for each other in a cycle when the operations that wait
\* for one BET are all of one wallet.  (Cycles shows two cascades whose dependents
\* are spread over two wallets.)
THEOREM NoCycleOnOneWallet ==
  ASSUME DependentsOnOneWallet
  PROVE  Spec => []NoLockCycle
<1>1. LockContext => NoLockCycle
  <2> SUFFICES ASSUME LockContext, NEW ss \in SUBSET Session, Deadlocked(ss) PROVE FALSE
    BY DEF NoLockCycle
  <2>1. PICK s \in ss, t \in ss, u \in ss : WaitsFor(s, t) /\ WaitsFor(t, u)
    BY DEF Deadlocked
  <2>2. /\ sess[s].pc = "lock" /\ lock[WalletOf(s)] = t
        /\ sess[t].pc = "lock" /\ lock[WalletOf(t)] = u /\ t # u
    BY <2>1 DEF WaitsFor
  <2>3. sess[s].item.tx \in Request /\ sess[t].item.tx \in Request
    BY <2>2 DEF LockContext, IInv, SessionOK
  <2>4. WalletOf(s) \in Wallet
    BY <2>3, InputFacts DEF WalletOf
  <2>5. sess[t].op = "cascade"
    BY <2>2, <2>4, OnlyCascadesHold
  <2>6. PICK q \in Request : /\ Parkable(q) /\ Input[q].wallet = WalletOf(s)
                             /\ Named(q) \in Serves(sess[t])
    BY <2>2, <2>4, OnlyCascadesHold
  <2>7. Parkable(sess[t].item.tx) /\ Named(sess[t].item.tx) \in Serves(sess[t])
    BY <2>2, <2>5 DEF Serves, ToResume, LockContext, PlansInv, PlanOK
  <2>8. PICK b \in Request : Input[b].kind = "BET" /\ Own(b) = Named(q)
    BY <2>6 DEF LockContext, PlansInv, PlanOK
  <2>9. Named(sess[t].item.tx) = Named(q)
    BY <2>6, <2>7 DEF LockContext, PlansInv, PlanOK
  <2>10. WalletOf(t) = WalletOf(s)
    BY <2>3, <2>6, <2>7, <2>8, <2>9 DEF WalletOf, DependentsOnOneWallet
  <2> QED BY <2>2, <2>10
<1>2. FirmContext /\ LocksInv => LockContext
  BY DEF LockContext, FirmContext, FirmInv
<1> QED BY <1>1, <1>2, LocksInvariance, PTL

-----------------------------------------------------------------------------
(* Sixth part: no event and no message id is taken back.                   *)

Retains(d, x) == d.outbox \subseteq x.outbox /\ d.inbox \subseteq x.inbox

\* All that is committed is current, too.
NothingMissing == Retains(committed, current)

RetainsStep == NothingMissing' /\ Retains(committed, committed')

\* A merge keeps what both have.
LEMMA MergeRetains ==
  ASSUME NEW c, NEW d, NEW e, NEW ws, Retains(c, d), Retains(c, e)
  PROVE  Retains(c, Merge(d, e, ws))
BY DEF Retains, Merge

\* It has nothing but what they have.
LEMMA MergeWithin ==
  ASSUME NEW d, NEW e, NEW x, NEW ws, Retains(d, x), Retains(e, x)
  PROVE  Retains(Merge(d, e, ws), x)
BY DEF Retains, Merge

\* What the work rows become is no matter of the events.
LEMMA WorkRetains ==
  ASSUME NEW d \in Database, NEW r
  PROVE  /\ Retains(d, DeleteWork(d, r))
         /\ \A ref, infra, clear : Retains(d, TouchWork(d, r, ref, infra, clear))
         /\ Retains(d, InsertInbox(d, r))
BY DEF Retains, DeleteWork, TouchWork, InsertInbox, Database

\* Whatever a session writes for an operation, it adds to outbox and inbox.
LEMMA EffectsRetain ==
  ASSUME NEW d \in Database, NEW row \in WalletRow, NEW r \in Request, NEW v,
         Sound(v, row, r)
  PROVE  Retains(d, Accept(d, row, r, v)) /\ Retains(d, Settle(d, row, r, v))
<1>1. ASSUME NEW x \in Database, Retains(d, x)
      PROVE  Retains(d, InsertInbox(x, r)) /\ Retains(d, DeleteWork(x, r))
  BY <1>1, WorkRetains DEF Retains
<1>2. CASE v.outcome = "PROCESSED"
  <2> DEFINE x == processed(d, row, r, v)
  <2>1. x \in Database /\ Retains(d, x)
    <3>1. Retains(d, x)
      BY DEF processed, emitProcessed, Retains, Database
    <3> QED BY <1>2, <3>1, ProcessedType
  <2>2. Accept(d, row, r, v) = InsertInbox(x, r) /\ Settle(d, row, r, v) = DeleteWork(x, r)
    BY <1>2 DEF Accept, Settle, settleProcessedExisting
  <2> HIDE DEF x
  <2> QED BY <1>1, <2>1, <2>2
<1>3. CASE v.outcome = "REJECTED"
  <2> DEFINE x == rejected(d, row, r, v)
  <2>1. x \in Database /\ Retains(d, x)
    BY <1>3, RejectedType DEF rejected, emitRejected, Retains, Database
  <2>2. Accept(d, row, r, v) = InsertInbox(x, r) /\ Settle(d, row, r, v) = DeleteWork(x, r)
    BY <1>3 DEF Accept, Settle, settleRejectedExisting
  <2> HIDE DEF x
  <2> QED BY <1>1, <2>1, <2>2
<1>4. CASE v.outcome \notin {"PROCESSED", "REJECTED"}
  <2> DEFINE x == parkReference(d, row, r)
  <2>1. x \in Database /\ Retains(d, x)
    BY ParkType DEF parkReference, emitPendingRef, Retains, Database
  <2>2. /\ Accept(d, row, r, v) = InsertInbox(x, r)
        /\ Settle(d, row, r, v) = TouchWork(d, r, d.work[r].ref + 1, 0, TRUE)
    BY <1>4 DEF Accept, Settle
  <2> HIDE DEF x
  <2> QED BY <1>1, <2>1, <2>2, WorkRetains
<1>5. \/ v.outcome = "PROCESSED" \/ v.outcome = "REJECTED"
      \/ v.outcome \notin {"PROCESSED", "REJECTED"}
  OBVIOUS
<1> QED BY <1>2, <1>3, <1>4, <1>5, Zenon

-----------------------------------------------------------------------------
(* Steps. *)

\* Both versions keep what they have.
LEMMA BothRetain ==
  ASSUME NothingMissing,
         \/ UNCHANGED <<committed, current>>
         \/ /\ committed'.outbox = committed.outbox /\ committed'.inbox = committed.inbox
            /\ current'.outbox = current.outbox /\ current'.inbox = current.inbox
  PROVE  RetainsStep
BY DEF RetainsStep, NothingMissing, Retains

\* A rollback keeps what is committed.
LEMMA RollbackRetains ==
  ASSUME NothingMissing, NEW s, NEW n, Rollback(s, n)
  PROVE  RetainsStep
<1>1. committed' = committed /\ current' = Merge(current, committed, Held(s))
  BY DEF Rollback
<1>2. Retains(committed, committed)
  BY DEF Retains
<1> QED BY <1>1, <1>2, MergeRetains DEF RetainsStep, NothingMissing

\* Statements that add to what their session sees.
LEMMA WriteRetains ==
  ASSUME NothingMissing, NEW s, NEW d, Retains(View(s), d), Write(s, d), UNCHANGED committed
  PROVE  RetainsStep
<1>1. current' = Merge(current, d, Held(s))
  BY DEF Write
<1>2. Retains(committed, committed)
  BY DEF Retains
<1>3. Retains(committed, View(s))
  BY <1>2, MergeRetains DEF View, NothingMissing
<1>4. Retains(committed, d)
  BY <1>3 DEF Retains
<1> QED BY <1>1, <1>2, <1>4, MergeRetains DEF RetainsStep, NothingMissing

\* A commit publishes rows that were current.
LEMMA CommitRetains ==
  ASSUME NothingMissing, NEW s, Commit(s)
  PROVE  RetainsStep
<1>1. committed' = Merge(committed, current, Held(s)) /\ current' = current
  BY DEF Commit
<1>2. Retains(committed, committed) /\ Retains(current, current)
  BY DEF Retains
<1> QED BY <1>1, <1>2, MergeRetains, MergeWithin DEF RetainsStep, NothingMissing

\* A first submission, a resume that settles or reschedules, one that errs.
LEMMA ApplyRetains ==
  ASSUME IInv, NothingMissing, NEW s \in Session,
         \/ SubmitApply(s)
         \/ \E expired \in BOOLEAN : ResumeSettle(s, expired) \/ ResumeError(s, expired)
  PROVE  RetainsStep
<1> DEFINE i == sess[s].item
           r == i.tx
           row == sess[s].wal
           d == View(s)
<1>1. sess[s].pc = "apply" /\ UNCHANGED committed
  BY DEF SubmitApply, Fresh, Submitting, ResumeSettle, ResumeError, Resuming
<1>2. /\ i \in Item /\ r \in Request /\ row \in WalletRow
      /\ row = d.wallet[Input[r].wallet] /\ d \in Database
  BY <1>1, ApplyFacts DEF WalletOf
<1>3. CASE SubmitApply(s) \/ \E expired \in BOOLEAN : ResumeSettle(s, expired)
  <2>1. PICK v : /\ Sound(v, row, r)
                 /\ Write(s, Accept(d, row, r, v)) \/ Write(s, Settle(d, row, r, v))
    BY <1>2, <1>3, SoundVerdicts DEF SubmitApply, ResumeSettle
  <2>2. Retains(d, Accept(d, row, r, v)) /\ Retains(d, Settle(d, row, r, v))
    BY <1>2, <2>1, EffectsRetain
  <2> HIDE DEF r, row
  <2> QED BY <1>1, <2>1, <2>2, WriteRetains
<1>4. CASE \E expired \in BOOLEAN : ResumeError(s, expired)
  <2> DEFINE x == noteInfra(d, i)
  <2>1. Write(s, x) \/ current' = current
    BY <1>4 DEF ResumeError
  <2>2. Retains(d, x)
    <3>1. \/ \E t : x = DeleteWork([d EXCEPT !.tx = t], r)
          \/ x = TouchWork(d, r, i.ref, i.infra + 1, FALSE)
      BY DEF noteInfra
    <3> HIDE DEF x, r, i, d
    <3>2. \A t : Retains(d, DeleteWork([d EXCEPT !.tx = t], r))
      BY <1>2 DEF Retains, DeleteWork, Database
    <3> QED BY <1>2, <3>1, <3>2, WorkRetains
  <2> HIDE DEF x
  <2> QED BY <1>1, <2>1, <2>2, BothRetain, WriteRetains
<1> QED BY <1>3, <1>4

\* Opening a wallet adds its events.
LEMMA OpenWalletRetains ==
  ASSUME IInv, NothingMissing, NEW w \in Wallet, OpenWallet(w)
  PROVE  RetainsStep
<1>1. PICK new : \A d \in Database : /\ Opened(d, w).outbox = d.outbox \cup new
                                     /\ Opened(d, w).inbox = d.inbox
  BY DEF Opened, Database
<1>2. committed \in Database /\ current \in Database
  BY DEF IInv, TablesOK
<1> QED BY <1>1, <1>2 DEF OpenWallet, RetainsStep, NothingMissing, Retains

\* Leases and the deletion of work rows leave the events alone.
LEMMA WorkRowsRetain ==
  ASSUME IInv, NothingMissing,
         \/ \E rs, f : committed' = Leased(committed, rs, f) /\ current' = Leased(current, rs, f)
         \/ \E r : committed' = DeleteWork(committed, r) /\ current' = DeleteWork(current, r)
  PROVE  RetainsStep
<1>1. \A d \in Database : /\ \A rs, f : /\ Leased(d, rs, f).outbox = d.outbox
                                        /\ Leased(d, rs, f).inbox = d.inbox
                          /\ \A r : /\ DeleteWork(d, r).outbox = d.outbox
                                    /\ DeleteWork(d, r).inbox = d.inbox
  BY DEF Leased, DeleteWork, Database
<1>2. committed \in Database /\ current \in Database
  BY DEF IInv, TablesOK
<1> QED BY <1>1, <1>2, BothRetain

\* What a session does by itself.
LEMMA SessionRetains ==
  ASSUME IInv, NothingMissing, NEW s \in Session, SessionStep(s)
  PROVE  RetainsStep
<1>1. CASE LockForUpdate(s) \/ SubmitNoWallet(s) \/ CascadeFind(s) \/ CascadeNext(s)
  BY <1>1, BothRetain DEF LockForUpdate, SubmitNoWallet, CascadeFind, CascadeNext
<1>2. CASE SubmitMismatch(s) \/ SubmitReplay(s) \/ SubmitError(s) \/ CommitRefused(s)
             \/ DeadlockVictim(s) \/ \E expired \in BOOLEAN : ResumeClash(s, expired)
  <2>1. \E n : Rollback(s, n)
    BY <1>2 DEF SubmitMismatch, SubmitReplay, SubmitError, CommitRefused, DeadlockVictim,
                ResumeClash
  <2> QED BY <2>1, RollbackRetains
<1>3. CASE \/ SubmitApply(s)
           \/ \E expired \in BOOLEAN : ResumeSettle(s, expired) \/ ResumeError(s, expired)
  BY <1>3, ApplyRetains
<1>4. CASE Commit(s)
  BY <1>4, CommitRetains
<1>5. CASE WorkGet(s)
  <2>1. \/ UNCHANGED <<committed, current>>
        \/ \E r : committed' = DeleteWork(committed, r) /\ current' = DeleteWork(current, r)
    BY <1>5 DEF WorkGet
  <2> QED BY <2>1, BothRetain, WorkRowsRetain
<1> QED BY <1>1, <1>2, <1>3, <1>4, <1>5 DEF SessionStep

\* Every step.
LEMMA NextRetains == IInv /\ NothingMissing /\ [Next]_vars => RetainsStep
<1> SUFFICES ASSUME IInv, NothingMissing, [Next]_vars PROVE RetainsStep
  OBVIOUS
<1> USE DEF Session
<1>1. CASE UNCHANGED vars
  BY <1>1, BothRetain DEF vars
<1>2. ASSUME NEW w \in Wallet, OpenWallet(w) PROVE RetainsStep
  BY <1>2, OpenWalletRetains
<1>3. ASSUME NEW s \in Handler, NEW r \in Request, SubmitBegin(s, r) PROVE RetainsStep
  BY <1>3, BothRetain DEF SubmitBegin
<1>4. ASSUME NEW s \in Session, SessionStep(s) PROVE RetainsStep
  BY <1>4, SessionRetains
<1>5. ASSUME NEW s \in Worker, NEW rs, ClaimWork(s, rs) PROVE RetainsStep
  BY <1>5, WorkRowsRetain DEF ClaimWork
<1>6. ASSUME NEW s \in Session, TxFails(s) \/ Crash(s) PROVE RetainsStep
  BY <1>6, RollbackRetains DEF TxFails, Crash
<1>7. ASSUME NEW r \in Request, LeaseExpires(r) PROVE RetainsStep
  BY <1>7, WorkRowsRetain DEF LeaseExpires
<1> QED BY <1>1, <1>2, <1>3, <1>4, <1>5, <1>6, <1>7 DEF Next

\* No step takes back an event that the publisher may have sent, nor a message
\* id that a message with other content may have: with rollbacks, crashes and
\* commits of other wallets in between, committed outbox and inbox rows stay.
THEOREM EventsAreKept ==
  Spec => [][/\ committed.outbox \subseteq committed'.outbox
             /\ committed.inbox \subseteq committed'.inbox]_committed
<1>1. Init => IInv /\ NothingMissing
  BY InitOK DEF Init, NothingMissing, Retains
<1>2. IInv /\ NothingMissing /\ [Next]_vars =>
        /\ IInv' /\ NothingMissing'
        /\ [/\ committed.outbox \subseteq committed'.outbox
            /\ committed.inbox \subseteq committed'.inbox]_committed
  BY NextPreserves, NextRetains DEF RetainsStep, Retains
<1> QED BY <1>1, <1>2, PTL DEF Spec
=============================================================================
