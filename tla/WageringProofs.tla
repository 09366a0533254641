--------------------------- MODULE WageringProofs ---------------------------
(***************************************************************************)
(* Theorems of Wagering for every value of its constants, from the lemmas  *)
(* of WageringEffects: an inductive invariant, and what follows from it.   *)
(***************************************************************************)
EXTENDS WageringEffects

-----------------------------------------------------------------------------
(* The inductive invariant: both versions of the tables are typed and keep *)
(* DbInv, a session that works on an operation has one, and a session      *)
(* about to write still holds the wallet row it read.                      *)

SessionOK(n) ==
  /\ n \in SessionState
  /\ n.pc \in {"lock", "apply", "commit", "find"} => n.item.tx \in Request
  /\ \A i \in n.todo : i.tx \in Request

\* What the wallet of a session in "apply" is: locked, opened, as it was read.
Reserved(s) ==
  /\ lock[WalletOf(s)] = s
  /\ sess[s].wal = current.wallet[WalletOf(s)]
  /\ sess[s].wal.version > 0

LockOK ==
  /\ \A s \in Session : sess[s].pc = "apply" => Reserved(s)
  /\ \A w \in Wallet : lock[w] = None => current.wallet[w] = committed.wallet[w]
  /\ \A w \in Wallet : lock[w] # None =>
       WalletExists(committed, w) /\ WalletExists(current, w)

TablesOK ==
  /\ committed \in Database /\ DbInv(committed)
  /\ current \in Database /\ DbInv(current)

IInv ==
  /\ TablesOK
  /\ lock \in [Wallet -> Session \cup {None}]
  /\ sess \in [Session -> SessionState]
  /\ \A s \in Session : SessionOK(sess[s])
  /\ faults \in 0..MaxFaults
  /\ LockOK

\* A session that takes the place of s, not holding a row it has read.
Follows(n) == SessionOK(n) /\ n.pc # "apply"

\* The idle session is a legal successor.
LEMMA IdleOK == Follows(Idle)
<1>1. ItemOf(None) \in Item /\ NoWallet \in WalletRow
  BY ConstantsAssumption, InputFacts DEF ItemOf, Item, NoWallet, WalletRow, Amount
<1> QED BY <1>1 DEF Follows, SessionOK, Idle, SessionState

\* The item of a request is typed.
LEMMA ItemOfType ==
  ASSUME NEW r \in Request
  PROVE  ItemOf(r) \in Item /\ ItemOf(r).tx = r
BY ConstantsAssumption DEF ItemOf, Item

\* A session with what is left to do of a batch or of a cascade.
LEMMA NextOK ==
  ASSUME NEW op \in {"cascade", "work"}, NEW todo \in SUBSET Item,
         \A i \in todo : i.tx \in Request
  PROVE  Follows([Idle EXCEPT !.pc = "next", !.op = op, !.todo = todo])
<1>1. Idle \in SessionState
  BY IdleOK DEF Follows, SessionOK
<1> QED BY <1>1 DEF Follows, SessionOK, SessionState

\* The states after a transaction and after a resume are legal successors.
LEMMA AfterOK ==
  ASSUME IInv, NEW s \in Session
  PROVE  /\ Follows(AfterTx(s))
         /\ sess[s].pc = "apply" => Follows(AfterResume(s)) /\ Follows(Goto(s, "commit"))
<1>1. sess[s] \in SessionState /\ SessionOK(sess[s])
  BY DEF IInv
<1>2. sess[s].todo \in SUBSET Item /\ \A i \in sess[s].todo : i.tx \in Request
  BY <1>1 DEF SessionOK, SessionState
<1>3. Follows(AfterTx(s))
  BY <1>2, IdleOK, NextOK DEF AfterTx
<1>4. ASSUME sess[s].pc = "apply" PROVE Follows(Goto(s, "commit"))
  BY <1>1, <1>4 DEF Goto, Follows, SessionOK, SessionState
<1>5. ASSUME sess[s].pc = "apply" PROVE Follows(AfterResume(s))
  BY <1>2, <1>4, <1>5, NextOK DEF AfterResume
<1> QED BY <1>3, <1>4, <1>5

\* The view of a session is a database that keeps DbInv.
LEMMA ViewOK ==
  ASSUME IInv, NEW s \in Session
  PROVE  View(s) \in Database /\ DbInv(View(s)) /\ Held(s) \in SUBSET Wallet
BY MergeType, MergeInv DEF IInv, TablesOK, View, Held

\* A session changes alone, and keeps no wallet row.
LEMMA SessionStepOK ==
  ASSUME IInv, NEW s \in Session, NEW n, Follows(n),
         sess' = [sess EXCEPT ![s] = n]
  PROVE  /\ sess' \in [Session -> SessionState]
         /\ \A t \in Session : SessionOK(sess'[t])
         /\ \A t \in Session : sess'[t].pc = "apply" =>
              t # s /\ sess'[t] = sess[t] /\ Reserved(t)
BY DEF IInv, LockOK, Follows, SessionOK

\* A step of one session that touches neither tables nor locks.
LEMMA LocalStep ==
  ASSUME IInv, NEW s \in Session, NEW n, Follows(n),
         sess' = [sess EXCEPT ![s] = n],
         UNCHANGED <<committed, current, lock, faults>>
  PROVE  IInv'
<1>1. \A t \in Session : sess'[t].pc = "apply" => Reserved(t)'
  BY SessionStepOK, ZenonT(40) DEF Reserved, WalletOf
<1> QED BY <1>1, SessionStepOK DEF IInv, TablesOK, LockOK, WalletExists

\* A rollback, whatever the reason.
LEMMA RollbackStep ==
  ASSUME IInv, NEW s \in Session, NEW n, Follows(n), Rollback(s, n),
         faults' \in 0..MaxFaults
  PROVE  IInv'
<1>1. /\ committed' = committed
      /\ current' = Merge(current, committed, Held(s))
      /\ lock' = Release(s)
      /\ sess' = [sess EXCEPT ![s] = n]
  BY DEF Rollback
<1>2. TablesOK'
  BY <1>1, MergeType, MergeInv, ViewOK DEF IInv, TablesOK
<1>3. \A w \in Wallet : /\ lock'[w] = IF lock[w] = s THEN None ELSE lock[w]
                        /\ current'.wallet[w] = IF lock[w] = s
                             THEN committed.wallet[w] ELSE current.wallet[w]
  BY <1>1 DEF Release, Merge, Held
<1>4. \A t \in Session : sess'[t].pc = "apply" => Reserved(t)'
  <2> SUFFICES ASSUME NEW t \in Session, sess'[t].pc = "apply"
               PROVE  Reserved(t)'
    OBVIOUS
  <2>1. t # s /\ sess'[t] = sess[t] /\ Reserved(t)
    BY <1>1, SessionStepOK
  <2>2. WalletOf(t) \in Wallet /\ WalletOf(t)' = WalletOf(t)
    BY <2>1, InputFacts DEF WalletOf, IInv, SessionOK
  <2> QED BY <1>3, <2>1, <2>2 DEF Reserved
<1>5. LockOK'
  BY <1>1, <1>3, <1>4 DEF IInv, LockOK, WalletExists
<1>6. lock' \in [Wallet -> Session \cup {None}]
  BY <1>1 DEF IInv, Release
<1> QED BY <1>1, <1>2, <1>5, <1>6, SessionStepOK DEF IInv

\* The statements of a session that holds its locks.
LEMMA WriteStep ==
  ASSUME IInv, NEW s \in Session, NEW n, Follows(n),
         NEW d \in Database, DbInv(d), Keeps(View(s), d), Write(s, d),
         sess' = [sess EXCEPT ![s] = n],
         UNCHANGED <<committed, lock, faults>>
  PROVE  IInv'
<1>1. current' = Merge(current, d, Held(s))
  BY DEF Write
<1>2. TablesOK'
  BY <1>1, MergeType, MergeInv, ViewOK DEF IInv, TablesOK
<1>3. \A w \in Wallet : lock[w] # s => current'.wallet[w] = current.wallet[w]
  BY <1>1 DEF Merge, Held
<1>4. \A t \in Session : sess'[t].pc = "apply" => Reserved(t)'
  <2> SUFFICES ASSUME NEW t \in Session, sess'[t].pc = "apply"
               PROVE  Reserved(t)'
    OBVIOUS
  <2>1. t # s /\ sess'[t] = sess[t] /\ Reserved(t)
    BY SessionStepOK
  <2>2. WalletOf(t) \in Wallet /\ WalletOf(t)' = WalletOf(t)
    BY <2>1, InputFacts DEF WalletOf, IInv, SessionOK
  <2> QED BY <1>3, <2>1, <2>2 DEF Reserved
<1>5. \A w \in Wallet : lock[w] # None => WalletExists(current', w)
  <2> SUFFICES ASSUME NEW w \in Wallet, lock[w] # None
               PROVE  WalletExists(current', w)
    OBVIOUS
  <2>1. WalletExists(current, w)
    BY DEF IInv, LockOK
  <2>2. CASE lock[w] = s
    <3>1. View(s).wallet[w] = current.wallet[w] /\ current'.wallet[w] = d.wallet[w]
      BY <1>1, <2>2 DEF View, Merge, Held
    <3> QED BY <2>1, <3>1 DEF Keeps, WalletExists
  <2>3. CASE lock[w] # s
    BY <1>3, <2>1, <2>3 DEF WalletExists
  <2> QED BY <2>2, <2>3
<1>6. LockOK'
  BY <1>3, <1>4, <1>5, ConstantsAssumption DEF IInv, LockOK, WalletExists
<1> QED BY <1>2, <1>6, SessionStepOK DEF IInv

\* A step that changes nothing of the tables but work rows.
LEMMA WorkStep ==
  ASSUME IInv,
         committed' \in Database, DbInv(committed'),
         current' \in Database, DbInv(current'),
         committed'.wallet = committed.wallet, current'.wallet = current.wallet,
         sess' \in [Session -> SessionState],
         \A t \in Session : SessionOK(sess'[t]),
         \A t \in Session : sess'[t].pc = "apply" => sess'[t] = sess[t],
         UNCHANGED <<lock, faults>>
  PROVE  IInv'
<1>1. LockOK'
  BY DEF IInv, LockOK, Reserved, WalletOf, WalletExists
<1> QED BY <1>1 DEF IInv, TablesOK

-----------------------------------------------------------------------------
(* The actions. *)

\* The empty tables, free locks and idle sessions satisfy the invariant.
LEMMA InitOK == Init => IInv
<1> SUFFICES ASSUME Init PROVE IInv
  OBVIOUS
<1> DEFINE e == EmptyDatabase
<1>1. 0 \in Amount
  BY InputFacts DEF Amount
<1>2. NoTx \in TxRow /\ NoWallet \in WalletRow
  BY <1>1 DEF NoTx, TxRow, NoWallet, WalletRow
<1>3. e \in Database
  BY <1>2, NoWorkType DEF EmptyDatabase, Database
<1>4. DbInv(e)
  <2>1. \A w \in Wallet : e.wallet[w] = NoWallet /\ EntriesOf(e, w) = {}
    BY DEF EmptyDatabase, EntriesOf
  <2>2. \A w \in Wallet : Chain(NoWallet, {}, FirstVersion(w))
    BY DEF Chain, NoWallet, FirstVersion
  <2>3. \A w \in Wallet : Chained(e, w)
    BY <2>1, <2>2 DEF Chained
  <2>4. e.ledger = {}
    BY DEF EmptyDatabase
  <2> QED BY <2>3, <2>4 DEF DbInv, Owned, MovedOnce
<1> HIDE DEF e
<1>5. committed = e /\ current = e
  BY DEF Init, e
<1>6. \A s \in Session : sess[s] = Idle
  BY DEF Init
<1>7. LockOK
  BY <1>5, <1>6 DEF Init, LockOK, Idle
<1>8. sess \in [Session -> SessionState] /\ \A s \in Session : SessionOK(sess[s])
  BY IdleOK DEF Init, Follows, SessionOK
<1>9. faults \in 0..MaxFaults
  BY ConstantsAssumption DEF Init
<1> QED BY <1>3, <1>4, <1>5, <1>7, <1>8, <1>9 DEF Init, IInv, TablesOK

\* OpenWallet starts the chain of its wallet and keeps the invariant.
LEMMA OpenWalletStep ==
  ASSUME IInv, NEW w \in Wallet, OpenWallet(w)
  PROVE  IInv'
<1>1. lock[w] = None
  BY DEF IInv, LockOK, OpenWallet
<1>2. ~WalletExists(committed, w) /\ ~WalletExists(current, w)
  BY <1>1 DEF IInv, LockOK, OpenWallet, WalletExists
<1>3. /\ committed' = Opened(committed, w)
      /\ current' = Opened(current, w)
      /\ UNCHANGED <<lock, sess, faults>>
  BY DEF OpenWallet
<1>4. TablesOK'
  BY <1>2, <1>3, OpenedType, OpenedInv DEF IInv, TablesOK
<1> DEFINE row == [balance |-> Opening[w].amount, version |-> 1]
<1>5. /\ committed'.wallet = [committed.wallet EXCEPT ![w] = row]
      /\ current'.wallet = [current.wallet EXCEPT ![w] = row]
      /\ row.version = 1
  BY <1>3 DEF Opened, IInv, TablesOK, Database
<1> HIDE DEF row
<1>6. \A s \in Session : sess[s].pc = "apply" => Reserved(s)'
  <2> SUFFICES ASSUME NEW s \in Session, sess[s].pc = "apply" PROVE Reserved(s)'
    OBVIOUS
  <2>1. Reserved(s) /\ WalletOf(s) \in Wallet
    BY InputFacts, SMTT(30) DEF IInv, LockOK, SessionOK, WalletOf
  <2>2. WalletOf(s) # w /\ WalletOf(s)' = WalletOf(s)
    BY <1>1, <1>3, <2>1, ConstantsAssumption DEF Reserved, WalletOf
  <2>3. current'.wallet[WalletOf(s)] = current.wallet[WalletOf(s)]
    BY <1>5, <2>1, <2>2 DEF IInv, TablesOK, Database
  <2> QED BY <1>3, <2>1, <2>2, <2>3 DEF Reserved
<1>7. LockOK'
  BY <1>3, <1>5, <1>6 DEF IInv, LockOK, WalletExists, TablesOK, Database
<1> QED BY <1>3, <1>4, <1>7 DEF IInv

\* The arrival of a request keeps the invariant.
LEMMA SubmitBeginStep ==
  ASSUME IInv, NEW s \in Session, NEW r \in Request, SubmitBegin(s, r)
  PROVE  IInv'
<1> DEFINE n == [Idle EXCEPT !.pc = "lock", !.op = "submit", !.item = ItemOf(r)]
<1>1. Follows(n)
  BY IdleOK, ItemOfType DEF Follows, SessionOK, SessionState, Idle
<1>2. /\ sess' = [sess EXCEPT ![s] = n]
      /\ UNCHANGED <<committed, current, lock, faults>>
  BY DEF SubmitBegin
<1> HIDE DEF n
<1> QED BY <1>1, <1>2, LocalStep

\* LockForUpdate reads the wallet row that its lock then protects.
LEMMA LockForUpdateStep ==
  ASSUME IInv, NEW s \in Session, LockForUpdate(s)
  PROVE  IInv'
<1> DEFINE w == WalletOf(s)
           row == View(s).wallet[w]
           n == [sess[s] EXCEPT !.pc = "apply", !.wal = row]
<1>1. sess[s] \in SessionState /\ SessionOK(sess[s]) /\ sess[s].pc = "lock"
  BY DEF IInv, LockForUpdate
<1>2. sess[s].item.tx \in Request /\ w \in Wallet
  BY <1>1, InputFacts DEF SessionOK, WalletOf
<1>3. /\ WalletExists(committed, w)
      /\ lock[w] \in {None, s}
      /\ lock' = [lock EXCEPT ![w] = s]
      /\ sess' = [sess EXCEPT ![s] = n]
      /\ UNCHANGED <<committed, current, faults>>
  BY DEF LockForUpdate, LockFree
<1>4. row = current.wallet[w]
  <2>1. row = IF lock[w] = s THEN current.wallet[w] ELSE committed.wallet[w]
    BY <1>2 DEF View, Merge, Held
  <2> QED BY <1>2, <1>3, <2>1 DEF IInv, LockOK
<1>5. row.version > 0
  <2>2. CASE lock[w] = None
    BY <1>2, <1>3, <1>4, <2>2 DEF IInv, LockOK, WalletExists
  <2>3. CASE lock[w] = s
    BY <1>2, <1>3, <1>4, <2>3 DEF IInv, LockOK, WalletExists
  <2> QED BY <1>3, <2>2, <2>3
<1>6. row \in WalletRow
  BY <1>2, <1>4 DEF IInv, TablesOK, Database
<1>7. n \in SessionState /\ n.pc = "apply" /\ n.item = sess[s].item
        /\ n.wal = row /\ n.todo = sess[s].todo
  BY <1>1, <1>6 DEF SessionState
<1> HIDE DEF n, row
<1>8. SessionOK(n)
  BY <1>1, <1>2, <1>7 DEF SessionOK
<1>9. \A t \in Session : sess'[t].pc = "apply" => Reserved(t)'
  <2> SUFFICES ASSUME NEW t \in Session, sess'[t].pc = "apply"
               PROVE  Reserved(t)'
    OBVIOUS
  <2>1. CASE t = s
    <3>1. sess'[t] = n /\ WalletOf(t)' = w
      BY <1>3, <1>7, <2>1 DEF IInv, WalletOf
    <3> QED BY <1>2, <1>3, <1>4, <1>5, <1>7, <2>1, <3>1 DEF Reserved, IInv
  <2>2. CASE t # s
    <3>1. sess'[t] = sess[t] /\ Reserved(t)
      BY <1>3, <2>2, SMTT(30) DEF IInv, LockOK
    <3>2. WalletOf(t) # w /\ WalletOf(t)' = WalletOf(t)
      BY <1>3, <2>2, <3>1, ConstantsAssumption DEF Reserved, WalletOf
    <3> QED BY <1>2, <1>3, <3>1, <3>2 DEF Reserved, IInv
  <2> QED BY <2>1, <2>2
<1>10. LockOK'
  BY <1>2, <1>3, <1>9, ConstantsAssumption DEF IInv, LockOK, WalletExists
<1> QED
  BY <1>2, <1>3, <1>7, <1>8, <1>10 DEF IInv, TablesOK

\* A session in "apply" has an operation, and the wallet row in its view.
LEMMA ApplyFacts ==
  ASSUME IInv, NEW s \in Session, sess[s].pc = "apply"
  PROVE  /\ sess[s].item \in Item /\ sess[s].item.tx \in Request
         /\ sess[s].wal \in WalletRow /\ sess[s].wal.version > 0
         /\ sess[s].wal = View(s).wallet[WalletOf(s)]
         /\ View(s) \in Database /\ DbInv(View(s))
<1>1. sess[s] \in SessionState /\ SessionOK(sess[s]) /\ Reserved(s)
  BY DEF IInv, LockOK
<1>2. sess[s].item.tx \in Request /\ WalletOf(s) \in Wallet
  BY <1>1, InputFacts DEF SessionOK, WalletOf
<1>3. View(s).wallet[WalletOf(s)] = current.wallet[WalletOf(s)]
  BY <1>1, <1>2 DEF View, Merge, Held, Reserved
<1> QED BY <1>1, <1>2, <1>3, ViewOK DEF Reserved, SessionState

\* A first submission writes under the lock it holds.
LEMMA SubmitApplyStep ==
  ASSUME IInv, NEW s \in Session, SubmitApply(s)
  PROVE  IInv'
<1> DEFINE r == sess[s].item.tx
           row == sess[s].wal
           d == View(s)
           v == applyOperation(d, row, r)
           x == Accept(d, row, r, v)
<1>1. sess[s].pc = "apply" /\ Priors(d, r) = {}
  BY DEF SubmitApply, Fresh, Submitting
<1>2. /\ r \in Request /\ row \in WalletRow /\ row.version > 0
      /\ row = d.wallet[Input[r].wallet] /\ d \in Database /\ DbInv(d)
  BY <1>1, ApplyFacts DEF WalletOf
<1>3. /\ Write(s, x)
      /\ sess' = [sess EXCEPT ![s] = Goto(s, "commit")]
      /\ UNCHANGED <<committed, lock, faults>>
  BY DEF SubmitApply
<1> HIDE DEF d, r, row
<1>4. ~Present(d, r)
  BY <1>1, <1>2 DEF Priors, FindByProviderKey
<1>5. \A e \in d.ledger : e.tx # r
  BY <1>2, <1>4 DEF DbInv, Owned
<1>6. Sound(v, row, r)
  BY <1>2, SoundVerdicts
<1> HIDE DEF v
<1>7. x \in Database /\ DbInv(x) /\ Keeps(d, x)
  BY <1>2, <1>5, <1>6, AcceptType, AcceptInv, EffectsKeep
<1> HIDE DEF x
<1>8. Follows(Goto(s, "commit"))
  BY <1>1, AfterOK
<1> QED BY <1>3, <1>7, <1>8, WriteStep DEF d

\* A resume of a parked operation writes under the lock it holds.
LEMMA ResumeSettleStep ==
  ASSUME IInv, NEW s \in Session, NEW expired \in BOOLEAN, ResumeSettle(s, expired)
  PROVE  IInv'
<1> DEFINE r == sess[s].item.tx
           row == sess[s].wal
           d == View(s)
           v == resumeOne(d, row, r, expired)
           x == Settle(d, row, r, v)
<1>1. sess[s].pc = "apply"
  BY DEF ResumeSettle, Resuming
<1>2. /\ r \in Request /\ row \in WalletRow /\ row.version > 0
      /\ row = d.wallet[Input[r].wallet] /\ d \in Database /\ DbInv(d)
  BY <1>1, ApplyFacts DEF WalletOf
<1>3. /\ ~LedgerClash(d, r, v)
      /\ Write(s, x)
      /\ sess' = [sess EXCEPT ![s] = AfterResume(s)]
      /\ UNCHANGED <<committed, lock, faults>>
  BY DEF ResumeSettle
<1> HIDE DEF d, r, row
<1>4. Sound(v, row, r)
  BY <1>2, SoundVerdicts
<1> HIDE DEF v
<1>5. x \in Database /\ DbInv(x) /\ Keeps(d, x)
  BY <1>2, <1>3, <1>4, SettleType, SettleInv, EffectsKeep
<1> HIDE DEF x
<1>6. Follows(AfterResume(s))
  BY <1>1, AfterOK
<1> QED BY <1>3, <1>5, <1>6, WriteStep DEF d

\* A resume that errs writes at most its work row and FAILED.
LEMMA ResumeErrorStep ==
  ASSUME IInv, NEW s \in Session, NEW expired \in BOOLEAN, ResumeError(s, expired)
  PROVE  IInv'
<1>1. /\ sess[s].pc = "apply"
      /\ sess' = [sess EXCEPT ![s] = AfterResume(s)]
      /\ UNCHANGED <<committed, lock, faults>>
      /\ Write(s, noteInfra(View(s), sess[s].item)) \/ current' = current
  BY DEF ResumeError, Resuming
<1>2. Follows(AfterResume(s))
  BY <1>1, AfterOK
<1>3. CASE current' = current
  BY <1>1, <1>2, <1>3, LocalStep
<1>4. CASE Write(s, noteInfra(View(s), sess[s].item))
  <2> DEFINE x == noteInfra(View(s), sess[s].item)
  <2>1. x \in Database /\ DbInv(x) /\ Keeps(View(s), x)
    BY <1>1, ApplyFacts, noteInfraType, noteInfraInv, noteInfraKeeps
  <2> HIDE DEF x
  <2>2. Write(s, x)
    BY <1>4 DEF x
  <2> QED BY <1>1, <1>2, <2>1, <2>2, WriteStep
<1> QED BY <1>1, <1>3, <1>4

\* A commit publishes whole wallets, so their chains stay whole.
LEMMA CommitStep ==
  ASSUME IInv, NEW s \in Session, Commit(s)
  PROVE  IInv'
<1>1. /\ committed' = Merge(committed, current, Held(s))
      /\ lock' = Release(s)
      /\ sess' = [sess EXCEPT ![s] = AfterCommit(s)]
      /\ UNCHANGED <<current, faults>>
      /\ sess[s].pc = "commit"
  BY DEF Commit
<1>2. Follows(AfterCommit(s))
  <2>1. sess[s] \in SessionState /\ sess[s].item.tx \in Request
    BY <1>1 DEF IInv, SessionOK
  <2>2. Follows([Idle EXCEPT !.pc = "find", !.op = "cascade", !.item = sess[s].item])
    BY <2>1, IdleOK DEF Follows, SessionOK, SessionState, Idle
  <2> QED BY <2>2, AfterOK DEF AfterCommit
<1>3. TablesOK'
  BY <1>1, MergeType, MergeInv, ViewOK DEF IInv, TablesOK
<1>4. \A w \in Wallet : /\ lock'[w] = IF lock[w] = s THEN None ELSE lock[w]
                        /\ committed'.wallet[w] = IF lock[w] = s
                             THEN current.wallet[w] ELSE committed.wallet[w]
  BY <1>1 DEF Release, Merge, Held
<1>5. \A t \in Session : sess'[t].pc = "apply" => Reserved(t)'
  <2> SUFFICES ASSUME NEW t \in Session, sess'[t].pc = "apply"
               PROVE  Reserved(t)'
    OBVIOUS
  <2>1. t # s /\ sess'[t] = sess[t] /\ Reserved(t)
    BY <1>1, <1>2, SessionStepOK
  <2>2. WalletOf(t) \in Wallet /\ WalletOf(t)' = WalletOf(t)
    BY <2>1, InputFacts DEF WalletOf, IInv, SessionOK
  <2> QED BY <1>1, <1>4, <2>1, <2>2 DEF Reserved
<1>6. LockOK'
  BY <1>1, <1>4, <1>5 DEF IInv, LockOK, WalletExists
<1>7. lock' \in [Wallet -> Session \cup {None}]
  BY <1>1 DEF IInv, Release
<1> QED BY <1>1, <1>2, <1>3, <1>6, <1>7, SessionStepOK DEF IInv

\* Finding the dependents of a BET keeps the invariant.
LEMMA CascadeFindStep ==
  ASSUME IInv, NEW s \in Session, CascadeFind(s)
  PROVE  IInv'
<1> DEFINE deps == {q \in FindDependents(committed, sess[s].item.tx) :
                      committed.tx[q].state = "PENDING_REFERENCE"}
           todo == {ItemOf(q) : q \in deps}
           n == IF deps = {} THEN Idle
                ELSE [Idle EXCEPT !.pc = "next", !.op = "cascade", !.todo = todo]
<1>1. /\ sess' = [sess EXCEPT ![s] = n]
      /\ UNCHANGED <<committed, current, lock, faults>>
  BY DEF CascadeFind
<1>2. todo \in SUBSET Item /\ \A i \in todo : i.tx \in Request
  BY ItemOfType DEF FindDependents
<1> HIDE DEF todo
<1>3. Follows(n)
  BY <1>2, IdleOK, NextOK
<1> HIDE DEF n
<1> QED BY <1>1, <1>3, LocalStep

\* Taking the next dependent keeps the invariant.
LEMMA CascadeNextStep ==
  ASSUME IInv, NEW s \in Session, CascadeNext(s)
  PROVE  IInv'
<1>1. PICK i \in sess[s].todo :
        sess' = [sess EXCEPT ![s] = [sess[s] EXCEPT !.pc = "lock", !.item = i,
                                                    !.todo = sess[s].todo \ {i}]]
  BY DEF CascadeNext, IInv
<1> DEFINE n == [sess[s] EXCEPT !.pc = "lock", !.item = i, !.todo = sess[s].todo \ {i}]
<1>2. Follows(n)
  BY DEF Follows, SessionOK, SessionState, IInv
<1>3. UNCHANGED <<committed, current, lock, faults>>
  BY DEF CascadeNext
<1> HIDE DEF n
<1> QED BY <1>1, <1>2, <1>3, LocalStep DEF n

\* Leases change nothing else of the tables.
LEMMA LeasedFacts ==
  ASSUME IInv, NEW rs, NEW leased \in BOOLEAN
  PROVE  /\ Leased(committed, rs, leased) \in Database
         /\ DbInv(Leased(committed, rs, leased))
         /\ Leased(committed, rs, leased).wallet = committed.wallet
         /\ Leased(current, rs, leased) \in Database
         /\ DbInv(Leased(current, rs, leased))
         /\ Leased(current, rs, leased).wallet = current.wallet
<1>1. \A d \in Database : Leased(d, rs, leased).wallet = d.wallet
  BY DEF Leased, Database
<1> QED BY <1>1, LeasedType, LeasedInv DEF IInv, TablesOK

\* Claiming a batch of work rows keeps the invariant.
LEMMA ClaimWorkStep ==
  ASSUME IInv, NEW s \in Session, NEW rs \in SUBSET Request, ClaimWork(s, rs)
  PROVE  IInv'
<1> DEFINE todo == {[tx |-> r, ref |-> committed.work[r].ref,
                     infra |-> committed.work[r].infra] : r \in rs}
           n == [Idle EXCEPT !.pc = "next", !.op = "work", !.todo = todo]
<1>1. /\ committed' = Leased(committed, rs, TRUE)
      /\ current' = Leased(current, rs, TRUE)
      /\ sess' = [sess EXCEPT ![s] = n]
      /\ UNCHANGED <<lock, faults>>
  BY DEF ClaimWork
<1>2. todo \in SUBSET Item /\ \A i \in todo : i.tx \in Request
  BY DEF IInv, TablesOK, Database, WorkRow, Item
<1> HIDE DEF todo
<1>3. Follows(n)
  BY <1>2, NextOK
<1> HIDE DEF n
<1>4. /\ sess' \in [Session -> SessionState]
      /\ \A t \in Session : SessionOK(sess'[t])
      /\ \A t \in Session : sess'[t].pc = "apply" => sess'[t] = sess[t]
  BY <1>1, <1>3, SessionStepOK
<1> QED BY <1>1, <1>4, LeasedFacts, WorkStep

\* A lease that runs out keeps the invariant.
LEMMA LeaseExpiresStep ==
  ASSUME IInv, NEW r \in Request, LeaseExpires(r)
  PROVE  IInv'
<1>1. /\ committed' = Leased(committed, {r}, FALSE)
      /\ current' = Leased(current, {r}, FALSE)
      /\ UNCHANGED <<lock, sess, faults>>
  BY DEF LeaseExpires
<1>2. /\ sess' \in [Session -> SessionState]
      /\ \A t \in Session : SessionOK(sess'[t])
      /\ \A t \in Session : sess'[t].pc = "apply" => sess'[t] = sess[t]
  BY <1>1 DEF IInv
<1> QED BY <1>1, <1>2, LeasedFacts, WorkStep

\* Reading the row of a claimed item keeps the invariant.
LEMMA WorkGetStep ==
  ASSUME IInv, NEW s \in Session, WorkGet(s)
  PROVE  IInv'
<1>1. PICK i \in sess[s].todo :
        LET rest == [sess[s] EXCEPT !.todo = @ \ {i}]
        IN IF IsTerminal(committed.tx[i.tx].state)
             THEN /\ committed' = DeleteWork(committed, i.tx)
                  /\ current' = DeleteWork(current, i.tx)
                  /\ sess' = [sess EXCEPT ![s] =
                       IF rest.todo = {} THEN Idle ELSE rest]
             ELSE /\ sess' = [sess EXCEPT ![s] =
                       [rest EXCEPT !.pc = "lock", !.item = i]]
                  /\ UNCHANGED <<committed, current>>
  BY DEF WorkGet
<1> DEFINE rest == [sess[s] EXCEPT !.todo = @ \ {i}]
           next == IF rest.todo = {} THEN Idle ELSE rest
           locking == [rest EXCEPT !.pc = "lock", !.item = i]
<1>2. UNCHANGED <<lock, faults>> /\ sess[s].pc = "next"
  BY DEF WorkGet
<1>3. sess[s] \in SessionState /\ SessionOK(sess[s]) /\ i \in Item /\ i.tx \in Request
  BY DEF IInv, SessionOK, SessionState
<1>4. /\ rest \in SessionState /\ rest.pc = "next"
      /\ rest.todo \subseteq sess[s].todo
  BY <1>2, <1>3 DEF SessionState
<1> HIDE DEF rest
<1>5. Follows(next) /\ Follows(locking)
  <2>1. Follows(rest)
    BY <1>3, <1>4 DEF Follows, SessionOK
  <2>2. Follows(next)
    BY <2>1, IdleOK
  <2>3. Follows(locking)
    <3>1. locking \in SessionState
      BY <1>3, <1>4 DEF SessionState
    <3>2. locking.pc = "lock" /\ locking.item = i /\ locking.todo = rest.todo
      BY <1>4 DEF SessionState
    <3> HIDE DEF locking
    <3> QED  BY <1>3, <1>4, <3>1, <3>2 DEF Follows, SessionOK
  <2> QED  BY <2>2, <2>3
<1> HIDE DEF next, locking
<1>6. CASE IsTerminal(committed.tx[i.tx].state)
  <2>1. /\ committed' = DeleteWork(committed, i.tx)
        /\ current' = DeleteWork(current, i.tx)
        /\ sess' = [sess EXCEPT ![s] = next]
    BY <1>1, <1>6 DEF next, rest
  <2>2. /\ sess' \in [Session -> SessionState]
        /\ \A t \in Session : SessionOK(sess'[t])
        /\ \A t \in Session : sess'[t].pc = "apply" => sess'[t] = sess[t]
    BY <1>5, <2>1, SessionStepOK
  <2>3. /\ committed' \in Database /\ DbInv(committed')
        /\ current' \in Database /\ DbInv(current')
        /\ committed'.wallet = committed.wallet /\ current'.wallet = current.wallet
    BY <1>3, <2>1, DeleteWorkType, DeleteWorkInv, DeleteWorkKeeps DEF IInv, TablesOK
  <2> QED BY <1>2, <2>2, <2>3, WorkStep
<1>7. CASE ~IsTerminal(committed.tx[i.tx].state)
  <2>1. sess' = [sess EXCEPT ![s] = locking] /\ UNCHANGED <<committed, current>>
    BY <1>1, <1>7 DEF locking, rest
  <2> QED BY <1>2, <1>5, <2>1, LocalStep
<1> QED BY <1>6, <1>7

\* Every step that ends a transaction without keeping anything of it.
LEMMA AbortStep ==
  ASSUME IInv, NEW s \in Session,
         Rollback(s, Idle) \/ Rollback(s, AfterTx(s)), faults' \in 0..MaxFaults
  PROVE  IInv'
BY IdleOK, AfterOK, RollbackStep

\* Every step that a session takes by itself keeps the invariant.
LEMMA SessionStepPreserves ==
  ASSUME IInv, NEW s \in Session, SessionStep(s)
  PROVE  IInv'
<1>1. CASE LockForUpdate(s)
  BY <1>1, LockForUpdateStep
<1>2. CASE SubmitNoWallet(s)
  BY <1>2, IdleOK, LocalStep DEF SubmitNoWallet
<1>3. CASE SubmitMismatch(s)
  BY <1>3, AbortStep DEF SubmitMismatch, IInv
<1>4. CASE SubmitReplay(s)
  BY <1>4, AbortStep DEF SubmitReplay, IInv
<1>5. CASE SubmitError(s)
  BY <1>5, AbortStep DEF SubmitError, IInv
<1>6. CASE SubmitApply(s)
  BY <1>6, SubmitApplyStep
<1>7. CASE Commit(s)
  BY <1>7, CommitStep
<1>8. CASE CommitRefused(s)
  BY <1>8, AbortStep DEF CommitRefused, IInv
<1>9. CASE CascadeFind(s)
  BY <1>9, CascadeFindStep
<1>10. CASE CascadeNext(s)
  BY <1>10, CascadeNextStep
<1>11. CASE WorkGet(s)
  BY <1>11, WorkGetStep
<1>12. CASE \E expired \in BOOLEAN : ResumeSettle(s, expired)
  BY <1>12, ResumeSettleStep
<1>13. CASE \E expired \in BOOLEAN : ResumeClash(s, expired)
  BY <1>13, AbortStep DEF ResumeClash, IInv
<1>14. CASE \E expired \in BOOLEAN : ResumeError(s, expired)
  BY <1>14, ResumeErrorStep
<1>15. CASE DeadlockVictim(s)
  BY <1>15, AbortStep DEF DeadlockVictim, IInv
<1> QED
  BY <1>1, <1>2, <1>3, <1>4, <1>5, <1>6, <1>7, <1>8, <1>9, <1>10, <1>11,
     <1>12, <1>13, <1>14, <1>15 DEF SessionStep

\* Every step keeps the invariant.
LEMMA NextPreserves == IInv /\ [Next]_vars => IInv'
<1> SUFFICES ASSUME IInv, [Next]_vars PROVE IInv'
  OBVIOUS
<1> USE DEF Session
<1>1. CASE UNCHANGED vars
  BY <1>1 DEF vars, IInv, TablesOK, LockOK, Reserved, WalletOf, WalletExists
<1>2. ASSUME NEW w \in Wallet, OpenWallet(w) PROVE IInv'
  BY <1>2, OpenWalletStep
<1>3. ASSUME NEW s \in Handler, NEW r \in Request, SubmitBegin(s, r) PROVE IInv'
  BY <1>3, SubmitBeginStep
<1>4. ASSUME NEW s \in Session, SessionStep(s) PROVE IInv'
  BY <1>4, SessionStepPreserves
<1>5. ASSUME NEW s \in Worker, NEW rs \in SUBSET Request, ClaimWork(s, rs)
      PROVE  IInv'
  BY <1>5, ClaimWorkStep
<1>6. ASSUME NEW s \in Worker, TxFails(s) PROVE IInv'
  <2>1. faults' \in 0..MaxFaults
    BY <1>6, ConstantsAssumption DEF TxFails, IInv
  <2> QED BY <1>6, <2>1, AbortStep DEF TxFails
<1>7. ASSUME NEW s \in Session, Crash(s) PROVE IInv'
  <2>1. faults' \in 0..MaxFaults
    BY <1>7, ConstantsAssumption DEF Crash, IInv
  <2> QED BY <1>7, <2>1, AbortStep DEF Crash
<1>8. ASSUME NEW r \in Request, LeaseExpires(r) PROVE IInv'
  BY <1>8, LeaseExpiresStep
<1> QED
  BY <1>1, <1>2, <1>3, <1>4, <1>5, <1>6, <1>7, <1>8 DEF Next

-----------------------------------------------------------------------------
(* The theorems. *)

\* The inductive invariant holds in every reachable state.
THEOREM Invariance == Spec => []IInv
<1> QED BY InitOK, NextPreserves, PTL DEF Spec

\* Rows, locks and sessions always have their types; in particular no debit
\* leaves a negative balance and no credit a balance beyond MaxMoney.
THEOREM TypeCorrect == Spec => []TypeOK
<1>1. IInv => TypeOK
  BY DEF IInv, TablesOK, TypeOK
<1> QED BY <1>1, Invariance, PTL

\* However submits, cascades, workers, faults and retries interleave, the
\* committed ledger of every wallet is one chain from zero to its balance.
THEOREM LedgerIsChained == Spec => []LedgerChain
<1>1. IInv => LedgerChain
  BY DEF IInv, TablesOK, DbInv, LedgerChain
<1> QED BY <1>1, Invariance, PTL

\* No request moves money twice, although the row of a parked operation is
\* not read again once its wallet is locked.
THEOREM MovesAtMostOnce == Spec => []OneMovementPerTransaction
<1>1. IInv => OneMovementPerTransaction
  BY DEF IInv, TablesOK, DbInv, MovedOnce, OneMovementPerTransaction
<1> QED BY <1>1, Invariance, PTL
=============================================================================
