----------------------------- MODULE LedgerReads -----------------------------
(***************************************************************************)
(* The read side of the ledger, internal/wagering/reconcile.go: clients    *)
(* list the ledger of a wallet page by page and reconcile its balance      *)
(* while operations keep moving it.                                        *)
(*                                                                         *)
(* The database is what Account says of it: the balances of each wallet by *)
(* version.  The ledger entry of version v goes from balance v - 1 to      *)
(* balance v; an opening with zero has no entry.  A commit that writes     *)
(* several versions is several steps here, with nothing read in between.   *)
(*                                                                         *)
(* No read keeps a lock.  Paging runs each statement on its own snapshot   *)
(* (READ COMMITTED); Reconcile runs in REPEATABLE READ, where the first    *)
(* statement fixes what the second one sees.                               *)
(***************************************************************************)
EXTENDS Account, Money, FiniteSets

CONSTANTS
  Reader,          \* clients of the read routes
  DefaultLimit,    \* LedgerDefaultLimit
  MaxLimit,        \* LedgerMaxLimit
  RawLimit,        \* limits that clients ask for; 0 is no limit given
  MaxBalance,      \* bound on balances
  MaxVersion       \* bound on the versions of a wallet

ASSUME ReadsAssumption ==
  /\ DefaultLimit \in Nat \ {0}
  /\ MaxLimit \in Nat \ {0}
  /\ RawLimit \subseteq Int
  /\ MaxBalance \in 1..(Half - 1)
  /\ MaxVersion \in Nat

VARIABLES
  reading,         \* the request each client has at the service
  listing          \* what each client has received of each ledger

readsVars == <<history, reading, listing>>

-----------------------------------------------------------------------------
(* The rows of a wallet whose balances are h. *)

FirstEntry(h) == IF h[1] = 0 THEN 2 ELSE 1

Versions(h) == IF h = <<>> THEN {} ELSE FirstEntry(h)..Len(h)

BalanceBefore(h, v) == IF v = 1 THEN 0 ELSE h[v - 1]

IsCredit(h, v) == h[v] > BalanceBefore(h, v)

\* The positive amount of entry v.
AmountOf(h, v) ==
  IF IsCredit(h, v) THEN h[v] - BalanceBefore(h, v) ELSE BalanceBefore(h, v) - h[v]

-----------------------------------------------------------------------------
(* Pages. *)

\* The n smallest versions of vs: ORDER BY wallet_version ASC LIMIT n, and
\* also the slice rows[:n].
Oldest(vs, n) == {v \in vs : Cardinality({u \in vs : u <= v}) <= n}

Latest(vs) == CHOOSE v \in vs : \A u \in vs : u <= v

\* Mutant: the cursor is inclusive.
Page_Inclusive(h, after, n) == Oldest({v \in Versions(h) : v >= after}, n)

\* The entries after the cursor.
Page(h, after, n) == Oldest({v \in Versions(h) : v > after}, n)

Limit(raw) ==
  IF raw <= 0 THEN DefaultLimit ELSE IF raw > MaxLimit THEN MaxLimit ELSE raw

\* Mutant: no row beyond the page is fetched.
PageLedger_NoOverFetch(h, after, raw) ==
  LET rows == Page(h, after, Limit(raw))
  IN [entries |-> rows, more |-> Cardinality(rows) > Limit(raw)]

\* A page, and whether it has a cursor to the next one: one row more than the
\* limit is fetched to find out.
PageLedger(h, after, raw) ==
  LET rows == Page(h, after, Limit(raw) + 1)
      more == Cardinality(rows) > Limit(raw)
  IN [entries |-> IF more THEN Oldest(rows, Limit(raw)) ELSE rows, more |-> more]

\* A listing: the cursor to continue at (zero is the empty one), the versions
\* received and how many entries they came in, and whether the last page had
\* no cursor.
NewListing == [cursor |-> 0, seen |-> {}, count |-> 0, ended |-> FALSE]

Received(l, page) ==
  [cursor |-> IF page.more THEN Latest(page.entries) ELSE l.cursor,
   seen   |-> l.seen \cup page.entries,
   count  |-> l.count + Cardinality(page.entries),
   ended  |-> ~page.more]

-----------------------------------------------------------------------------
(* Requests. *)

NoRead == [at |-> "none"]

Reads(c, at) == reading[c].at = at

\* GET /wallets/:id/ledger, with the cursor of the page before or, for a new
\* listing, without.
BeginPage(c, w, raw) ==
  /\ Reads(c, "none")
  /\ reading' = [reading EXCEPT ![c] = [at |-> "wallet", wallet |-> w, raw |-> raw]]
  /\ listing' = [listing EXCEPT ![c][w] = IF @.ended THEN NewListing ELSE @]
  /\ UNCHANGED history

\* GET /wallets/:id/reconciliation.
BeginReconcile(c, w) ==
  /\ Reads(c, "none")
  /\ reading' = [reading EXCEPT ![c] = [at |-> "begin", wallet |-> w]]
  /\ UNCHANGED <<history, listing>>

\* The handler of the ledger route looks the wallet up: 404, or go on.
GetWallet(c) ==
  /\ Reads(c, "wallet")
  /\ reading' = [reading EXCEPT ![c] =
       IF history[@.wallet] = <<>> THEN NoRead ELSE [@ EXCEPT !.at = "page"]]
  /\ UNCHANGED <<history, listing>>

\* The page, answered.
ReadPage(c) ==
  /\ Reads(c, "page")
  /\ LET w == reading[c].wallet
     IN listing' = [listing EXCEPT ![c][w] =
          Received(@, PageLedger(history[w], @.cursor, reading[c].raw))]
  /\ reading' = [reading EXCEPT ![c] = NoRead]
  /\ UNCHANGED history

\* The first statement of Reconcile reads the wallet row and fixes the
\* snapshot of the transaction.
ReadStored(c) ==
  /\ Reads(c, "begin")
  /\ LET w == reading[c].wallet
         h == history[w]
     IN reading' = [reading EXCEPT ![c] =
          IF h = <<>> THEN NoRead
          ELSE [at |-> "entries", wallet |-> w, snapshot |-> h, stored |-> h[Len(h)]]]
  /\ UNCHANGED <<history, listing>>

\* Mutant: READ COMMITTED, every statement has a snapshot of its own.
Visible_ReadCommitted(c) == history[reading[c].wallet]

\* What later statements of the transaction see of the wallet.
Visible(c) == reading[c].snapshot

\* The second statement reads all the entries in order.
ReadEntries(c) ==
  /\ Reads(c, "entries")
  /\ reading' = [reading EXCEPT ![c] =
       [at |-> "replay", wallet |-> @.wallet, stored |-> @.stored,
        entries |-> Visible(c), next |-> FirstEntry(Visible(c)), calculated |-> 0]]
  /\ UNCHANGED <<history, listing>>

\* The loop has an entry left.
Replaying(c) == Reads(c, "replay") /\ reading[c].next \in Versions(reading[c].entries)

\* Whether the entry in hand is beyond what the sum can hold.
ReplayOverflows(c) ==
  LET r == reading[c]
      amount == AmountOf(r.entries, r.next)
  IN IF IsCredit(r.entries, r.next) THEN AddOverflows(r.calculated, amount)
     ELSE SubOverflows(r.calculated, amount)

\* The sum with the entry in hand.
Replayed(r) ==
  LET amount == AmountOf(r.entries, r.next)
  IN IF IsCredit(r.entries, r.next) THEN Added(r.calculated, amount)
     ELSE Subtracted(r.calculated, amount)

\* One turn of the loop; an overflow would end the request with an error.
ReplayEntry(c) ==
  /\ Replaying(c)
  /\ LET r == reading[c]
     IN reading' = [reading EXCEPT ![c] =
          IF ReplayOverflows(c) THEN NoRead
          ELSE [r EXCEPT !.next = r.next + 1, !.calculated = Replayed(r)]]
  /\ UNCHANGED <<history, listing>>

\* All entries are replayed: the answer is due.
ReplayDone(c) == Reads(c, "replay") /\ ~Replaying(c)

\* The answer of Reconcile; stored and calculated are in decimals.
Reconciliation(c) ==
  LET r == reading[c]
  IN [stored     |-> Format(r.stored),
      calculated |-> Format(r.calculated),
      difference |-> Format(Subtracted(r.stored, r.calculated)),
      consistent |-> Cmp(r.stored, r.calculated) = 0,
      checked    |-> Cardinality(Versions(r.entries))]

Reconcile(c) ==
  /\ ReplayDone(c)
  /\ reading' = [reading EXCEPT ![c] = NoRead]
  /\ UNCHANGED <<history, listing>>

\* A statement fails (503), or the answer is lost on its way: the client has
\* received nothing and may ask again, with the same cursor.
ReadFails(c) ==
  /\ ~Reads(c, "none")
  /\ reading' = [reading EXCEPT ![c] = NoRead]
  /\ UNCHANGED <<history, listing>>

-----------------------------------------------------------------------------
(* What other sessions commit meanwhile. *)

Opens(w, balance) ==
  /\ history[w] = <<>>
  /\ history' = [history EXCEPT ![w] = <<balance>>]
  /\ UNCHANGED <<reading, listing>>

\* No movement is zero (ledger_amount_positive).
Moves(w, balance) ==
  /\ history[w] # <<>>
  /\ Len(history[w]) < MaxVersion
  /\ balance # history[w][Len(history[w])]
  /\ history' = [history EXCEPT ![w] = Append(@, balance)]
  /\ UNCHANGED <<reading, listing>>

ReadsInit ==
  /\ AccountInit
  /\ reading = [c \in Reader |-> NoRead]
  /\ listing = [c \in Reader |-> [w \in Wallet |-> NewListing]]

\* The steps of a request that has begun.
ServeStep(c) ==
  \/ GetWallet(c)
  \/ ReadPage(c)
  \/ ReadStored(c)
  \/ ReadEntries(c)
  \/ ReplayEntry(c)
  \/ Reconcile(c)
  \/ ReadFails(c)

Commits == \E w \in Wallet, b \in 0..MaxBalance : Opens(w, b) \/ Moves(w, b)

BeginRead(c) ==
  \E w \in Wallet : \/ \E raw \in RawLimit : BeginPage(c, w, raw)
                    \/ BeginReconcile(c, w)

ReadsNext == Commits \/ \E c \in Reader : BeginRead(c) \/ ServeStep(c)

ReadsSpec == ReadsInit /\ [][ReadsNext]_readsVars

-----------------------------------------------------------------------------
(* Properties. *)

\* What a client has received of a ledger, over as many pages of whatever
\* sizes, with answers lost and requests repeated, while operations are added
\* at the end: nothing twice, and everything up to where it got, in spite of
\* a cursor that names nothing but a version.
PagesExact ==
  \A c \in Reader, w \in Wallet :
    LET l == listing[c][w]
    IN /\ l.count = Cardinality(l.seen)
       /\ \A v \in Versions(history[w]) : v <= l.cursor => v \in l.seen
       /\ ~l.ended => \A v \in l.seen : v <= l.cursor

\* A listing ends only with the last entry there is: a page without a cursor
\* is never a page that had entries after it.
EndsComplete ==
  [][\A c \in Reader, w \in Wallet :
       listing'[c][w].ended /\ ~listing[c][w].ended =>
         listing'[c][w].seen = Versions(history[w])]_readsVars

\* Reconcile never reports a divergence, nor errs, of a wallet that is
\* consistent in every state, however many operations are committed between
\* its two statements; and the decimals it answers read back as the balance.
ReconcileConsistent ==
  \A c \in Reader :
    /\ Replaying(c) => ~ReplayOverflows(c)
    /\ ReplayDone(c) =>
         LET r == reading[c]
             answer == Reconciliation(c)
         IN /\ ~SubOverflows(r.stored, r.calculated)
            /\ answer.consistent
            /\ answer.difference = Format(0)
            /\ ParseMoney(answer.calculated.whole, answer.calculated.cents) = r.stored
=============================================================================
