-------------------------- MODULE LedgerReadsProofs --------------------------
(***************************************************************************)
(* Paging and reconciliation are exact for every number of readers,        *)
(* wallets and operations, every limit and every width of amounts.         *)
(*                                                                         *)
(* A page is an interval of versions (PageLedgerExact); a listing is the   *)
(* interval up to its cursor or, once ended, a prefix of the ledger        *)
(* (ListingOK); the sum of a replay is the balance before the entry in     *)
(* hand (ReadingOK).  The arithmetic of that sum, and of every movement,   *)
(* comes first.                                                            *)
(***************************************************************************)
EXTENDS LedgerReads, TLAPS, FiniteSetTheorems, SequenceTheorems

-----------------------------------------------------------------------------
(* The overflow tests of Money are exact, for integers of any width. *)

\* Add refuses exactly the sums that do not fit, and returns all others; the
\* test looks at nothing but sign bits after the machine has wrapped around.
THEOREM AddExact ==
  ASSUME NEW a \in Minor, NEW b \in Minor
  PROVE  /\ AddOverflows(a, b) <=> a + b \notin Minor
         /\ ~AddOverflows(a, b) => Added(a, b) = a + b
BY HalfAssumption DEF Minor, MaxInt, MinInt, Wrap, SignsDiffer, Added, AddOverflows

\* Sub refuses exactly the differences that do not fit.
THEOREM SubExact ==
  ASSUME NEW a \in Minor, NEW b \in Minor
  PROVE  /\ SubOverflows(a, b) <=> a - b \notin Minor
         /\ ~SubOverflows(a, b) => Subtracted(a, b) = a - b
BY HalfAssumption DEF Minor, MaxInt, MinInt, Wrap, SignsDiffer, Subtracted, SubOverflows

\* Negate refuses exactly the one amount whose negation does not fit.
THEOREM NegateExact ==
  ASSUME NEW a \in Minor
  PROVE  /\ NegateOverflows(a) <=> -a \notin Minor
         /\ ~NegateOverflows(a) => Negated(a) = -a
BY HalfAssumption DEF Minor, MaxInt, MinInt, Wrap, Negated, NegateOverflows

\* ParseMoney refuses exactly the decimals beyond the largest amount: its test
\* divides, so that it cannot itself overflow.
THEOREM ParseExact ==
  ASSUME NEW whole \in Nat, NEW cents \in 0..99
  PROVE  ParseOverflows(whole, cents) <=> ParseMoney(whole, cents) \notin Minor
<1>1. MaxInt - cents \in Nat /\ MaxInt \in Nat
  BY HalfAssumption DEF MaxInt
<1> DEFINE q == (MaxInt - cents) \div 100
<1>2. /\ q \in Nat
      /\ 100 * q <= MaxInt - cents
      /\ MaxInt - cents < 100 * q + 100
  BY <1>1
<1> HIDE DEF q
<1>3. whole > q <=> 100 * whole + cents > MaxInt
  BY <1>1, <1>2
<1>4. whole > MaxInt => 100 * whole + cents > MaxInt
  BY <1>1
<1> QED
  BY <1>1, <1>3, <1>4, HalfAssumption DEF ParseOverflows, ParseMoney, Minor, MaxInt, q

\* String prints every amount exactly, the smallest one included, and the
\* decimals of an amount that is not negative are read back as that amount.
THEOREM FormatExact ==
  ASSUME NEW a \in Minor
  PROVE  LET f == Format(a)
             value == f.whole * 100 + f.cents
         IN /\ f.whole \in Nat /\ f.cents \in 0..99
            /\ a = IF f.negative THEN -value ELSE value
            /\ a >= 0 => ~ParseOverflows(f.whole, f.cents)
                           /\ ParseMoney(f.whole, f.cents) = a
<1> DEFINE abs == IF a = MinInt THEN MaxInt + 1 ELSE IF a < 0 THEN Negated(a) ELSE a
<1>1. abs \in Nat /\ a = (IF a < 0 THEN -abs ELSE abs)
  BY HalfAssumption, NegateExact DEF Minor, MinInt, MaxInt, NegateOverflows
<1>2. Format(a) = [negative |-> a < 0, whole |-> abs \div 100, cents |-> abs % 100]
  BY DEF Format
<1> HIDE DEF abs
<1> DEFINE q == abs \div 100
           r == abs % 100
<1>3. q \in Nat /\ r \in 0..99 /\ abs = q * 100 + r
  BY <1>1
<1>4. Format(a) = [negative |-> a < 0, whole |-> q, cents |-> r]
  BY <1>2
<1> HIDE DEF q, r
<1>5. a >= 0 => ParseMoney(q, r) = a
  BY <1>1, <1>3 DEF ParseMoney
<1>6. ParseOverflows(q, r) <=> ParseMoney(q, r) \notin Minor
  BY <1>3, ParseExact
<1>7. a = IF a < 0 THEN -(q * 100 + r) ELSE q * 100 + r
  BY <1>1, <1>3
<1>8. /\ Format(a).whole = q
      /\ Format(a).cents = r
      /\ Format(a).negative = (a < 0)
  BY <1>4
<1> DEFINE f == Format(a)
<1>9. f.whole \in Nat /\ f.cents \in 0..99
  BY <1>3, <1>8
<1>10. a = IF f.negative THEN -(f.whole * 100 + f.cents) ELSE f.whole * 100 + f.cents
  BY <1>7, <1>8
<1>11. a >= 0 => ~ParseOverflows(f.whole, f.cents) /\ ParseMoney(f.whole, f.cents) = a
  BY <1>5, <1>6, <1>8
<1> QED BY <1>9, <1>10, <1>11

-----------------------------------------------------------------------------
(* The read side. *)

Balance == 0..MaxBalance

-----------------------------------------------------------------------------
(* Versions and pages. *)

\* The versions in a ledger have no gap.
LEMMA VersionsIsInterval ==
  ASSUME NEW h \in Seq(Balance)
  PROVE  \E first \in {1, 2} : /\ Versions(h) = first..Len(h)
                               /\ h # <<>> => FirstEntry(h) = first
<1>1. CASE h = <<>>
  <2>1. Len(h) = 0 /\ Versions(h) = {}
    BY <1>1 DEF Versions
  <2>2. 1..Len(h) = {}
    BY <2>1
  <2> QED BY <1>1, <2>1, <2>2
<1>2. CASE h # <<>>
  BY <1>2 DEF Versions, FirstEntry
<1> QED BY <1>1, <1>2

\* The n smallest numbers of an interval are an interval.
LEMMA OldestOfInterval ==
  ASSUME NEW a \in Nat, NEW b \in Int, NEW n \in Nat
  PROVE  \A v : v \in Oldest(a..b, n) <=> v \in a..b /\ v <= a + n - 1
<1>1. ASSUME NEW v \in a..b
      PROVE  Cardinality({u \in a..b : u <= v}) = v - a + 1
  <2>1. {u \in a..b : u <= v} = a..v
    OBVIOUS
  <2>2. v \in Int /\ a \in Int /\ ~(a > v)
    OBVIOUS
  <2>3. Cardinality(a..v) = IF a > v THEN 0 ELSE v - a + 1
    BY <2>2, FS_Interval
  <2> QED BY <2>1, <2>2, <2>3
<1>2. ASSUME NEW v \in a..b
      PROVE  Cardinality({u \in a..b : u <= v}) <= n <=> v <= a + n - 1
  BY <1>1
<1> QED BY <1>2 DEF Oldest

\* Whatever limit is asked for, a page has room for an entry.
LEMMA LimitPositive ==
  ASSUME NEW raw \in Int
  PROVE  Limit(raw) \in Nat \ {0}
BY ReadsAssumption DEF Limit

\* The page at entry a of those up to b has n entries or all that are left,
\* and a cursor iff that is not all.
LEMMA PageInterval ==
  ASSUME NEW h, NEW after, NEW raw, NEW n \in Nat \ {0}, Limit(raw) = n,
         NEW a \in Nat, NEW b \in Nat,
         \A v : v \in Versions(h) /\ v > after <=> v \in a..b
  PROVE  \E more \in BOOLEAN : \E entries :
           /\ PageLedger(h, after, raw) = [entries |-> entries, more |-> more]
           /\ \A v : v \in entries <=> v \in a..b /\ v <= a + n - 1
           /\ more <=> a + n <= b
<1> DEFINE rows == Page(h, after, n + 1)
<1>1. rows = {v \in a..b : v <= a + n}
  <2>1. Page(h, after, n + 1) = Oldest(a..b, n + 1)
    BY {v \in Versions(h) : v > after} = a..b DEF Page
  <2>2. PICK m \in Nat : m = n + 1
    OBVIOUS
  <2>3. \A v : v \in Oldest(a..b, m) <=> v \in a..b /\ v <= a + m - 1
    BY b \in Int, OldestOfInterval
  <2>4. a + m - 1 = a + n
    BY <2>2
  <2> HIDE DEF rows
  <2>5. \A v : v \in rows <=> v \in a..b /\ v <= a + n
    BY <2>1, <2>2, <2>3, <2>4 DEF rows
  <2> QED BY <2>5
<1>2. PICK more \in BOOLEAN : more <=> Cardinality(rows) > n
  BY Zenon
<1>3. PageLedger(h, after, raw) =
        [entries |-> IF more THEN Oldest(rows, n) ELSE rows, more |-> more]
  <2>1. PageLedger(h, after, raw) =
          [entries |-> IF Cardinality(rows) > n THEN Oldest(rows, n) ELSE rows,
           more |-> Cardinality(rows) > n]
    BY DEF PageLedger
  <2>2. (Cardinality(rows) > n) = more
    BY <1>2
  <2> QED BY <2>1, <2>2
<1> HIDE DEF rows
<1>4. CASE a + n <= b
  <2>1. rows = a..(a + n)
    BY <1>1, <1>4
  <2>2. Cardinality(rows) > n
    <3>1. Cardinality(a..(a + n)) = IF a > a + n THEN 0 ELSE (a + n) - a + 1
      BY a \in Int, a + n \in Int, FS_Interval
    <3> QED BY <2>1, <3>1
  <2>3. Oldest(rows, n) = {v \in a..b : v <= a + n - 1}
    <3>1. PICK m \in Int : m = a + n
      OBVIOUS
    <3>2. \A v : v \in Oldest(a..m, n) <=> v \in a..m /\ v <= a + n - 1
      BY n \in Nat, OldestOfInterval
    <3>3. \A v : v \in Oldest(rows, n) <=> v \in a..m /\ v <= a + n - 1
      BY <2>1, <3>1, <3>2
    <3> QED BY <1>4, <3>1, <3>3
  <2>4. PageLedger(h, after, raw) = [entries |-> Oldest(rows, n), more |-> more]
    BY <1>2, <1>3, <2>2
  <2>5. more /\ \A v : v \in Oldest(rows, n) <=> v \in a..b /\ v <= a + n - 1
    BY <1>2, <2>2, <2>3
  <2> QED BY <1>2, <1>4, <2>4, <2>5
<1>5. CASE ~(a + n <= b)
  <2>1. rows = a..b /\ rows = {v \in a..b : v <= a + n - 1}
    BY <1>1, <1>5
  <2>2. ~(Cardinality(rows) > n)
    <3>1. Cardinality(a..b) = IF a > b THEN 0 ELSE b - a + 1
      BY a \in Int, b \in Int, FS_Interval
    <3> QED BY <1>5, <2>1, <3>1
  <2>3. PageLedger(h, after, raw) = [entries |-> rows, more |-> more]
    BY <1>2, <1>3, <2>2
  <2>4. ~more /\ \A v : v \in rows <=> v \in a..b /\ v <= a + n - 1
    BY <1>2, <2>1, <2>2
  <2> QED BY <1>2, <1>5, <2>3, <2>4
<1> QED BY <1>4, <1>5

\* What a page says of the entries after the cursor.
PageExact(h, after, page) ==
  /\ page.more \in BOOLEAN
  /\ page.entries \subseteq Versions(h)
  /\ \A v \in page.entries : v > after
  /\ ~page.more => \A v \in Versions(h) : v > after => v \in page.entries
  /\ page.more =>
       /\ Latest(page.entries) \in page.entries
       /\ \A v \in page.entries : v <= Latest(page.entries)
       /\ \A v \in Versions(h) :
            v > after /\ v <= Latest(page.entries) => v \in page.entries

\* A page is the next interval of versions, and says truly if there are more.
LEMMA PageLedgerExact ==
  ASSUME NEW h \in Seq(Balance), NEW after \in Nat, NEW raw \in Int
  PROVE  PageExact(h, after, PageLedger(h, after, raw))
<1>1. PICK n \in Nat \ {0} : Limit(raw) = n
  BY LimitPositive
<1>2. PICK b \in Nat : Len(h) = b
  OBVIOUS
<1>3. PICK a \in Nat : {v \in Versions(h) : v > after} = a..b
  <2>1. PICK first \in {1, 2} : Versions(h) = first..b
    BY <1>2, VersionsIsInterval
  <2>2. CASE after < first
    BY <2>1, <2>2, {v \in Versions(h) : v > after} = first..b
  <2>3. CASE after >= first
    <3>1. {v \in Versions(h) : v > after} = (after + 1)..b
      BY <2>1, <2>3
    <3> QED BY <2>3, <3>1
  <2> QED BY <2>1, <2>2, <2>3
<1>4. PICK page : page = PageLedger(h, after, raw)
  OBVIOUS
<1>5. /\ \A v : v \in page.entries <=> v \in a..b /\ v <= a + n - 1
      /\ page.more \in BOOLEAN
      /\ page.more <=> a + n <= b
  <2>1. \A v : v \in Versions(h) /\ v > after <=> v \in a..b
    BY <1>3
  <2>2. PICK more \in BOOLEAN : \E entries :
          /\ PageLedger(h, after, raw) = [entries |-> entries, more |-> more]
          /\ \A v : v \in entries <=> v \in a..b /\ v <= a + n - 1
          /\ more <=> a + n <= b
    BY <1>1, <2>1, PageInterval
  <2> QED BY <1>4, <2>2
<1>6. ASSUME NEW v
      PROVE  v \in Versions(h) /\ v > after <=> v \in a..b
  BY <1>3
<1>7. page.more \in BOOLEAN
  BY <1>5
<1>8. page.entries \subseteq Versions(h) /\ \A v \in page.entries : v > after
  BY <1>5, <1>6
<1>9. ASSUME ~page.more
      PROVE  \A v \in Versions(h) : v > after => v \in page.entries
  <2>1. a..b = {v \in a..b : v <= a + n - 1}
    BY <1>5, <1>9
  <2> QED BY <1>5, <1>6, <2>1
<1>10. ASSUME page.more
       PROVE  Latest(page.entries) = a + n - 1 /\ a + n - 1 \in page.entries
  <2>1. a + n - 1 \in page.entries /\ \A u \in page.entries : u <= a + n - 1
    BY <1>5, <1>10
  <2>2. ASSUME NEW v \in page.entries, \A u \in page.entries : u <= v
        PROVE  v = a + n - 1
    <3>1. v \in Int /\ v <= a + n - 1 /\ a + n - 1 <= v
      BY <1>5, <2>1, <2>2
    <3> QED BY <3>1
  <2> QED BY <2>1, <2>2 DEF Latest
<1>11. ASSUME page.more
       PROVE  /\ \A v \in page.entries : v <= a + n - 1
              /\ \A v \in Versions(h) :
                   v > after /\ v <= a + n - 1 => v \in page.entries
  BY <1>5, <1>6
<1> QED BY <1>4, <1>7, <1>8, <1>9, <1>10, <1>11 DEF PageExact

-----------------------------------------------------------------------------
(* The inductive invariant. *)

HistoryType == history \in [Wallet -> Seq(Balance)]

\* What a client has received of a ledger h.
ListingOK(l, h) ==
  /\ l \in [cursor : Nat, seen : SUBSET Nat, count : Nat, ended : BOOLEAN]
  /\ l.seen \subseteq Versions(h)
  /\ l.count = Cardinality(l.seen)
  /\ l.cursor <= Len(h)
  /\ \A v \in Versions(h) : v <= l.cursor => v \in l.seen
  /\ ~l.ended => \A v \in l.seen : v <= l.cursor

ListingsOK ==
  /\ listing \in [Reader -> [Wallet ->
       [cursor : Nat, seen : SUBSET Nat, count : Nat, ended : BOOLEAN]]]
  /\ \A c \in Reader, w \in Wallet : ListingOK(listing[c][w], history[w])

\* What a snapshot of the wallet and the transaction that reads it agree on.
SnapshotOK(h, stored) == h \in Seq(Balance) /\ h # <<>> /\ stored = h[Len(h)]

\* The request r of a client whose listings are ls.
ReadingOK(r, ls) ==
  \/ r.at = "none"
  \/ r.at = "begin" /\ r.wallet \in Wallet
  \/ /\ r.at \in {"wallet", "page"}
     /\ r.wallet \in Wallet
     /\ r.raw \in Int
     /\ ~ls[r.wallet].ended
  \/ /\ r.at = "entries"
     /\ SnapshotOK(r.snapshot, r.stored)
  \/ /\ r.at = "replay"
     /\ SnapshotOK(r.entries, r.stored)
     /\ r.next \in FirstEntry(r.entries)..(Len(r.entries) + 1)
     /\ r.calculated = BalanceBefore(r.entries, r.next)

ReadingsOK ==
  /\ DOMAIN reading = Reader /\ reading = [c \in Reader |-> reading[c]]
  /\ \A c \in Reader : ReadingOK(reading[c], listing[c])

ReadsInv == HistoryType /\ ListingsOK /\ ReadingsOK

-----------------------------------------------------------------------------
(* Histories grow at their end. *)

\* The balances of the model fit the width of an amount.
LEMMA BalancesAreMinor ==
  Balance \subseteq Minor /\ \A b \in Balance : b >= 0
BY HalfAssumption, ReadsAssumption DEF Balance, Minor

\* A commit adds to a ledger and changes nothing of it.
LEMMA CommitsExtend ==
  ASSUME HistoryType, Commits
  PROVE  /\ HistoryType'
         /\ UNCHANGED <<reading, listing>>
         /\ \A w \in Wallet :
              \/ history'[w] = history[w]
              \/ history[w] = <<>> /\ Len(history'[w]) = 1
              \/ /\ Len(history'[w]) >= Len(history[w])
                 /\ Versions(history[w]) \subseteq Versions(history'[w])
                 /\ \A v \in Versions(history'[w]) :
                      v <= Len(history[w]) => v \in Versions(history[w])
<1>1. PICK w \in Wallet, b \in Balance : Opens(w, b) \/ Moves(w, b)
  BY DEF Commits, Balance
<1>2. UNCHANGED <<reading, listing>>
  BY <1>1 DEF Opens, Moves
<1>3. CASE Opens(w, b)
  BY <1>1, <1>2, <1>3 DEF Opens, HistoryType
<1>4. CASE Moves(w, b)
  <2>1. PICK h \in Seq(Balance) : h = history[w] /\ h # <<>>
    BY <1>4 DEF Moves, HistoryType
  <2>2. history' = [history EXCEPT ![w] = Append(h, b)]
    BY <1>4, <2>1 DEF Moves
  <2>3. PICK g \in Seq(Balance) : g = Append(h, b)
    BY <1>1, AppendProperties
  <2>4. /\ g # <<>> /\ Len(g) = Len(h) + 1 /\ Len(h) \in Nat /\ Len(h) >= 1
        /\ g[1] = h[1]
    BY <1>1, <2>1, <2>3, AppendProperties
  <2>5. FirstEntry(g) = FirstEntry(h) /\ FirstEntry(h) \in {1, 2}
    BY <2>4 DEF FirstEntry
  <2>6. /\ Versions(h) = FirstEntry(h)..Len(h)
        /\ Versions(g) = FirstEntry(h)..(Len(h) + 1)
    BY <2>1, <2>4, <2>5 DEF Versions
  <2>7. /\ Versions(h) \subseteq Versions(g)
        /\ \A v \in Versions(g) : v <= Len(h) => v \in Versions(h)
    BY <2>4, <2>5, <2>6
  <2>8. history'[w] = g /\ \A u \in Wallet \ {w} : history'[u] = history[u]
    BY <2>2, <2>3 DEF HistoryType
  <2>9. HistoryType'
    BY <2>2, <2>3 DEF HistoryType
  <2> QED BY <1>2, <2>1, <2>4, <2>7, <2>8, <2>9
<1> QED BY <1>1, <1>3, <1>4

\* A listing of a ledger is a listing of the longer one.
LEMMA CommitsKeepListings ==
  ASSUME ReadsInv, Commits
  PROVE  ReadsInv'
<1>1. ASSUME NEW c \in Reader, NEW w \in Wallet
      PROVE  ListingOK(listing[c][w], history'[w])
  <2>1. ListingOK(listing[c][w], history[w])
    BY DEF ReadsInv, ListingsOK
  <2>2. /\ history[w] \in Seq(Balance) /\ history'[w] \in Seq(Balance)
        /\ Len(history[w]) \in Nat /\ Len(history'[w]) \in Nat
    BY CommitsExtend DEF ReadsInv, HistoryType
  <2>3. CASE history'[w] = history[w]
    BY <2>1, <2>3
  <2>4. CASE history[w] = <<>> /\ Len(history'[w]) = 1
    <3>1. listing[c][w].cursor = 0 /\ listing[c][w].seen = {}
      BY <2>1, <2>4 DEF ListingOK, Versions
    <3>2. \A v \in Versions(history'[w]) : ~(v <= 0)
      <4>1. PICK first \in {1, 2} : Versions(history'[w]) = first..Len(history'[w])
        BY <2>2, VersionsIsInterval
      <4> QED BY <2>2, <4>1
    <3> QED BY <2>1, <2>4, <3>1, <3>2 DEF ListingOK
  <2>5. CASE /\ Len(history'[w]) >= Len(history[w])
             /\ Versions(history[w]) \subseteq Versions(history'[w])
             /\ \A v \in Versions(history'[w]) :
                  v <= Len(history[w]) => v \in Versions(history[w])
    <3>1. \A v \in Versions(history'[w]) :
            v <= listing[c][w].cursor => v \in listing[c][w].seen
      <4>1. ASSUME NEW v \in Versions(history'[w]), v <= listing[c][w].cursor
            PROVE  v <= Len(history[w])
        <5>1. PICK first \in {1, 2} : Versions(history'[w]) = first..Len(history'[w])
          BY <2>2, VersionsIsInterval
        <5>2. v \in Int
          BY <2>2, <5>1
        <5> QED BY <2>1, <2>2, <4>1, <5>2 DEF ListingOK
      <4> QED BY <2>1, <2>5, <4>1 DEF ListingOK
    <3> QED BY <2>1, <2>2, <2>5, <3>1 DEF ListingOK
  <2> QED BY <2>3, <2>4, <2>5, CommitsExtend DEF ReadsInv
<1>2. HistoryType' /\ UNCHANGED <<reading, listing>>
  BY CommitsExtend DEF ReadsInv
<1>3. ListingsOK'
  BY <1>1, <1>2 DEF ReadsInv, ListingsOK
<1>4. ReadingsOK'
  BY <1>2 DEF ReadsInv, ReadingsOK, ReadingOK
<1> QED BY <1>2, <1>3, <1>4 DEF ReadsInv

-----------------------------------------------------------------------------
(* Pages. *)

\* A page received continues a listing that has not ended; if it ends it, the
\* listing is the whole ledger.
LEMMA ReceivedOK ==
  ASSUME NEW h \in Seq(Balance), NEW raw \in Int,
         NEW l, ListingOK(l, h), ~l.ended
  PROVE  LET new == Received(l, PageLedger(h, l.cursor, raw))
         IN ListingOK(new, h) /\ (new.ended => new.seen = Versions(h))
<1>1. PICK page : page = PageLedger(h, l.cursor, raw)
  OBVIOUS
<1>2. PageExact(h, l.cursor, page)
  BY <1>1, PageLedgerExact DEF ListingOK
<1>3. PICK new : new = Received(l, page)
  OBVIOUS
<1>4. /\ new.cursor = IF page.more THEN Latest(page.entries) ELSE l.cursor
      /\ new.seen = l.seen \cup page.entries
      /\ new.count = l.count + Cardinality(page.entries)
      /\ new.ended = ~page.more
      /\ new = [cursor |-> new.cursor, seen |-> new.seen,
                 count |-> new.count, ended |-> new.ended]
  BY <1>3 DEF Received
<1>5. PICK first \in {1, 2} : Versions(h) = first..Len(h)
  BY VersionsIsInterval
<1>6. /\ Len(h) \in Nat
      /\ Versions(h) \subseteq Nat
      /\ IsFiniteSet(Versions(h))
      /\ \A v \in Versions(h) : v <= Len(h)
  <2>1. PICK b \in Int : b = Len(h)
    OBVIOUS
  <2>2. IsFiniteSet(first..b)
    BY FS_Interval
  <2> QED BY <1>5, <2>1, <2>2
<1>7. /\ l.seen \subseteq Versions(h) /\ page.entries \subseteq Versions(h)
      /\ l.seen \cap page.entries = {}
  BY <1>2, <1>6 DEF ListingOK, PageExact
<1>8. new.count = Cardinality(new.seen) /\ new.count \in Nat
  <2>1. IsFiniteSet(l.seen) /\ IsFiniteSet(page.entries)
    BY <1>6, <1>7, FS_Subset
  <2>2. /\ Cardinality(l.seen) \in Nat
        /\ Cardinality(page.entries) \in Nat
        /\ Cardinality(l.seen \cap page.entries) = 0
    BY <1>7, <2>1, FS_CardinalityType, FS_EmptySet
  <2>3. Cardinality(l.seen \cup page.entries)
          = Cardinality(l.seen) + Cardinality(page.entries)
              - Cardinality(l.seen \cap page.entries)
    BY <2>1, FS_Union
  <2> QED BY <1>4, <2>2, <2>3 DEF ListingOK
<1>9. CASE page.more
  <2>1. /\ new.cursor = Latest(page.entries)
        /\ new.cursor \in page.entries
        /\ new.cursor > l.cursor
        /\ new.ended = FALSE
    BY <1>2, <1>4, <1>9 DEF PageExact
  <2>2. new.cursor \in Nat /\ new.cursor <= Len(h)
    BY <1>6, <1>7, <2>1
  <2>3. \A v \in Versions(h) : v <= new.cursor => v \in new.seen
    BY <1>2, <1>4, <1>6, <1>9, <2>1 DEF ListingOK, PageExact
  <2>4. \A v \in new.seen : v <= new.cursor
    BY <1>2, <1>4, <1>6, <1>7, <1>9, <2>1, <2>2 DEF ListingOK, PageExact
  <2>5. new.seen \subseteq Versions(h)
    BY <1>4, <1>7
  <2> QED BY <1>1, <1>3, <1>4, <1>6, <1>8, <2>1, <2>2, <2>3, <2>4, <2>5 DEF ListingOK
<1>10. CASE ~page.more
  <2>1. new.cursor = l.cursor /\ new.ended = TRUE
    BY <1>4, <1>10
  <2>2. new.seen = Versions(h)
    BY <1>2, <1>4, <1>6, <1>7, <1>10 DEF ListingOK, PageExact
  <2>3. new \in [cursor : Nat, seen : SUBSET Nat, count : Nat, ended : BOOLEAN]
    BY <1>4, <1>6, <1>8, <2>1, <2>2 DEF ListingOK
  <2> QED BY <1>1, <1>3, <1>8, <2>1, <2>2, <2>3 DEF ListingOK
<1> QED BY <1>9, <1>10

\* Reading a page keeps the invariant.
LEMMA ReadPagePreserves ==
  ASSUME ReadsInv, NEW c \in Reader, ReadPage(c)
  PROVE  /\ ReadsInv'
         /\ \A d \in Reader, w \in Wallet :
              listing'[d][w].ended /\ ~listing[d][w].ended =>
                listing'[d][w].seen = Versions(history[w])
<1>1. PICK w \in Wallet : w = reading[c].wallet
  BY DEF ReadsInv, ReadingsOK, ReadingOK, ReadPage, Reads
<1>2. PICK raw \in Int : raw = reading[c].raw
  BY DEF ReadsInv, ReadingsOK, ReadingOK, ReadPage, Reads
<1>3. ~listing[c][w].ended
  BY <1>1 DEF ReadsInv, ReadingsOK, ReadingOK, ReadPage, Reads
<1>4. PICK new : new = Received(listing[c][w],
                                PageLedger(history[w], listing[c][w].cursor, raw))
  OBVIOUS
<1>5. ListingOK(new, history[w]) /\ (new.ended => new.seen = Versions(history[w]))
  BY <1>3, <1>4, ReceivedOK DEF ReadsInv, ListingsOK, HistoryType
<1>6. /\ listing' = [listing EXCEPT ![c][w] = new]
      /\ reading' = [reading EXCEPT ![c] = NoRead]
      /\ history' = history
  BY <1>1, <1>2, <1>4 DEF ReadPage
<1>7. ASSUME NEW d \in Reader, NEW x \in Wallet
      PROVE  listing'[d][x] = IF d = c /\ x = w THEN new ELSE listing[d][x]
  BY <1>6 DEF ReadsInv, ListingsOK
<1>8. ListingsOK'
  BY <1>5, <1>6, <1>7 DEF ReadsInv, ListingsOK, ListingOK
<1>9. ReadingsOK'
  <2>1. ASSUME NEW d \in Reader
        PROVE  ReadingOK(reading'[d], listing'[d])
    <3>1. CASE d = c
      BY <1>6, <3>1 DEF ReadsInv, ReadingsOK, ReadingOK, NoRead
    <3>2. CASE d # c
      <4>1. reading'[d] = reading[d] /\ listing'[d] = listing[d]
        BY <1>6, <3>2 DEF ReadsInv, ReadingsOK, ListingsOK
      <4> QED BY <4>1 DEF ReadsInv, ReadingsOK, ReadingOK
    <3> QED BY <3>1, <3>2
  <2> QED BY <1>6, <2>1 DEF ReadsInv, ReadingsOK
<1>10. HistoryType'
  BY <1>6 DEF ReadsInv, HistoryType
<1> QED BY <1>5, <1>6, <1>7, <1>8, <1>9, <1>10 DEF ReadsInv

-----------------------------------------------------------------------------
(* The other steps of a request. *)

\* A step that changes nothing but a request keeps the invariant when the
\* request stays right.
LEMMA RequestStep ==
  ASSUME ReadsInv, NEW c \in Reader, NEW r, ReadingOK(r, listing[c]),
         reading' = [reading EXCEPT ![c] = r], UNCHANGED <<history, listing>>
  PROVE  ReadsInv'
<1>1. DOMAIN reading' = Reader /\ reading' = [d \in Reader |-> reading'[d]]
  BY DEF ReadsInv, ReadingsOK
<1>2. ASSUME NEW d \in Reader
      PROVE  ReadingOK(reading'[d], listing'[d])
  <2>1. reading'[d] = IF d = c THEN r ELSE reading[d]
    BY DEF ReadsInv, ReadingsOK
  <2> QED BY <2>1 DEF ReadsInv, ReadingsOK
<1>3. ReadingsOK'
  BY <1>1, <1>2 DEF ReadingsOK
<1>4. HistoryType' /\ ListingsOK'
  BY DEF ReadsInv, HistoryType, ListingsOK
<1> QED BY <1>3, <1>4 DEF ReadsInv

\* A request begins to read.
LEMMA BeginReadPreserves ==
  ASSUME ReadsInv, NEW c \in Reader, BeginRead(c)
  PROVE  /\ ReadsInv'
         /\ \A d \in Reader, w \in Wallet :
              listing'[d][w].ended => listing[d][w].ended
<1>1. PICK w \in Wallet : BeginReconcile(c, w) \/ \E raw \in RawLimit : BeginPage(c, w, raw)
  BY DEF BeginRead
<1>2. CASE BeginReconcile(c, w)
  <2>1. ReadingOK([at |-> "begin", wallet |-> w], listing[c])
    BY DEF ReadingOK
  <2> QED BY <1>2, <2>1, RequestStep DEF BeginReconcile
<1>3. CASE \E raw \in RawLimit : BeginPage(c, w, raw)
  <2>1. PICK raw \in Int : BeginPage(c, w, raw)
    BY <1>3, ReadsAssumption
  <2>2. PICK r : r = [at |-> "wallet", wallet |-> w, raw |-> raw]
    OBVIOUS
  <2>3. PICK new : new = IF listing[c][w].ended THEN NewListing ELSE listing[c][w]
    OBVIOUS
  <2>4. /\ reading' = [reading EXCEPT ![c] = r]
        /\ listing' = [listing EXCEPT ![c][w] = new]
        /\ history' = history
    BY <2>1, <2>2, <2>3 DEF BeginPage
  <2>5. ListingOK(NewListing, history[w])
    <3>1. PICK first \in {1, 2} : Versions(history[w]) = first..Len(history[w])
      BY VersionsIsInterval DEF ReadsInv, HistoryType
    <3>2. \A v \in Versions(history[w]) : ~(v <= 0)
      BY <3>1
    <3>3. Len(history[w]) \in Nat
      BY DEF ReadsInv, HistoryType
    <3> QED BY <3>2, <3>3, FS_EmptySet DEF ListingOK, NewListing
  <2>6. ListingOK(new, history[w]) /\ ~new.ended
    BY <2>3, <2>5 DEF ReadsInv, ListingsOK, NewListing
  <2>7. ASSUME NEW d \in Reader, NEW x \in Wallet
        PROVE  listing'[d][x] = IF d = c /\ x = w THEN new ELSE listing[d][x]
    BY <2>4 DEF ReadsInv, ListingsOK
  <2>8. ListingsOK'
    BY <2>4, <2>6, <2>7 DEF ReadsInv, ListingsOK, ListingOK
  <2>9. ASSUME NEW d \in Reader
        PROVE  ReadingOK(reading'[d], listing'[d])
    <3>1. CASE d = c
      <4>1. reading'[d] = r
        BY <2>4, <3>1 DEF ReadsInv, ReadingsOK
      <4> QED BY <2>2, <2>6, <2>7, <3>1, <4>1 DEF ReadingOK
    <3>2. CASE d # c
      <4>1. reading'[d] = reading[d] /\ listing'[d] = listing[d]
        BY <2>4, <3>2 DEF ReadsInv, ReadingsOK, ListingsOK
      <4> QED BY <4>1 DEF ReadsInv, ReadingsOK
    <3> QED BY <3>1, <3>2
  <2>10. DOMAIN reading' = Reader /\ reading' = [d \in Reader |-> reading'[d]]
    BY <2>4 DEF ReadsInv, ReadingsOK
  <2>11. ReadsInv'
    BY <2>4, <2>8, <2>9, <2>10 DEF ReadsInv, ReadingsOK, HistoryType
  <2>12. \A d \in Reader, x \in Wallet : listing'[d][x].ended => listing[d][x].ended
    BY <2>6, <2>7
  <2> QED BY <2>11, <2>12
<1> QED BY <1>1, <1>2, <1>3 DEF BeginReconcile

-----------------------------------------------------------------------------
(* Reconciliation. *)

\* One entry takes the sum from the balance before it to the balance after
\* it, and never out of the range of amounts.
LEMMA ReplayExact ==
  ASSUME NEW h \in Seq(Balance), NEW v \in Versions(h)
  PROVE  LET before == BalanceBefore(h, v)
             amount == AmountOf(h, v)
         IN /\ v \in 1..Len(h)
            /\ BalanceBefore(h, v + 1) = h[v]
            /\ IsCredit(h, v) => ~AddOverflows(before, amount) /\ Added(before, amount) = h[v]
            /\ ~IsCredit(h, v) =>
                 ~SubOverflows(before, amount) /\ Subtracted(before, amount) = h[v]
<1>1. v \in 1..Len(h)
  BY VersionsIsInterval
<1>2. PICK after \in Balance : after = h[v]
  BY <1>1, ElementOfSeq
<1>3. PICK before \in Balance : before = BalanceBefore(h, v)
  <2>1. 0 \in Balance
    BY ReadsAssumption DEF Balance
  <2>2. v # 1 => h[v - 1] \in Balance
    BY <1>1, ElementOfSeq, v # 1 => v - 1 \in 1..Len(h)
  <2> QED BY <2>1, <2>2 DEF BalanceBefore
<1>4. BalanceBefore(h, v + 1) = h[v]
  BY <1>1, v \in Nat, v + 1 # 1, (v + 1) - 1 = v DEF BalanceBefore
<1>5. PICK amount : amount = AmountOf(h, v)
  OBVIOUS
<1>6. before \in Minor /\ after \in Minor /\ before \in Nat /\ after \in Nat
  BY BalancesAreMinor DEF Balance
<1>7. CASE IsCredit(h, v)
  <2>1. amount = after - before /\ before < after
    BY <1>2, <1>3, <1>5, <1>7 DEF IsCredit, AmountOf
  <2>2. amount \in Minor /\ before + amount = after
    BY <1>6, <2>1, HalfAssumption DEF Minor
  <2> QED BY <1>1, <1>2, <1>3, <1>4, <1>5, <1>6, <1>7, <2>2, AddExact
<1>8. CASE ~IsCredit(h, v)
  <2>1. amount = before - after /\ ~(before < after)
    BY <1>2, <1>3, <1>5, <1>6, <1>8 DEF IsCredit, AmountOf
  <2>2. amount \in Minor /\ before - amount = after
    BY <1>6, <2>1, HalfAssumption DEF Minor
  <2> QED BY <1>1, <1>2, <1>3, <1>4, <1>5, <1>6, <1>8, <2>2, SubExact
<1> QED BY <1>7, <1>8

\* A step of a reader keeps the invariant.
LEMMA ServeStepPreserves ==
  ASSUME ReadsInv, NEW c \in Reader, ServeStep(c)
  PROVE  /\ ReadsInv'
         /\ \A d \in Reader, w \in Wallet :
              listing'[d][w].ended /\ ~listing[d][w].ended =>
                listing'[d][w].seen = Versions(history[w])
<1>1. CASE ReadPage(c)
  BY <1>1, ReadPagePreserves
<1>2. CASE ~ReadPage(c)
  <2>1. ReadingOK(reading[c], listing[c])
    BY DEF ReadsInv, ReadingsOK
  <2>2. ReadingOK(NoRead, listing[c])
    BY DEF ReadingOK, NoRead
  <2>3. ReadsInv' /\ UNCHANGED <<history, listing>>
    <3>1. CASE GetWallet(c)
      <4>1. PICK r : r = IF history[reading[c].wallet] = <<>> THEN NoRead
                         ELSE [reading[c] EXCEPT !.at = "page"]
        OBVIOUS
      <4>2. reading' = [reading EXCEPT ![c] = r] /\ UNCHANGED <<history, listing>>
        BY <3>1, <4>1 DEF GetWallet, ReadsInv, ReadingsOK
      <4>3. reading[c].at = "wallet"
        BY <3>1 DEF GetWallet, Reads
      <4>4. ReadingOK(r, listing[c])
        BY <2>1, <2>2, <4>1, <4>3 DEF ReadingOK
      <4> QED BY <4>2, <4>4, RequestStep
    <3>2. CASE ReadStored(c)
      <4>1. PICK w \in Wallet : w = reading[c].wallet
        BY <2>1, <3>2 DEF ReadStored, Reads, ReadingOK
      <4>2. PICK h \in Seq(Balance) : h = history[w]
        BY DEF ReadsInv, HistoryType
      <4>3. PICK r : r = IF h = <<>> THEN NoRead
                         ELSE [at |-> "entries", wallet |-> w, snapshot |-> h,
                               stored |-> h[Len(h)]]
        OBVIOUS
      <4>4. reading' = [reading EXCEPT ![c] = r] /\ UNCHANGED <<history, listing>>
        BY <3>2, <4>1, <4>2, <4>3 DEF ReadStored
      <4>5. ReadingOK(r, listing[c])
        BY <2>2, <4>3 DEF ReadingOK, SnapshotOK
      <4> QED BY <4>4, <4>5, RequestStep
    <3>3. CASE ReadEntries(c)
      <4>1. PICK h : h = reading[c].snapshot
        OBVIOUS
      <4>2. SnapshotOK(h, reading[c].stored)
        BY <2>1, <3>3, <4>1 DEF ReadEntries, Reads, ReadingOK
      <4>3. PICK r : r = [at |-> "replay", wallet |-> reading[c].wallet,
                          stored |-> reading[c].stored, entries |-> h,
                          next |-> FirstEntry(h), calculated |-> 0]
        OBVIOUS
      <4>4. reading' = [reading EXCEPT ![c] = r] /\ UNCHANGED <<history, listing>>
        BY <3>3, <4>1, <4>3 DEF ReadEntries, Visible, ReadsInv, ReadingsOK
      <4>5. /\ FirstEntry(h) \in FirstEntry(h)..(Len(h) + 1)
            /\ BalanceBefore(h, FirstEntry(h)) = 0
        <5>1. Len(h) \in Nat /\ Len(h) >= 1
          BY <4>2 DEF SnapshotOK
        <5> QED BY <5>1 DEF FirstEntry, BalanceBefore
      <4>6. ReadingOK(r, listing[c])
        BY <4>2, <4>3, <4>5 DEF ReadingOK
      <4> QED BY <4>4, <4>6, RequestStep
    <3>4. CASE ReplayEntry(c)
      <4>1. PICK h \in Seq(Balance) : h = reading[c].entries
        BY <2>1, <3>4 DEF ReplayEntry, Replaying, Reads, ReadingOK, SnapshotOK
      <4>2. PICK v \in Versions(h) : v = reading[c].next
        BY <3>4, <4>1 DEF ReplayEntry, Replaying
      <4>3. /\ SnapshotOK(h, reading[c].stored)
            /\ v \in FirstEntry(h)..(Len(h) + 1)
            /\ reading[c].calculated = BalanceBefore(h, v)
            /\ reading[c].at = "replay"
        BY <2>1, <3>4, <4>1, <4>2 DEF ReplayEntry, Replaying, Reads, ReadingOK
      <4>4. ~ReplayOverflows(c) /\ Replayed(reading[c]) = BalanceBefore(h, v + 1)
        BY <4>1, <4>2, <4>3, ReplayExact DEF ReplayOverflows, Replayed
      <4>5. PICK r : r = [reading[c] EXCEPT !.next = v + 1,
                                            !.calculated = BalanceBefore(h, v + 1)]
        OBVIOUS
      <4>6. reading' = [reading EXCEPT ![c] = r] /\ UNCHANGED <<history, listing>>
        BY <3>4, <4>2, <4>4, <4>5 DEF ReplayEntry, ReadsInv, ReadingsOK
      <4>7. v + 1 \in FirstEntry(h)..(Len(h) + 1)
        <5>1. v \in 1..Len(h) /\ FirstEntry(h) \in {1, 2}
          BY ReplayExact DEF FirstEntry
        <5> QED BY <4>3, <5>1
      <4>8. ReadingOK(r, listing[c])
        <5>1. /\ r.at = "replay" /\ r.entries = h /\ r.stored = reading[c].stored
              /\ r.next = v + 1 /\ r.calculated = BalanceBefore(h, v + 1)
          BY <2>1, <4>1, <4>3, <4>5
        <5> QED BY <4>3, <4>7, <5>1 DEF ReadingOK
      <4> QED BY <4>6, <4>8, RequestStep
    <3>5. CASE Reconcile(c) \/ ReadFails(c)
      BY <2>2, <3>5, RequestStep DEF Reconcile, ReadFails
    <3> QED BY <1>2, <3>1, <3>2, <3>3, <3>4, <3>5 DEF ServeStep, GetWallet, ReadStored,
              ReadEntries, ReplayEntry, Reconcile, ReadFails
  <2> QED BY <2>3
<1> QED BY <1>1, <1>2

-----------------------------------------------------------------------------
(* The theorems. *)

\* Nobody reads yet.
LEMMA ReadsInvInit == ReadsInit => ReadsInv
<1> SUFFICES ASSUME ReadsInit PROVE ReadsInv
  OBVIOUS
<1>1. HistoryType
  BY EmptySeq DEF ReadsInit, AccountInit, NoHistory, HistoryType
<1>2. ListingsOK
  <2>1. ListingOK(NewListing, <<>>)
    BY FS_EmptySet DEF ListingOK, NewListing, Versions
  <2> QED BY <2>1 DEF ReadsInit, AccountInit, NoHistory, ListingsOK, NewListing
<1>3. ReadingsOK
  BY DEF ReadsInit, ReadingsOK, ReadingOK, NoRead
<1> QED BY <1>1, <1>2, <1>3 DEF ReadsInv

\* What a step does to the invariant, and to a listing that it ends.
LEMMA ReadsInvStep ==
  ASSUME ReadsInv, [ReadsNext]_readsVars
  PROVE  /\ ReadsInv'
         /\ \A c \in Reader, w \in Wallet :
              listing'[c][w].ended /\ ~listing[c][w].ended =>
                listing'[c][w].seen = Versions(history[w])
<1>1. CASE Commits
  BY <1>1, CommitsKeepListings, CommitsExtend DEF ReadsInv
<1>2. CASE \E c \in Reader : BeginRead(c) \/ ServeStep(c)
  BY <1>2, BeginReadPreserves, ServeStepPreserves
<1>3. CASE UNCHANGED readsVars
  BY <1>3 DEF readsVars, ReadsInv, HistoryType, ListingsOK, ReadingsOK
<1> QED BY <1>1, <1>2, <1>3 DEF ReadsNext

\* ReadsInv holds in every reachable state of the read side.
LEMMA ReadsInvariant == ReadsSpec => []ReadsInv
<1>1. ReadsInv /\ [ReadsNext]_readsVars => ReadsInv'
  BY ReadsInvStep
<1> QED BY ReadsInvInit, <1>1, PTL DEF ReadsSpec

\* Paging shows every entry up to the cursor once and none twice, whatever
\* the limits, the answers lost and the operations committed between pages.
THEOREM ListingsAreExact == ReadsSpec => []PagesExact
<1>1. ReadsInv => PagesExact
  BY DEF ReadsInv, ListingsOK, ListingOK, PagesExact
<1> QED BY <1>1, ReadsInvariant, PTL

\* A page without a cursor is the last one: the client has every entry.
THEOREM ListingsEndComplete == ReadsSpec => EndsComplete
<1>1. ReadsInv /\ [ReadsNext]_readsVars =>
        [\A c \in Reader, w \in Wallet :
           listing'[c][w].ended /\ ~listing[c][w].ended =>
             listing'[c][w].seen = Versions(history[w])]_readsVars
  BY ReadsInvStep
<1> QED BY <1>1, ReadsInvariant, PTL DEF ReadsSpec, EndsComplete

\* The sum of the entries of one snapshot is the balance of that snapshot:
\* Reconcile neither reports a divergence nor overflows on the way, and its
\* decimals are exact.
THEOREM ReconciliationIsConsistent == ReadsSpec => []ReconcileConsistent
<1>1. ReadsInv => ReconcileConsistent
  <2> SUFFICES ASSUME ReadsInv, NEW c \in Reader
               PROVE  /\ Replaying(c) => ~ReplayOverflows(c)
                      /\ ReplayDone(c) =>
                           LET r == reading[c]
                               answer == Reconciliation(c)
                           IN /\ ~SubOverflows(r.stored, r.calculated)
                              /\ answer.consistent
                              /\ answer.difference = Format(0)
                              /\ ParseMoney(answer.calculated.whole,
                                            answer.calculated.cents) = r.stored
    BY DEF ReconcileConsistent
  <2>1. ReadingOK(reading[c], listing[c])
    BY DEF ReadsInv, ReadingsOK
  <2>2. ASSUME Replaying(c)
        PROVE  ~ReplayOverflows(c)
    <3>1. PICK h \in Seq(Balance) : h = reading[c].entries
      BY <2>1, <2>2 DEF Replaying, Reads, ReadingOK, SnapshotOK
    <3>2. PICK v \in Versions(h) : v = reading[c].next
      BY <2>2, <3>1 DEF Replaying
    <3>3. reading[c].calculated = BalanceBefore(h, v)
      BY <2>1, <2>2, <3>1, <3>2 DEF Replaying, Reads, ReadingOK
    <3> QED BY <3>1, <3>2, <3>3, ReplayExact DEF ReplayOverflows
  <2>3. ASSUME ReplayDone(c)
        PROVE  LET r == reading[c]
                   answer == Reconciliation(c)
               IN /\ ~SubOverflows(r.stored, r.calculated)
                  /\ answer.consistent
                  /\ answer.difference = Format(0)
                  /\ ParseMoney(answer.calculated.whole,
                                answer.calculated.cents) = r.stored
    <3>1. PICK h \in Seq(Balance) : h = reading[c].entries
      BY <2>1, <2>3 DEF ReplayDone, Reads, ReadingOK, SnapshotOK
    <3>2. /\ h # <<>> /\ reading[c].stored = h[Len(h)]
          /\ reading[c].next \in FirstEntry(h)..(Len(h) + 1)
          /\ reading[c].calculated = BalanceBefore(h, reading[c].next)
          /\ reading[c].next \notin Versions(h)
      BY <2>1, <2>3, <3>1 DEF ReplayDone, Replaying, Reads, ReadingOK, SnapshotOK
    <3>3. Len(h) \in 1..Len(h) /\ reading[c].next = Len(h) + 1
      BY <3>2 DEF Versions, FirstEntry
    <3>4. PICK b \in Balance : b = h[Len(h)]
      BY <3>3, ElementOfSeq
    <3>5. reading[c].stored = b /\ reading[c].calculated = b
      <4>1. Len(h) + 1 # 1 /\ (Len(h) + 1) - 1 = Len(h)
        BY <3>3
      <4> QED BY <3>2, <3>3, <3>4, <4>1 DEF BalanceBefore
    <3>6. b \in Minor /\ b \in Nat /\ b - b = 0 /\ 0 \in Minor
      BY BalancesAreMinor, HalfAssumption DEF Balance, Minor
    <3>7. ~SubOverflows(b, b) /\ Subtracted(b, b) = 0
      BY <3>6, SubExact
    <3>8. Cmp(b, b) = 0
      BY <3>6 DEF Cmp
    <3>9. ParseMoney(Format(b).whole, Format(b).cents) = b
      BY <3>6, FormatExact
    <3>10. /\ Reconciliation(c).calculated = Format(b)
           /\ Reconciliation(c).difference = Format(Subtracted(b, b))
           /\ Reconciliation(c).consistent = (Cmp(b, b) = 0)
      BY <3>5 DEF Reconciliation
    <3> QED BY <3>5, <3>7, <3>8, <3>9, <3>10
  <2> QED BY <2>2, <2>3
<1> QED BY <1>1, ReadsInvariant, PTL
=============================================================================
