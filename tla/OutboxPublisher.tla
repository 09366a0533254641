--------------------------- MODULE OutboxPublisher ---------------------------
(***************************************************************************)
(* The outbox publisher of the workers role (adapters/sqs/publisher.go     *)
(* over the outbox table).  Several instances claim unpublished rows with  *)
(* a lease, send each to the FIFO queue wager-events.fifo under its stable *)
(* event id, and mark it published or hand it back with a later send time. *)
(*                                                                         *)
(* The module follows the events of one wallet, numbered in the order of   *)
(* their commits: the wallet is the message group, and events of different *)
(* groups meet only in the limit of a claim.  Times are abstracted: leases *)
(* run out by steps of their own, and a row handed back is due again at    *)
(* any later claim.  What the queue drops because it remembers the event   *)
(* id is its own affair: the module counts what the publishers send.       *)
(***************************************************************************)
EXTENDS Integers, Sequences, FiniteSets

CONSTANTS
  Event,        \* the events of the wallet, numbered in commit order
  Publisher,    \* instances of the workers role
  Limit,        \* rows of one claim (100 in the code)
  MaxFaults     \* bound on failed sends, failed updates and crashes

ASSUME OutboxAssumption ==
  /\ Event \subseteq Nat
  /\ IsFiniteSet(Event)
  /\ IsFiniteSet(Publisher)
  /\ Limit \in Nat \ {0}
  /\ MaxFaults \in Nat

VARIABLES
  row,          \* the outbox rows
  pub,          \* the volatile state of each publisher
  sent,         \* how often the queue was given each event
  outlived,     \* how often a lease of each event ran out under a holder
  faults        \* faults so far

vars == <<row, pub, sent, outlived, faults>>

-----------------------------------------------------------------------------
(***************************************************************************)
(* State.                                                                  *)
(***************************************************************************)

Row == [present : BOOLEAN, published : BOOLEAN,
        lease : {"none", "running", "over"}, attempts : Nat]

\* A claimed record as the publisher keeps it: attempts is the value read.
Record == [event : Event, attempts : Nat]

PubState == [pc : {"idle", "claim", "send", "mark", "nack"}, batch : Seq(Record)]

Idle == [pc |-> "idle", batch |-> <<>>]

Init ==
  /\ row = [e \in Event |-> [present |-> FALSE, published |-> FALSE,
                             lease |-> "none", attempts |-> 0]]
  /\ pub = [p \in Publisher |-> Idle]
  /\ sent = [e \in Event |-> 0]
  /\ outlived = [e \in Event |-> 0]
  /\ faults = 0

-----------------------------------------------------------------------------
(***************************************************************************)
(* The outbox table.                                                       *)
(***************************************************************************)

\* A transaction of the wallet commits its events, the last of them e.  The
\* wallet lock orders the commits; attempts and the send time are left at zero.
EnqueueOutbox(e) ==
  /\ ~row[e].present
  /\ row' = [d \in Event |-> IF d <= e THEN [row[d] EXCEPT !.present = TRUE] ELSE row[d]]
  /\ UNCHANGED <<pub, sent, outlived, faults>>

\* Mutant: published rows are claimed again.
Claimable_Published ==
  {e \in Event : row[e].present /\ row[e].lease # "running"}

\* Mutant: a lease that ran out still counts.
Claimable_NeverLeased ==
  {e \in Event : row[e].present /\ ~row[e].published /\ row[e].lease = "none"}

\* Unpublished rows without a running lease.
Claimable ==
  {e \in Event : row[e].present /\ ~row[e].published /\ row[e].lease # "running"}

Holds(p, e) == \E i \in 1..Len(pub[p].batch) : pub[p].batch[i].event = e

\* FOR UPDATE: the transaction of a claim locks its rows from select to commit.
Locked(e) == \E p \in Publisher : pub[p].pc = "claim" /\ Holds(p, e)

\* Mutant: a plain SELECT, which sees the rows that another claim has locked.
Selectable_NoLock == Claimable

\* SKIP LOCKED.
Selectable == {e \in Claimable : ~Locked(e)}

\* The rows of one claim.  A row never handed back has send time zero: it is
\* always due and comes before every row that was handed back.
Due(batch) ==
  LET fresh == {e \in Selectable : row[e].attempts = 0}
  IN  /\ Cardinality(batch) <= Limit
      /\ (Cardinality(batch) < Limit \/ batch \ fresh # {}) => fresh \subseteq batch

\* The query orders by send time alone: rows never handed back come in any
\* order among themselves, and so do the others, whose times are drawn.
Orders(batch) ==
  {s \in [1..Cardinality(batch) -> batch] :
     \A i, j \in 1..Cardinality(batch) :
       i < j => /\ s[i] # s[j]
                /\ row[s[j]].attempts = 0 => row[s[i]].attempts = 0}

\* ClaimOutbox, first half: the select.  Without rows the transaction is over.
SelectDue(p) ==
  /\ pub[p].pc = "idle"
  /\ \E batch \in SUBSET Selectable :
       /\ Due(batch)
       /\ \E s \in Orders(batch) :
            pub' = [pub EXCEPT ![p] =
                      [pc |-> IF batch = {} THEN "idle" ELSE "claim",
                       batch |-> [i \in 1..Cardinality(batch) |->
                                    [event |-> s[i], attempts |-> row[s[i]].attempts]]]]
  /\ UNCHANGED <<row, sent, outlived, faults>>

\* ClaimOutbox, second half: the updates take the leases, the commit frees the
\* locks.
CommitLeases(p) ==
  /\ pub[p].pc = "claim"
  /\ row' = [e \in Event |->
               IF Holds(p, e) THEN [row[e] EXCEPT !.lease = "running"] ELSE row[e]]
  /\ pub' = [pub EXCEPT ![p].pc = "send"]
  /\ UNCHANGED <<sent, outlived, faults>>

\* Neither update asks who holds the lease; both wait for a locked row.
Published(e) ==
  [row EXCEPT ![e].published = TRUE, ![e].lease = "none"]

Nacked(e, attempts) ==
  [row EXCEPT ![e].attempts = attempts, ![e].lease = "none"]

-----------------------------------------------------------------------------
(***************************************************************************)
(* PublishDueOutbox: one record after the other.                           *)
(***************************************************************************)

Current(p) == Head(pub[p].batch)

\* The loop goes on with the next record, or the tick is over.
Advanced(p) ==
  LET rest == Tail(pub[p].batch)
  IN  [pub EXCEPT ![p] = IF rest = <<>> THEN Idle ELSE [pc |-> "send", batch |-> rest]]

\* SendMessage reaches the queue, under the id of the event.
Accept(e) == sent' = [sent EXCEPT ![e] = @ + 1]

Publish(p) ==
  /\ pub[p].pc = "send"
  /\ Accept(Current(p).event)
  /\ pub' = [pub EXCEPT ![p].pc = "mark"]
  /\ UNCHANGED <<row, outlived, faults>>

\* Mutant: the error of the send is ignored.
PublishFails_Ignored(p) ==
  /\ pub[p].pc = "send"
  /\ faults < MaxFaults
  /\ Accept(Current(p).event) \/ UNCHANGED sent
  /\ pub' = [pub EXCEPT ![p].pc = "mark"]
  /\ faults' = faults + 1
  /\ UNCHANGED <<row, outlived>>

\* The call fails before the queue has the message, or its answer is lost.
PublishFails(p) ==
  /\ pub[p].pc = "send"
  /\ faults < MaxFaults
  /\ Accept(Current(p).event) \/ UNCHANGED sent
  /\ pub' = [pub EXCEPT ![p].pc = "nack"]
  /\ faults' = faults + 1
  /\ UNCHANGED <<row, outlived>>

MarkOutboxPublished(p) ==
  /\ pub[p].pc = "mark"
  /\ ~Locked(Current(p).event)
  /\ row' = Published(Current(p).event)
  /\ pub' = Advanced(p)
  /\ UNCHANGED <<sent, outlived, faults>>

\* The attempts written are those of the claim plus one.
NackOutbox(p) ==
  /\ pub[p].pc = "nack"
  /\ ~Locked(Current(p).event)
  /\ row' = Nacked(Current(p).event, Current(p).attempts + 1)
  /\ pub' = Advanced(p)
  /\ UNCHANGED <<sent, outlived, faults>>

\* An update that returns an error, whether or not it was applied, ends the
\* tick: the rest of the batch keeps its leases.
UpdateFails(p) ==
  /\ pub[p].pc \in {"mark", "nack"}
  /\ faults < MaxFaults
  /\ \/ UNCHANGED row
     \/ /\ ~Locked(Current(p).event)
        /\ \/ pub[p].pc = "mark" /\ row' = Published(Current(p).event)
           \/ pub[p].pc = "nack" /\ row' = Nacked(Current(p).event, Current(p).attempts + 1)
  /\ pub' = [pub EXCEPT ![p] = Idle]
  /\ faults' = faults + 1
  /\ UNCHANGED <<sent, outlived>>

\* The process dies, is stopped, or a claim fails or loses its answer: its locks
\* are free, its leases run on, and the same or another instance goes on later.
Crash(p) ==
  /\ pub[p].pc # "idle"
  /\ faults < MaxFaults
  /\ pub' = [pub EXCEPT ![p] = Idle]
  /\ faults' = faults + 1
  /\ UNCHANGED <<row, sent, outlived>>

-----------------------------------------------------------------------------
(***************************************************************************)
(* Time.                                                                   *)
(***************************************************************************)

\* OutboxLeaseTTL (30 s) is over.
LeaseExpires(e) ==
  /\ row[e].lease = "running"
  /\ row' = [row EXCEPT ![e].lease = "over"]
  /\ outlived' = IF \E p \in Publisher : Holds(p, e)
                 THEN [outlived EXCEPT ![e] = @ + 1] ELSE outlived
  /\ UNCHANGED <<pub, sent, faults>>

-----------------------------------------------------------------------------
Tick(p) ==
  \/ CommitLeases(p)
  \/ Publish(p)
  \/ PublishFails(p)
  \/ MarkOutboxPublished(p)
  \/ NackOutbox(p)
  \/ UpdateFails(p)

Next ==
  \/ \E e \in Event : EnqueueOutbox(e) \/ LeaseExpires(e)
  \/ \E p \in Publisher : SelectDue(p) \/ Tick(p) \/ Crash(p)

Spec == Init /\ [][Next]_vars

\* The loop polls every 500 ms, a tick that began goes on, time passes.
FairSpec ==
  /\ Spec
  /\ \A p \in Publisher : WF_vars(SelectDue(p)) /\ WF_vars(Tick(p))
  /\ \A e \in Event : WF_vars(LeaseExpires(e))

-----------------------------------------------------------------------------
(***************************************************************************)
(* Properties.                                                             *)
(***************************************************************************)

\* Rows, publishers and counters keep their types.
TypeOK ==
  /\ row \in [Event -> Row]
  /\ pub \in [Publisher -> PubState]
  /\ sent \in [Event -> Nat]
  /\ outlived \in [Event -> Nat]
  /\ faults \in Nat

\* MarkOutboxPublished never loses an event: a row marked published is one the
\* queue accepted, whichever publishers failed, died or outlived their leases.
PublishedWasSent ==
  \A e \in Event : row[e].published => sent[e] > 0

\* ClaimOutbox never gives a row to two publishers ("concurrent publishers never
\* double-claim"), between its select and its commit or later, unless a lease ran
\* out under a publisher that still had the row.
SoleHolder ==
  \A e \in Event : outlived[e] = 0 =>
    \A p, q \in Publisher : Holds(p, e) /\ Holds(q, e) => p = q

\* PublishDueOutbox sends an event again only for a reason: beside the first, every
\* send of an event is owed to a fault (a failed send or update, a crash) or to a
\* lease of it that ran out under a holder, and none of these is paid for twice,
\* though a stale holder may clear the lease of the next one.
ResendsExplained ==
  \A e \in Event : sent[e] <= 1 + faults + outlived[e]

\* RunOutboxPublisher publishes every committed event in the end: no failed send,
\* failed update or crash leaves a row that nobody claims again.
EventuallyPublished ==
  \A e \in Event : row[e].present ~> row[e].published

=============================================================================
