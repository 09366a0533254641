---------------------------- MODULE OutboxProofs ----------------------------
(***************************************************************************)
(* Proofs about OutboxPublisher, for any number of events, publishers and  *)
(* faults.                                                                 *)
(***************************************************************************)
EXTENDS OutboxPublisher, FiniteSetTheorems, SequenceTheorems, TLAPS

\* A publisher past its send has a record in hand; the events of a batch differ.
BatchOK ==
  \A p \in Publisher :
    /\ pub[p].pc # "idle" => pub[p].batch # <<>>
    /\ pub[p].pc = "idle" => pub[p].batch = <<>>
    /\ \A i, j \in 1..Len(pub[p].batch) :
         pub[p].batch[i].event = pub[p].batch[j].event => i = j

\* A publisher about to mark has had its event accepted.
MarksSent ==
  \A p \in Publisher : pub[p].pc = "mark" => sent[Current(p).event] > 0

\* After its commit a publisher holds an event without a running lease only if a
\* lease of it ran out under a holder.
HeldIsLeased ==
  \A p \in Publisher : pub[p].pc # "claim" =>
    \A e \in Event : outlived[e] = 0 /\ Holds(p, e) => row[e].lease = "running"

\* The publishers that have sent e and are about to mark it, and those that hold e
\* and have not: they will send it, or hand it back.
Marking(p, e) == pub[p].pc = "mark" /\ Current(p).event = e
Markers(e) == {p \in Publisher : Marking(p, e)}
Waiting(e) == {p \in Publisher : Holds(p, e) /\ ~Marking(p, e)}

\* Sends made and sends to come are paid for: as long as e is unpublished each send
\* is a fault's or still to be marked, and each holder has its send reserved; a row
\* that can be claimed has one to spare.
Tallied ==
  \A e \in Event :
    /\ ~row[e].published => sent[e] <= faults + Cardinality(Markers(e))
    /\ sent[e] + Cardinality(Waiting(e)) <= 1 + faults + outlived[e]
    /\ ~row[e].published /\ row[e].lease # "running" /\ ~Locked(e) =>
         sent[e] + Cardinality(Waiting(e)) <= faults + outlived[e]

\* The inductive invariant: a second claim needs a row that is neither locked nor
\* under a running lease, which HeldIsLeased allows only after an outlived lease.
IInv ==
  /\ TypeOK
  /\ BatchOK
  /\ MarksSent
  /\ HeldIsLeased
  /\ PublishedWasSent
  /\ SoleHolder
  /\ Tallied

-----------------------------------------------------------------------------
\* What the loop goes on with is the batch without its first record.
LEMMA TailFacts ==
  ASSUME NEW b \in Seq(Record), b # <<>>
  PROVE  /\ Head(b) \in Record
         /\ Tail(b) \in Seq(Record)
         /\ Len(b) \in Nat \ {0}
         /\ Head(b) = b[1]
         /\ Len(Tail(b)) = Len(b) - 1
         /\ \A i \in 1..Len(Tail(b)) : Tail(b)[i] = b[i + 1] /\ i + 1 \in 1..Len(b)
<1>1. Len(b) \in Nat \ {0} /\ Head(b) = b[1] /\ Head(b) \in Record
  BY EmptySeq, LenProperties
<1>2. /\ Tail(b) \in Seq(Record) /\ Len(Tail(b)) = Len(b) - 1
      /\ \A i \in 1..Len(Tail(b)) : Tail(b)[i] = b[i + 1]
  BY HeadTailProperties
<1>3. \A i \in 1..Len(Tail(b)) : i + 1 \in 1..Len(b)
  BY <1>1, <1>2
<1> QED  BY <1>1, <1>2, <1>3

\* Advanced changes p alone: it holds what it held except the record in hand.
LEMMA AdvancedFacts ==
  ASSUME TypeOK, BatchOK, NEW p \in Publisher, pub[p].pc # "idle",
         pub' = Advanced(p)
  PROVE  /\ pub' \in [Publisher -> PubState]
         /\ BatchOK'
         /\ pub'[p].pc \in {"idle", "send"}
         /\ \A q \in Publisher \ {p} : pub'[q] = pub[q]
         /\ \A e \in Event : Holds(p, e)' => Holds(p, e) /\ e # Current(p).event
         /\ Current(p).event \in Event
         /\ Current(p).attempts \in Nat
         /\ Holds(p, Current(p).event)
<1> DEFINE b == pub[p].batch
           rest == Tail(b)
<1>1. b \in Seq(Record) /\ b # <<>>
  BY DEF TypeOK, PubState, BatchOK
<1>2. /\ Head(b) \in Record /\ rest \in Seq(Record) /\ Len(b) \in Nat \ {0}
      /\ Head(b) = b[1] /\ Len(rest) = Len(b) - 1
      /\ \A i \in 1..Len(rest) : rest[i] = b[i + 1] /\ i + 1 \in 1..Len(b)
  BY <1>1, TailFacts
<1>3. pub' = [pub EXCEPT ![p] = IF rest = <<>> THEN Idle ELSE [pc |-> "send", batch |-> rest]]
  BY DEF Advanced
<1> HIDE DEF rest
<1>4. /\ pub'[p] = IF rest = <<>> THEN Idle ELSE [pc |-> "send", batch |-> rest]
      /\ \A q \in Publisher \ {p} : pub'[q] = pub[q]
      /\ pub'[p].batch = rest
      /\ pub'[p].pc \in {"idle", "send"}
  BY <1>3 DEF TypeOK, Idle
<1>5. pub' \in [Publisher -> PubState]
  <2>1. <<>> \in Seq(Record)
    BY EmptySeq
  <2> QED  BY <1>2, <1>3, <2>1 DEF TypeOK, PubState, Idle
<1>6. BatchOK'
  <2> SUFFICES ASSUME NEW q \in Publisher
               PROVE  /\ pub'[q].pc # "idle" => pub'[q].batch # <<>>
                      /\ pub'[q].pc = "idle" => pub'[q].batch = <<>>
                      /\ \A i, j \in 1..Len(pub'[q].batch) :
                           pub'[q].batch[i].event = pub'[q].batch[j].event => i = j
    BY DEF BatchOK
  <2>1. CASE q # p
    BY <1>4, <2>1 DEF BatchOK
  <2>2. CASE q = p
    <3>1. \A i, j \in 1..Len(rest) : rest[i].event = rest[j].event => i = j
      <4> SUFFICES ASSUME NEW i \in 1..Len(rest), NEW j \in 1..Len(rest),
                          rest[i].event = rest[j].event
                   PROVE  i = j
        OBVIOUS
      <4>1. /\ b[i + 1].event = b[j + 1].event
            /\ i + 1 \in 1..Len(b) /\ j + 1 \in 1..Len(b)
        BY <1>2
      <4>2. i + 1 = j + 1
        BY <4>1 DEF BatchOK
      <4>3. Len(rest) \in Nat
        BY <1>2
      <4> QED  BY <4>2, <4>3
    <3> QED  BY <1>4, <2>2, <3>1 DEF Idle
  <2> QED  BY <2>1, <2>2
<1>7. Current(p) = b[1] /\ 1 \in 1..Len(b)
  BY <1>2 DEF Current
<1>8. \A e \in Event : Holds(p, e)' => Holds(p, e) /\ e # Current(p).event
  <2> SUFFICES ASSUME NEW e \in Event, NEW i \in 1..Len(rest), rest[i].event = e
               PROVE  Holds(p, e) /\ e # Current(p).event
    BY <1>4 DEF Holds
  <2>1. b[i + 1].event = e /\ i + 1 \in 1..Len(b) /\ i + 1 # 1
    BY <1>2
  <2> QED  BY <2>1, <1>7 DEF Holds, BatchOK
<1>9. Current(p).event \in Event /\ Current(p).attempts \in Nat /\ Holds(p, Current(p).event)
  BY <1>2, <1>7 DEF Record, Holds, Current
<1> QED  BY <1>4, <1>5, <1>6, <1>8, <1>9

\* A publisher in its loop has a record in hand.
LEMMA CurrentFacts ==
  ASSUME TypeOK, BatchOK, NEW p \in Publisher, pub[p].pc # "idle"
  PROVE  /\ Current(p).event \in Event
         /\ Current(p).attempts \in Nat
         /\ Holds(p, Current(p).event)
<1> DEFINE b == pub[p].batch
<1>1. b \in Seq(Record) /\ b # <<>>
  BY DEF TypeOK, PubState, BatchOK
<1>2. Head(b) \in Record /\ Len(b) \in Nat \ {0} /\ Head(b) = b[1]
  BY <1>1, TailFacts
<1> QED  BY <1>2 DEF Record, Holds, Current

\* Sets of publishers that differ in p at most.
LEMMA CountStep ==
  ASSUME NEW p, NEW S \in SUBSET Publisher, NEW T \in SUBSET Publisher,
         S \ {p} = T \ {p}
  PROVE  /\ Cardinality(S) \in Nat /\ Cardinality(T) \in Nat
         /\ Cardinality(T) = Cardinality(S) + (IF p \in T THEN 1 ELSE 0)
                                            - (IF p \in S THEN 1 ELSE 0)
<1>1. IsFiniteSet(S) /\ IsFiniteSet(T)
  BY OutboxAssumption, FS_Subset DEF OutboxAssumption
<1>2. Cardinality(S) \in Nat /\ Cardinality(T) \in Nat
  BY <1>1, FS_CardinalityType
<1>3. Cardinality(S \ {p}) = IF p \in S THEN Cardinality(S) - 1 ELSE Cardinality(S)
  BY <1>1, FS_RemoveElement
<1>4. Cardinality(T \ {p}) = IF p \in T THEN Cardinality(T) - 1 ELSE Cardinality(T)
  BY <1>1, FS_RemoveElement
<1> QED  BY <1>2, <1>3, <1>4

\* Both counts of an event are natural numbers.
LEMMA CountTypes ==
  \A e \in Event : Cardinality(Waiting(e)) \in Nat /\ Cardinality(Markers(e)) \in Nat
<1> SUFFICES ASSUME NEW e \in Event
             PROVE  Cardinality(Waiting(e)) \in Nat /\ Cardinality(Markers(e)) \in Nat
  OBVIOUS
<1>1. Waiting(e) \in SUBSET Publisher /\ Markers(e) \in SUBSET Publisher
  BY DEF Waiting, Markers
<1> QED  BY <1>1, CountStep

\* A step of p alone moves the counts by what p does.
LEMMA OneMoves ==
  ASSUME NEW p \in Publisher, \A q \in Publisher \ {p} : pub'[q] = pub[q]
  PROVE  \A e \in Event :
           /\ Cardinality(Waiting(e)) \in Nat /\ Cardinality(Waiting(e))' \in Nat
           /\ Cardinality(Markers(e)) \in Nat /\ Cardinality(Markers(e))' \in Nat
           /\ Cardinality(Waiting(e))' =
                Cardinality(Waiting(e)) + (IF Holds(p, e)' /\ ~Marking(p, e)' THEN 1 ELSE 0)
                                        - (IF Holds(p, e) /\ ~Marking(p, e) THEN 1 ELSE 0)
           /\ Cardinality(Markers(e))' =
                Cardinality(Markers(e)) + (IF Marking(p, e)' THEN 1 ELSE 0)
                                        - (IF Marking(p, e) THEN 1 ELSE 0)
<1> SUFFICES ASSUME NEW e \in Event
             PROVE  /\ Cardinality(Waiting(e)) \in Nat /\ Cardinality(Waiting(e))' \in Nat
                    /\ Cardinality(Markers(e)) \in Nat /\ Cardinality(Markers(e))' \in Nat
                    /\ Cardinality(Waiting(e))' =
                         Cardinality(Waiting(e))
                           + (IF Holds(p, e)' /\ ~Marking(p, e)' THEN 1 ELSE 0)
                           - (IF Holds(p, e) /\ ~Marking(p, e) THEN 1 ELSE 0)
                    /\ Cardinality(Markers(e))' =
                         Cardinality(Markers(e)) + (IF Marking(p, e)' THEN 1 ELSE 0)
                                                 - (IF Marking(p, e) THEN 1 ELSE 0)
  OBVIOUS
<1>1. \A q \in Publisher \ {p} : /\ Holds(q, e)' <=> Holds(q, e)
                                 /\ Marking(q, e)' <=> Marking(q, e)
  BY DEF Holds, Marking, Current
<1>2. PICK S \in SUBSET Publisher : S = Waiting(e)
  BY DEF Waiting
<1>3. PICK T \in SUBSET Publisher : T = Waiting(e)'
  BY DEF Waiting
<1>4. /\ S \ {p} = T \ {p}
      /\ p \in S <=> Holds(p, e) /\ ~Marking(p, e)
      /\ p \in T <=> Holds(p, e)' /\ ~Marking(p, e)'
  BY <1>1, <1>2, <1>3 DEF Waiting
<1>5. PICK M \in SUBSET Publisher : M = Markers(e)
  BY DEF Markers
<1>6. PICK N \in SUBSET Publisher : N = Markers(e)'
  BY DEF Markers
<1>7. /\ M \ {p} = N \ {p}
      /\ p \in M <=> Marking(p, e)
      /\ p \in N <=> Marking(p, e)'
  BY <1>1, <1>5, <1>6 DEF Markers
<1>8. /\ Cardinality(S) \in Nat /\ Cardinality(T) \in Nat
      /\ Cardinality(T) = Cardinality(S) + (IF p \in T THEN 1 ELSE 0)
                                         - (IF p \in S THEN 1 ELSE 0)
  BY <1>4, CountStep
<1>9. /\ Cardinality(M) \in Nat /\ Cardinality(N) \in Nat
      /\ Cardinality(N) = Cardinality(M) + (IF p \in N THEN 1 ELSE 0)
                                         - (IF p \in M THEN 1 ELSE 0)
  BY <1>7, CountStep
<1> QED  BY <1>2, <1>3, <1>4, <1>5, <1>6, <1>7, <1>8, <1>9

-----------------------------------------------------------------------------
(***************************************************************************)
(* One lemma per action.                                                   *)
(***************************************************************************)

\* Steps that leave batches, sends and marks alone, and no lease of a held event
\* ends unnoticed: EnqueueOutbox, LeaseExpires, and no step at all.
LEMMA RowStep ==
  ASSUME IInv, row' \in [Event -> Row], outlived' \in [Event -> Nat],
         \A e \in Event : outlived'[e] >= outlived[e],
         UNCHANGED <<pub, sent, faults>>,
         \A e \in Event : row'[e].published = row[e].published,
         \A e \in Event : row'[e].lease = row[e].lease \/ row[e].lease = "running",
         \A e \in Event : \A p \in Publisher :
           outlived'[e] = outlived[e] /\ Holds(p, e) => row'[e].lease = row[e].lease
  PROVE  IInv'
<1> USE DEF IInv
<1>1. TypeOK' /\ BatchOK' /\ MarksSent' /\ PublishedWasSent'
  BY DEF TypeOK, BatchOK, MarksSent, Current, PublishedWasSent
<1>2. /\ \A p \in Publisher, e \in Event : Holds(p, e)' <=> Holds(p, e)
      /\ \A e \in Event : /\ Locked(e)' <=> Locked(e)
                          /\ Waiting(e)' = Waiting(e) /\ Markers(e)' = Markers(e)
  BY DEF Holds, Locked, Waiting, Markers, Marking, Current
<1>3. \A e \in Event : /\ outlived[e] \in Nat /\ outlived'[e] \in Nat /\ outlived'[e] >= outlived[e]
                       /\ sent[e] \in Nat /\ faults \in Nat
                       /\ Cardinality(Waiting(e)) \in Nat /\ Cardinality(Markers(e)) \in Nat
  BY CountTypes DEF TypeOK
<1>4. \A e \in Event : outlived'[e] = 0 => outlived[e] = 0
  BY <1>3
<1>5. HeldIsLeased'
  BY <1>2, <1>4 DEF HeldIsLeased
<1>6. SoleHolder'
  BY <1>2, <1>4 DEF SoleHolder
<1>7. Tallied'
  <2> SUFFICES ASSUME NEW e \in Event
               PROVE  /\ ~row'[e].published => sent[e] <= faults + Cardinality(Markers(e))
                      /\ sent[e] + Cardinality(Waiting(e)) <= 1 + faults + outlived'[e]
                      /\ ~row'[e].published /\ row'[e].lease # "running" /\ ~Locked(e) =>
                           sent[e] + Cardinality(Waiting(e)) <= faults + outlived'[e]
    BY <1>2 DEF Tallied
  <2>1. /\ ~row[e].published => sent[e] <= faults + Cardinality(Markers(e))
        /\ sent[e] + Cardinality(Waiting(e)) <= 1 + faults + outlived[e]
        /\ ~row[e].published /\ row[e].lease # "running" /\ ~Locked(e) =>
             sent[e] + Cardinality(Waiting(e)) <= faults + outlived[e]
    BY DEF Tallied
  <2>2. CASE outlived'[e] > outlived[e]
    BY <1>3, <2>1, <2>2
  <2>3. CASE row'[e].lease = row[e].lease
    BY <1>3, <2>1, <2>3
  <2>4. CASE outlived'[e] = outlived[e] /\ row'[e].lease # row[e].lease
    <3>1. \A p \in Publisher : ~Holds(p, e)
      BY <2>4
    <3>2. \A p \in Publisher : ~Marking(p, e)
      BY <3>1, CurrentFacts DEF Marking
    <3>3. Waiting(e) = {} /\ Markers(e) = {}
      BY <3>1, <3>2 DEF Waiting, Markers
    <3>4. Cardinality(Waiting(e)) = 0 /\ Cardinality(Markers(e)) = 0
      BY <3>3, FS_EmptySet
    <3> QED  BY <1>3, <2>1, <3>4
  <2> QED  BY <1>3, <2>2, <2>3, <2>4
<1> QED  BY <1>1, <1>5, <1>6, <1>7

\* A commit adds events.
LEMMA EnqueueOutboxKeeps ==
  ASSUME IInv, NEW e \in Event, EnqueueOutbox(e)
  PROVE  IInv'
<1>1. row \in [Event -> Row] /\ outlived \in [Event -> Nat]
  BY DEF IInv, TypeOK
<1>2. \A d \in Event : row'[d] \in Row /\ row'[d].published = row[d].published
                                     /\ row'[d].lease = row[d].lease
  BY <1>1 DEF EnqueueOutbox, Row
<1>3. row' \in [Event -> Row]
  BY <1>2 DEF EnqueueOutbox
<1>4. /\ outlived' \in [Event -> Nat] /\ \A d \in Event : outlived'[d] >= outlived[d]
      /\ UNCHANGED <<pub, sent, faults>>
  BY <1>1 DEF EnqueueOutbox
<1> QED  BY <1>2, <1>3, <1>4, RowStep

\* A lease runs out.
LEMMA LeaseExpiresKeeps ==
  ASSUME IInv, NEW e \in Event, LeaseExpires(e)
  PROVE  IInv'
<1>1. row \in [Event -> Row] /\ outlived \in [Event -> Nat]
  BY DEF IInv, TypeOK
<1>2. row' \in [Event -> Row] /\ outlived' \in [Event -> Nat]
  BY <1>1 DEF LeaseExpires, Row
<1>3. \A d \in Event : /\ row'[d].published = row[d].published
                       /\ row'[d].lease = row[d].lease \/ row[d].lease = "running"
                       /\ d # e => row'[d] = row[d]
                       /\ outlived'[d] >= outlived[d]
  BY <1>1 DEF LeaseExpires, Row
<1>4. \A p \in Publisher : Holds(p, e) => outlived'[e] # outlived[e]
  BY <1>1 DEF LeaseExpires
<1>5. UNCHANGED <<pub, sent, faults>>
  BY DEF LeaseExpires
<1>6. \A d \in Event : \A p \in Publisher :
        outlived'[d] = outlived[d] /\ Holds(p, d) => row'[d].lease = row[d].lease
  BY <1>3, <1>4
<1> QED  BY <1>2, <1>3, <1>5, <1>6, RowStep

\* A send, whatever its outcome: the publisher marks only what was accepted, and a
\* send that is not to be marked is a fault.
LEMMA SendStep ==
  ASSUME IInv, NEW p \in Publisher, pub[p].pc = "send",
         NEW next \in {"mark", "nack"}, pub' = [pub EXCEPT ![p].pc = next],
         \/ Accept(Current(p).event)
         \/ next = "nack" /\ UNCHANGED sent,
         faults' = IF next = "nack" THEN faults + 1 ELSE faults,
         UNCHANGED <<row, outlived>>
  PROVE  IInv'
<1> USE DEF IInv
<1>1. PICK e \in Event : e = Current(p).event /\ Holds(p, e)
  BY CurrentFacts
<1>2. faults \in Nat /\ sent \in [Event -> Nat] /\ outlived \in [Event -> Nat]
  BY DEF TypeOK
<1>3. /\ sent' \in [Event -> Nat] /\ faults' \in Nat
      /\ \A d \in Event \ {e} : sent'[d] = sent[d]
      /\ sent'[e] = sent[e] + 1 \/ sent'[e] = sent[e]
      /\ next = "mark" => sent'[e] = sent[e] + 1
  <2>1. CASE Accept(e)
    BY <1>2, <2>1 DEF Accept
  <2>2. CASE next = "nack" /\ UNCHANGED sent
    BY <1>2, <2>2
  <2> QED  BY <1>1, <2>1, <2>2
<1>4. pub \in [Publisher -> PubState]
  BY DEF TypeOK
<1>5. /\ pub' \in [Publisher -> PubState]
      /\ \A q \in Publisher : pub'[q].batch = pub[q].batch
      /\ \A q \in Publisher \ {p} : pub'[q] = pub[q]
      /\ pub'[p].pc = next
  BY <1>4 DEF PubState
<1>6. \A q \in Publisher : /\ Current(q)' = Current(q)
                           /\ pub'[q].pc = "claim" <=> pub[q].pc = "claim"
                           /\ \A d \in Event : Holds(q, d)' <=> Holds(q, d)
  BY <1>5 DEF Current, Holds
<1>7. TypeOK'
  BY <1>3, <1>5 DEF TypeOK
<1>8. BatchOK'
  BY <1>5 DEF BatchOK
<1>9. \A d \in Event : sent[d] \in Nat /\ sent'[d] \in Nat /\ sent'[d] >= sent[d]
  BY <1>2, <1>3
<1>10. PublishedWasSent'
  BY <1>9 DEF PublishedWasSent
<1>11. MarksSent'
  <2> SUFFICES ASSUME NEW q \in Publisher, pub'[q].pc = "mark"
               PROVE  sent'[Current(q).event] > 0
    BY <1>6 DEF MarksSent
  <2>1. CASE q = p
    BY <1>1, <1>2, <1>3, <1>5, <2>1
  <2>2. CASE q # p
    <3>1. pub[q].pc = "mark" /\ sent[Current(q).event] > 0 /\ Current(q).event \in Event
      BY <1>5, <2>2, CurrentFacts DEF MarksSent
    <3> QED  BY <1>9, <3>1
  <2> QED  BY <2>1, <2>2
<1>12. HeldIsLeased' /\ SoleHolder'
  BY <1>6 DEF HeldIsLeased, SoleHolder
<1>13. Tallied'
  <2> SUFFICES ASSUME NEW d \in Event
               PROVE  /\ ~row[d].published => sent'[d] <= faults' + Cardinality(Markers(d))'
                      /\ sent'[d] + Cardinality(Waiting(d))' <= 1 + faults' + outlived[d]
                      /\ ~row[d].published /\ row[d].lease # "running" /\ ~Locked(d) =>
                           sent'[d] + Cardinality(Waiting(d))' <= faults' + outlived[d]
    <3>1. \A d \in Event : Locked(d)' <=> Locked(d)
      BY <1>6 DEF Locked
    <3> QED  BY <3>1 DEF Tallied
  <2>1. /\ Holds(p, d)' <=> Holds(p, d)
        /\ ~Marking(p, d)
        /\ Marking(p, d)' <=> d = e /\ next = "mark"
    BY <1>1, <1>5, <1>6 DEF Marking
  <2>2. /\ Cardinality(Waiting(d)) \in Nat /\ Cardinality(Markers(d)) \in Nat
        /\ Cardinality(Waiting(d))' =
             IF d = e /\ next = "mark" THEN Cardinality(Waiting(d)) - 1
                                       ELSE Cardinality(Waiting(d))
        /\ Cardinality(Markers(d))' =
             IF d = e /\ next = "mark" THEN Cardinality(Markers(d)) + 1
                                       ELSE Cardinality(Markers(d))
    BY <1>1, <1>5, <2>1, OneMoves
  <2>3. /\ ~row[d].published => sent[d] <= faults + Cardinality(Markers(d))
        /\ sent[d] + Cardinality(Waiting(d)) <= 1 + faults + outlived[d]
        /\ ~row[d].published /\ row[d].lease # "running" /\ ~Locked(d) =>
             sent[d] + Cardinality(Waiting(d)) <= faults + outlived[d]
    BY DEF Tallied
  <2>4. sent[d] \in Nat /\ outlived[d] \in Nat
    BY <1>2
  <2>5. CASE d = e /\ next = "mark"
    BY <1>2, <1>3, <2>2, <2>3, <2>4, <2>5
  <2>6. CASE d = e /\ next = "nack"
    BY <1>2, <1>3, <2>2, <2>3, <2>4, <2>6
  <2>7. CASE d # e
    BY <1>2, <1>3, <2>2, <2>3, <2>4, <2>7
  <2> QED  BY <2>5, <2>6, <2>7
<1> QED  BY <1>7, <1>8, <1>10, <1>11, <1>12, <1>13

\* A publisher is done with the record in hand, or a fault ends its tick: only the
\* row of that record changes, and it is marked only after its send.
LEMMA UpdateStep ==
  ASSUME IInv, NEW p \in Publisher, pub[p].pc # "idle",
         \/ /\ pub[p].pc = "mark" /\ row' = Published(Current(p).event)
            /\ pub' = Advanced(p) /\ faults' = faults
         \/ /\ pub[p].pc = "nack" /\ row' = Nacked(Current(p).event, Current(p).attempts + 1)
            /\ pub' = Advanced(p) /\ faults' = faults
         \/ /\ \/ UNCHANGED row
               \/ pub[p].pc = "mark" /\ row' = Published(Current(p).event)
               \/ pub[p].pc = "nack" /\ row' = Nacked(Current(p).event, Current(p).attempts + 1)
            /\ pub' = [pub EXCEPT ![p] = Idle] /\ faults' = faults + 1,
         UNCHANGED <<sent, outlived>>
  PROVE  IInv'
<1> USE DEF IInv
<1>0. Current(p).attempts + 1 \in Nat
  BY CurrentFacts
<1>1. PICK e \in Event : e = Current(p).event /\ Holds(p, e)
  BY CurrentFacts
<1>2. /\ pub' \in [Publisher -> PubState] /\ BatchOK'
      /\ pub'[p].pc \in {"idle", "send"}
      /\ \A q \in Publisher \ {p} : pub'[q] = pub[q]
      /\ \A d \in Event : Holds(p, d)' => Holds(p, d) /\ d # e
  <2>1. CASE pub' = Advanced(p)
    BY <1>1, <2>1, AdvancedFacts
  <2>2. CASE pub' = [pub EXCEPT ![p] = Idle]
    <3>1. <<>> \in Seq(Record) /\ Len(<<>>) = 0
      BY EmptySeq
    <3>2. /\ pub' \in [Publisher -> PubState] /\ pub'[p] = Idle
          /\ \A q \in Publisher \ {p} : pub'[q] = pub[q]
      BY <2>2, <3>1 DEF TypeOK, PubState, Idle
    <3>3. \A d \in Event : ~Holds(p, d)'
      BY <3>1, <3>2 DEF Holds, Idle
    <3>4. BatchOK'
      BY <3>1, <3>2 DEF BatchOK, Idle
    <3> QED  BY <3>2, <3>3, <3>4 DEF Idle
  <2> QED  BY <2>1, <2>2
<1>3. /\ row' \in [Event -> Row]
      /\ \A d \in Event \ {e} : row'[d] = row[d]
      /\ row[e].published => row'[e].published
      /\ row'[e].published => row[e].published \/ pub[p].pc = "mark"
  <2>1. row \in [Event -> Row]
    BY DEF TypeOK
  <2>2. CASE UNCHANGED row
    BY <2>1, <2>2
  <2>3. CASE pub[p].pc = "mark" /\ row' = Published(e)
    <3>1. row' = [row EXCEPT ![e] = [@ EXCEPT !.published = TRUE, !.lease = "none"]]
      BY <2>1, <2>3 DEF Published
    <3>2. [row[e] EXCEPT !.published = TRUE, !.lease = "none"] \in Row
      BY <2>1 DEF Row
    <3> QED  BY <2>1, <2>3, <3>1, <3>2
  <2>4. CASE row' = Nacked(e, Current(p).attempts + 1)
    BY <1>0, <2>1, <2>4 DEF Row, Nacked
  <2> QED  BY <1>1, <2>2, <2>3, <2>4
<1>4. \A q \in Publisher \ {p} : /\ Current(q)' = Current(q)
                                 /\ \A d \in Event : Holds(q, d)' <=> Holds(q, d)
  BY <1>2 DEF Current, Holds
<1>5. faults \in Nat /\ faults' \in Nat
  BY DEF TypeOK
<1>6. TypeOK'
  BY <1>2, <1>3, <1>5 DEF TypeOK
<1>7. MarksSent'
  BY <1>2, <1>4 DEF MarksSent
<1>8. PublishedWasSent'
  BY <1>1, <1>3 DEF PublishedWasSent, MarksSent
<1>9. HeldIsLeased'
  <2> SUFFICES ASSUME NEW q \in Publisher, NEW d \in Event, pub'[q].pc # "claim",
                      outlived[d] = 0, Holds(q, d)'
               PROVE  row'[d].lease = "running"
    BY DEF HeldIsLeased
  <2>1. Holds(q, d)
    BY <1>2, <1>4
  <2>2. d # e
    <3>1. CASE q = p
      BY <1>2, <3>1
    <3>2. CASE q # p
      BY <1>1, <2>1, <3>2 DEF SoleHolder
    <3> QED  BY <3>1, <3>2
  <2>3. CASE q # p
    BY <1>2, <1>3, <2>1, <2>2, <2>3 DEF HeldIsLeased
  <2>4. CASE q = p
    <3>1. pub[p].pc # "claim"
      <4>1. CASE pub[p].pc \in {"mark", "nack"}
        BY <4>1
      <4>2. CASE pub' = [pub EXCEPT ![p] = Idle]
        <5>1. pub'[p].batch = <<>> /\ Len(<<>>) = 0
          BY <4>2, EmptySeq DEF TypeOK, Idle
        <5> QED  BY <2>4, <5>1 DEF Holds
      <4> QED  BY <4>1, <4>2
    <3> QED  BY <1>3, <2>1, <2>2, <2>4, <3>1 DEF HeldIsLeased
  <2> QED  BY <2>3, <2>4
<1>10. SoleHolder'
  BY <1>2, <1>4 DEF SoleHolder
<1>11. Tallied'
  <2> SUFFICES ASSUME NEW d \in Event
               PROVE  /\ ~row'[d].published => sent[d] <= faults' + Cardinality(Markers(d))'
                      /\ sent[d] + Cardinality(Waiting(d))' <= 1 + faults' + outlived[d]
                      /\ ~row'[d].published /\ row'[d].lease # "running" /\ ~Locked(d)' =>
                           sent[d] + Cardinality(Waiting(d))' <= faults' + outlived[d]
    BY DEF Tallied
  <2>1. /\ Holds(p, d)' => Holds(p, d) /\ d # e
        /\ ~Marking(p, d)'
        /\ Marking(p, d) <=> d = e /\ pub[p].pc = "mark"
    BY <1>1, <1>2 DEF Marking
  <2>2. /\ Cardinality(Waiting(d)) \in Nat /\ Cardinality(Waiting(d))' \in Nat
        /\ Cardinality(Markers(d)) \in Nat /\ Cardinality(Markers(d))' \in Nat
        /\ Cardinality(Waiting(d))' <= Cardinality(Waiting(d))
        /\ d = e /\ pub[p].pc # "mark" =>
             Cardinality(Waiting(d))' = Cardinality(Waiting(d)) - 1
        /\ Cardinality(Markers(d))' =
             IF d = e /\ pub[p].pc = "mark" THEN Cardinality(Markers(d)) - 1
                                            ELSE Cardinality(Markers(d))
    BY <1>1, <1>2, <2>1, OneMoves
  <2>3. /\ ~row[d].published => sent[d] <= faults + Cardinality(Markers(d))
        /\ sent[d] + Cardinality(Waiting(d)) <= 1 + faults + outlived[d]
        /\ ~row[d].published /\ row[d].lease # "running" /\ ~Locked(d) =>
             sent[d] + Cardinality(Waiting(d)) <= faults + outlived[d]
    BY DEF Tallied
  <2>4. sent[d] \in Nat /\ outlived[d] \in Nat
    BY DEF TypeOK
  <2>5. row[d].published => row'[d].published
    BY <1>3
  <2>6. CASE faults' = faults + 1
    BY <1>5, <2>2, <2>3, <2>4, <2>5, <2>6
  <2>7. CASE faults' = faults
    <3>1. /\ pub[p].pc \in {"mark", "nack"}
          /\ d = e /\ pub[p].pc = "mark" => row'[d].published
      <4>1. CASE pub[p].pc = "mark" /\ row' = Published(e)
        BY <4>1 DEF Published, TypeOK, Row
      <4>2. CASE pub[p].pc = "nack"
        BY <4>2
      <4> QED  BY <1>1, <1>5, <2>7, <4>1, <4>2
    <3>2. Locked(d)' <=> Locked(d)
      BY <1>2, <1>4, <3>1 DEF Locked
    <3>3. CASE d = e
      BY <1>5, <2>2, <2>3, <2>4, <2>5, <2>7, <3>1, <3>3
    <3>4. CASE d # e
      <4>1. row'[d] = row[d]
        BY <1>3, <3>4
      <4> QED  BY <1>5, <2>2, <2>3, <2>4, <2>7, <3>2, <3>4, <4>1
    <3> QED  BY <3>3, <3>4
  <2> QED  BY <2>6, <2>7
<1> QED  BY <1>2, <1>6, <1>7, <1>8, <1>9, <1>10, <1>11

\* A select takes rows that nobody has locked and that have no running lease: nobody
\* holds them unless a lease of them ran out, and each has a send to spare.
LEMMA SelectDueKeeps ==
  ASSUME IInv, NEW p \in Publisher, SelectDue(p)
  PROVE  IInv'
<1> USE DEF IInv
<1>1. PICK batch \in SUBSET Selectable :
        \E s \in Orders(batch) :
          pub' = [pub EXCEPT ![p] =
                    [pc |-> IF batch = {} THEN "idle" ELSE "claim",
                     batch |-> [i \in 1..Cardinality(batch) |->
                                  [event |-> s[i], attempts |-> row[s[i]].attempts]]]]
  BY DEF SelectDue
<1>2. PICK s \in Orders(batch) :
          pub' = [pub EXCEPT ![p] =
                    [pc |-> IF batch = {} THEN "idle" ELSE "claim",
                     batch |-> [i \in 1..Cardinality(batch) |->
                                  [event |-> s[i], attempts |-> row[s[i]].attempts]]]]
  BY <1>1
<1>3. PICK n \in Nat : n = Cardinality(batch) /\ (batch = {} <=> n = 0)
  <2>1. IsFiniteSet(batch)
    BY <1>1, OutboxAssumption, FS_Subset DEF OutboxAssumption, Selectable, Claimable
  <2> QED  BY <2>1, FS_CardinalityType, FS_EmptySet
<1> DEFINE b == [i \in 1..n |-> [event |-> s[i], attempts |-> row[s[i]].attempts]]
           st == [pc |-> IF batch = {} THEN "idle" ELSE "claim", batch |-> b]
<1>4. row \in [Event -> Row] /\ pub \in [Publisher -> PubState] /\ batch \subseteq Event
  BY DEF TypeOK, Selectable, Claimable
<1>5. /\ s \in [1..n -> batch]
      /\ \A i, j \in 1..n : i < j => s[i] # s[j]
  BY <1>3 DEF Orders
<1>6. \A e \in batch : ~row[e].published /\ row[e].lease # "running" /\ ~Locked(e)
  BY DEF Selectable, Claimable
<1>7. UNCHANGED <<row, sent, outlived, faults>> /\ pub[p].pc = "idle" /\ pub[p].batch = <<>>
  BY DEF SelectDue, BatchOK
<1>8. /\ b \in Seq(Record) /\ Len(b) = n
      /\ \A i \in 1..n : b[i].event = s[i] /\ s[i] \in batch
  <2>1. \A i \in 1..n : s[i] \in batch /\ [event |-> s[i], attempts |-> row[s[i]].attempts] \in Record
    BY <1>4, <1>5 DEF Record, Row
  <2>2. b \in [1..n -> Record]
    BY <2>1
  <2> QED  BY <2>1, <2>2
<1>9. pub' = [pub EXCEPT ![p] = st]
  BY <1>2, <1>3
<1> HIDE DEF b
<1>10. /\ pub' \in [Publisher -> PubState]
       /\ pub'[p].batch = b /\ pub'[p].pc = IF n = 0 THEN "idle" ELSE "claim"
       /\ \A q \in Publisher \ {p} : pub'[q] = pub[q]
  BY <1>3, <1>4, <1>8, <1>9 DEF PubState
<1>11. TypeOK' /\ PublishedWasSent'
  BY <1>7, <1>10 DEF TypeOK, PublishedWasSent
<1>12. BatchOK'
  <2> SUFFICES ASSUME NEW q \in Publisher
               PROVE  /\ pub'[q].pc # "idle" => pub'[q].batch # <<>>
                      /\ pub'[q].pc = "idle" => pub'[q].batch = <<>>
                      /\ \A i, j \in 1..Len(pub'[q].batch) :
                           pub'[q].batch[i].event = pub'[q].batch[j].event => i = j
    BY DEF BatchOK
  <2>1. CASE q # p
    BY <1>10, <2>1 DEF BatchOK
  <2>2. CASE q = p
    <3>1. \A i, j \in 1..n : b[i].event = b[j].event => i = j
      BY <1>3, <1>5, <1>8
    <3>2. n = 0 <=> b = <<>>
      BY <1>8, EmptySeq
    <3> QED  BY <1>8, <1>10, <2>2, <3>1, <3>2
  <2> QED  BY <2>1, <2>2
<1>13. MarksSent'
  BY <1>7, <1>10 DEF MarksSent, Current
<1>14. \A e \in Event : /\ Holds(p, e)' => e \in batch
                        /\ ~Holds(p, e)
                        /\ \A q \in Publisher \ {p} : Holds(q, e)' <=> Holds(q, e)
  <2>1. Len(<<>>) = 0
    BY EmptySeq
  <2> QED  BY <1>7, <1>8, <1>10, <2>1 DEF Holds
<1>15. HeldIsLeased'
  <2> SUFFICES ASSUME NEW q \in Publisher, NEW e \in Event, pub'[q].pc # "claim",
                      outlived[e] = 0, Holds(q, e)'
               PROVE  row[e].lease = "running"
    BY <1>7 DEF HeldIsLeased
  <2>1. q # p
    <3>1. CASE n = 0
      BY <1>8, <1>10, <3>1 DEF Holds
    <3>2. CASE n # 0
      BY <1>10, <3>2
    <3> QED  BY <3>1, <3>2
  <2> QED  BY <1>10, <1>14, <2>1 DEF HeldIsLeased
<1>16. \A e \in batch, q \in Publisher : outlived[e] = 0 => ~Holds(q, e)
  BY <1>4, <1>6 DEF HeldIsLeased, Locked
<1>17. SoleHolder'
  BY <1>7, <1>14, <1>16 DEF SoleHolder
<1>18. Tallied'
  <2> SUFFICES ASSUME NEW e \in Event
               PROVE  /\ ~row[e].published => sent[e] <= faults + Cardinality(Markers(e))'
                      /\ sent[e] + Cardinality(Waiting(e))' <= 1 + faults + outlived[e]
                      /\ ~row[e].published /\ row[e].lease # "running" /\ ~Locked(e)' =>
                           sent[e] + Cardinality(Waiting(e))' <= faults + outlived[e]
    BY <1>7 DEF Tallied
  <2>1. ~Marking(p, e) /\ ~Marking(p, e)'
    BY <1>7, <1>10 DEF Marking
  <2>2. /\ Cardinality(Waiting(e)) \in Nat
        /\ Cardinality(Waiting(e))' =
             IF Holds(p, e)' THEN Cardinality(Waiting(e)) + 1 ELSE Cardinality(Waiting(e))
        /\ Cardinality(Markers(e)) \in Nat
        /\ Cardinality(Markers(e))' = Cardinality(Markers(e))
    BY <1>10, <1>14, <2>1, OneMoves
  <2>3. /\ ~row[e].published => sent[e] <= faults + Cardinality(Markers(e))
        /\ sent[e] + Cardinality(Waiting(e)) <= 1 + faults + outlived[e]
        /\ ~row[e].published /\ row[e].lease # "running" /\ ~Locked(e) =>
             sent[e] + Cardinality(Waiting(e)) <= faults + outlived[e]
    BY DEF Tallied
  <2>4. sent[e] \in Nat /\ outlived[e] \in Nat /\ faults \in Nat
    BY DEF TypeOK
  <2>5. CASE Holds(p, e)'
    <3>1. e \in batch
      BY <1>14, <2>5
    <3>2. Locked(e)'
      <4>1. pub'[p].pc = "claim"
        BY <1>3, <1>10, <3>1
      <4> QED  BY <2>5, <4>1 DEF Locked
    <3> QED  BY <1>6, <2>2, <2>3, <2>4, <2>5, <3>1, <3>2
  <2>6. CASE ~Holds(p, e)'
    <3>1. Locked(e)' <=> Locked(e)
      BY <1>10, <1>14, <2>6 DEF Locked
    <3> QED  BY <2>2, <2>3, <2>4, <2>6, <3>1
  <2> QED  BY <2>5, <2>6
<1> QED  BY <1>11, <1>12, <1>13, <1>15, <1>17, <1>18

\* The commit of a claim leases the rows it has locked.
LEMMA CommitLeasesKeeps ==
  ASSUME IInv, NEW p \in Publisher, CommitLeases(p)
  PROVE  IInv'
<1> USE DEF IInv
<1>1. row \in [Event -> Row] /\ pub \in [Publisher -> PubState]
  BY DEF TypeOK
<1>2. /\ pub[p].pc = "claim" /\ UNCHANGED <<sent, outlived, faults>>
      /\ pub' = [pub EXCEPT ![p].pc = "send"]
      /\ row' = [e \in Event |->
                   IF Holds(p, e) THEN [row[e] EXCEPT !.lease = "running"] ELSE row[e]]
  BY DEF CommitLeases
<1>3. \A e \in Event : /\ row'[e] \in Row
                       /\ row'[e].published = row[e].published
                       /\ row'[e].lease = IF Holds(p, e) THEN "running" ELSE row[e].lease
  <2> SUFFICES ASSUME NEW e \in Event
               PROVE  /\ row'[e] \in Row
                      /\ row'[e].published = row[e].published
                      /\ row'[e].lease = IF Holds(p, e) THEN "running" ELSE row[e].lease
    OBVIOUS
  <2>1. row[e] \in Row
    BY <1>1
  <2>2. row'[e] = IF Holds(p, e) THEN [row[e] EXCEPT !.lease = "running"] ELSE row[e]
    BY <1>2
  <2> QED  BY <2>1, <2>2 DEF Row
<1>4. row' \in [Event -> Row]
  BY <1>2, <1>3
<1>5. /\ pub' \in [Publisher -> PubState]
      /\ \A q \in Publisher : pub'[q].batch = pub[q].batch
      /\ \A q \in Publisher \ {p} : pub'[q] = pub[q]
      /\ pub'[p].pc = "send"
  BY <1>1, <1>2 DEF PubState
<1>6. \A q \in Publisher : /\ Current(q)' = Current(q)
                           /\ \A e \in Event : Holds(q, e)' <=> Holds(q, e)
  BY <1>5 DEF Current, Holds
<1>7. TypeOK' /\ BatchOK' /\ MarksSent' /\ PublishedWasSent'
  BY <1>2, <1>3, <1>4, <1>5, <1>6 DEF TypeOK, BatchOK, MarksSent, PublishedWasSent
<1>8. HeldIsLeased'
  BY <1>2, <1>3, <1>5, <1>6 DEF HeldIsLeased
<1>9. SoleHolder'
  BY <1>2, <1>6 DEF SoleHolder
<1>10. Tallied'
  <2> SUFFICES ASSUME NEW e \in Event
               PROVE  /\ ~row[e].published => sent[e] <= faults + Cardinality(Markers(e))'
                      /\ sent[e] + Cardinality(Waiting(e))' <= 1 + faults + outlived[e]
                      /\ ~row[e].published /\ row'[e].lease # "running" /\ ~Locked(e)' =>
                           sent[e] + Cardinality(Waiting(e))' <= faults + outlived[e]
    BY <1>2, <1>3 DEF Tallied
  <2>1. ~Marking(p, e) /\ ~Marking(p, e)' /\ (Holds(p, e)' <=> Holds(p, e))
    BY <1>2, <1>5, <1>6 DEF Marking
  <2>2. /\ Cardinality(Waiting(e))' = Cardinality(Waiting(e))
        /\ Cardinality(Markers(e))' = Cardinality(Markers(e))
    BY <1>5, <2>1, OneMoves
  <2>3. ~Holds(p, e) => (Locked(e)' <=> Locked(e))
    BY <1>5, <1>6 DEF Locked
  <2> QED  BY <1>3, <2>2, <2>3 DEF Tallied
<1> QED  BY <1>7, <1>8, <1>9, <1>10

\* The publishers start idle and nothing is sent.
LEMMA InitEstablishes == Init => IInv
<1> SUFFICES ASSUME Init PROVE IInv
  OBVIOUS
<1>1. <<>> \in Seq(Record) /\ Len(<<>>) = 0
  BY EmptySeq
<1>2. TypeOK
  BY <1>1 DEF Init, TypeOK, Row, PubState, Idle
<1>3. \A p \in Publisher : pub[p].pc = "idle" /\ pub[p].batch = <<>>
  BY DEF Init, Idle
<1>4. BatchOK /\ MarksSent
  BY <1>1, <1>3 DEF BatchOK, MarksSent
<1>5. \A p \in Publisher, e \in Event : ~Holds(p, e)
  BY <1>1, <1>3 DEF Holds
<1>6. HeldIsLeased /\ SoleHolder
  BY <1>5 DEF HeldIsLeased, SoleHolder
<1>7. PublishedWasSent
  BY DEF Init, PublishedWasSent
<1>8. Tallied
  <2> SUFFICES ASSUME NEW e \in Event
               PROVE  Cardinality(Waiting(e)) = 0 /\ Cardinality(Markers(e)) = 0
    BY DEF Init, Tallied
  <2>1. Waiting(e) = {} /\ Markers(e) = {}
    BY <1>3, <1>5 DEF Waiting, Markers, Marking
  <2> QED  BY <2>1, FS_EmptySet
<1> QED  BY <1>2, <1>4, <1>6, <1>7, <1>8 DEF IInv

\* Every step of every publisher and of time keeps the invariant.
LEMMA NextKeeps == IInv /\ [Next]_vars => IInv'
<1> SUFFICES ASSUME IInv, [Next]_vars PROVE IInv'
  OBVIOUS
<1>1. ASSUME NEW e \in Event, EnqueueOutbox(e) PROVE IInv'
  BY <1>1, EnqueueOutboxKeeps
<1>2. ASSUME NEW e \in Event, LeaseExpires(e) PROVE IInv'
  BY <1>2, LeaseExpiresKeeps
<1>3. ASSUME NEW p \in Publisher, SelectDue(p) PROVE IInv'
  BY <1>3, SelectDueKeeps
<1>4. ASSUME NEW p \in Publisher, CommitLeases(p) PROVE IInv'
  BY <1>4, CommitLeasesKeeps
<1>5. ASSUME NEW p \in Publisher, Publish(p) PROVE IInv'
  BY <1>5, SendStep DEF Publish
<1>6. ASSUME NEW p \in Publisher, PublishFails(p) PROVE IInv'
  BY <1>6, SendStep DEF PublishFails
<1>7. ASSUME NEW p \in Publisher, MarkOutboxPublished(p) PROVE IInv'
  BY <1>7, UpdateStep DEF MarkOutboxPublished
<1>8. ASSUME NEW p \in Publisher, NackOutbox(p) PROVE IInv'
  BY <1>8, UpdateStep DEF NackOutbox
<1>9. ASSUME NEW p \in Publisher, UpdateFails(p) PROVE IInv'
  BY <1>9, UpdateStep DEF UpdateFails
<1>10. ASSUME NEW p \in Publisher, Crash(p) PROVE IInv'
  BY <1>10, UpdateStep DEF Crash
<1>11. CASE UNCHANGED vars
  <2>1. /\ row' \in [Event -> Row] /\ outlived' \in [Event -> Nat]
        /\ \A e \in Event : outlived'[e] >= outlived[e]
        /\ UNCHANGED <<row, pub, sent, faults>>
    BY <1>11 DEF vars, IInv, TypeOK
  <2> QED  BY <2>1, RowStep
<1> QED  BY <1>1, <1>2, <1>3, <1>4, <1>5, <1>6, <1>7, <1>8, <1>9, <1>10, <1>11
         DEF Next, Tick

-----------------------------------------------------------------------------
\* The inductive invariant of ClaimOutbox, PublishDueOutbox and the two updates.
THEOREM OutboxInvariance == Spec => []IInv
BY InitEstablishes, NextKeeps, PTL DEF Spec

\* MarkOutboxPublished never marks an event the queue did not accept.
THEOREM NothingMarkedUnsent == Spec => []PublishedWasSent
<1>1. IInv => PublishedWasSent
  BY DEF IInv
<1> QED  BY <1>1, OutboxInvariance, PTL

\* ClaimOutbox gives a row to one publisher at a time, from its select on, unless a
\* lease of the row ran out under a holder.
THEOREM ClaimsAreExclusive == Spec => []SoleHolder
<1>1. IInv => SoleHolder
  BY DEF IInv
<1> QED  BY <1>1, OutboxInvariance, PTL

\* PublishDueOutbox sends an event again at most once for every fault and for every
\* lease of the event that ran out under a holder.
THEOREM ResendsAreOwed == Spec => []ResendsExplained
<1>1. IInv => ResendsExplained
  <2> SUFFICES ASSUME IInv, NEW e \in Event
               PROVE  sent[e] <= 1 + faults + outlived[e]
    BY DEF ResendsExplained
  <2>1. /\ sent[e] \in Nat /\ faults \in Nat /\ outlived[e] \in Nat
        /\ Cardinality(Waiting(e)) \in Nat
    BY CountTypes DEF IInv, TypeOK
  <2>2. sent[e] + Cardinality(Waiting(e)) <= 1 + faults + outlived[e]
    BY DEF IInv, Tallied
  <2> QED  BY <2>1, <2>2
<1> QED  BY <1>1, OutboxInvariance, PTL
=============================================================================
