------------------------------ MODULE SqsProofs ------------------------------
(***************************************************************************)
(* Proofs about SqsConsumer, for any messages, instances and limits.       *)
(***************************************************************************)
EXTENDS SqsConsumer, TLAPS, FiniteSetTheorems

Retriable(m) == Body[m] \in {"valid", "correctable"}

Typed ==
  /\ msg \in [Message -> [place : {"unsent", "visible", "inflight", "gone"},
                          received : 0..MaxReceives]]
  /\ polled \in [Consumer -> SUBSET Delivery]
  /\ running \subseteq Handling
  /\ dlq \subseteq Message

\* A goroutine about to delete or dead-letter has a reason: a retriable message
\* is deleted after its treatment only, and never dead-lettered by a handler.
HandlersKnow ==
  \A h \in running : Retriable(h.msg) =>
    h.pc # "dlq" /\ (h.pc = "delete" => h.msg \in treated)

\* The inductive invariant.
CInv ==
  /\ Typed
  /\ HandlersKnow
  /\ GoneIsTreated
  /\ RetriedToTheEnd

\* The queue, the dead letters and the treatments may change in the three ways
\* the properties allow; this is what each action has to show.
LEMMA KeepsRest ==
  ASSUME CInv, Typed', HandlersKnow', treated \subseteq treated',
         \A m \in Message : msg'[m].received >= msg[m].received,
         \A m \in Message : msg'[m].place = "gone" /\ Retriable(m) =>
           msg[m].place = "gone" \/ m \in treated' \/ m \in dlq',
         dlq \subseteq dlq',
         \A m \in dlq' \ dlq : Retriable(m) => msg'[m].received = MaxReceives
  PROVE  CInv'
<1>1. \A m \in Message : msg[m].received \in 0..MaxReceives /\ msg'[m].received \in 0..MaxReceives
  BY DEF CInv, Typed
<1>2. GoneIsTreated'
  BY DEF CInv, GoneIsTreated, In, Retriable
<1>3. RetriedToTheEnd'
  <2> SUFFICES ASSUME NEW m \in dlq', Retriable(m)
               PROVE  msg'[m].received = MaxReceives
    BY DEF RetriedToTheEnd, Retriable
  <2>1. CASE m \in dlq
    <3>1. msg[m].received = MaxReceives /\ m \in Message
      BY <2>1 DEF CInv, Typed, RetriedToTheEnd, Retriable
    <3> QED  BY <1>1, <3>1, ConsumerAssumption DEF ConsumerAssumption
  <2>2. CASE m \notin dlq
    BY <2>2
  <2> QED  BY <2>1, <2>2
<1> QED  BY <1>2, <1>3 DEF CInv

-----------------------------------------------------------------------------
\* Delivery, timeouts and redrive: the queue alone.
LEMMA QueueStep ==
  ASSUME CInv, NEW m \in Message, SendMessage(m) \/ VisibilityEnds(m) \/ Redrive(m)
  PROVE  CInv'
<1>1. /\ msg' \in [Message -> [place : {"unsent", "visible", "inflight", "gone"},
                               received : 0..MaxReceives]]
      /\ \A d \in Message : msg'[d].received = msg[d].received
      /\ \A d \in Message \ {m} : msg'[d] = msg[d]
  BY DEF CInv, Typed, SendMessage, VisibilityEnds, Redrive
<1>2. UNCHANGED <<treated, polled, running>> /\ dlq \subseteq dlq' /\ dlq' \subseteq dlq \cup {m}
  BY DEF SendMessage, VisibilityEnds, Redrive
<1>3. Typed' /\ HandlersKnow'
  BY <1>1, <1>2 DEF CInv, Typed, HandlersKnow
<1>4. msg'[m].place = "gone" => m \in dlq'
  BY DEF CInv, Typed, SendMessage, VisibilityEnds, Redrive
<1>5. m \in dlq' \ dlq => msg'[m].received = MaxReceives
  BY <1>1 DEF SendMessage, VisibilityEnds, Redrive
<1>6. \A d \in Message : msg'[d].received >= msg[d].received
  <2>1. \A d \in Message : msg[d].received \in Int
    BY ConsumerAssumption DEF CInv, Typed, ConsumerAssumption
  <2> QED  BY <1>1, <2>1
<1> QED  BY <1>1, <1>2, <1>3, <1>4, <1>5, <1>6, KeepsRest

\* A poll counts a receive of messages that were visible, whether or not the
\* instance learns of them.
LEMMA ReceiveKeeps ==
  ASSUME CInv, NEW c \in Consumer, ReceiveMessage(c) \/ ReceiveFails(c)
  PROVE  CInv'
<1>1. PICK batch \in Receivable :
       /\ msg' = [m \in Message |->
                    IF m \in batch THEN [place |-> "inflight", received |-> msg[m].received + 1]
                                   ELSE msg[m]]
       /\ \/ polled' = polled
          \/ polled' = [polled EXCEPT ![c] =
                          {[msg |-> m, receipt |-> msg[m].received + 1] : m \in batch}]
  BY DEF ReceiveMessage, ReceiveFails, Delivered
<1>2. \A m \in batch : m \in Message /\ msg[m].received < MaxReceives
  BY DEF Receivable, In
<1>3. \A m \in Message : msg[m].received \in 0..MaxReceives
  BY DEF CInv, Typed
<1>4. \A m \in batch : msg[m].received + 1 \in 1..MaxReceives
  <2>1. MaxReceives \in Nat
    BY ConsumerAssumption DEF ConsumerAssumption
  <2> SUFFICES ASSUME NEW m \in batch PROVE msg[m].received + 1 \in 1..MaxReceives
    OBVIOUS
  <2>2. PICK n \in 0..MaxReceives : n = msg[m].received /\ n < MaxReceives
    BY <1>2, <1>3
  <2> QED  BY <2>1, <2>2
<1>5. /\ msg' \in [Message -> [place : {"unsent", "visible", "inflight", "gone"},
                                received : 0..MaxReceives]]
      /\ \A m \in Message : msg'[m].received >= msg[m].received
      /\ \A m \in Message : msg'[m].place = "gone" => msg[m].place = "gone"
  <2>1. ASSUME NEW m \in Message
        PROVE  /\ msg'[m] \in [place : {"unsent", "visible", "inflight", "gone"},
                                received : 0..MaxReceives]
               /\ msg'[m].received >= msg[m].received
               /\ msg'[m].place = "gone" => msg[m].place = "gone"
    <3>1. CASE m \in batch
      <4>1. msg'[m] = [place |-> "inflight", received |-> msg[m].received + 1]
        BY <1>1, <3>1
      <4>2. msg[m].received + 1 \in 0..MaxReceives /\ msg[m].received \in Int
        BY <1>3, <1>4, <3>1, ConsumerAssumption DEF ConsumerAssumption
      <4> QED  BY <4>1, <4>2
    <3>2. CASE m \notin batch
      BY <1>1, <1>3, <3>2, ConsumerAssumption DEF ConsumerAssumption, CInv, Typed
    <3> QED  BY <3>1, <3>2
  <2> QED  BY <1>1, <2>1
<1>6. polled' \in [Consumer -> SUBSET Delivery]
  <2>1. {[msg |-> m, receipt |-> msg[m].received + 1] : m \in batch} \subseteq Delivery
    BY <1>2, <1>4 DEF Delivery
  <2> QED  BY <1>1, <2>1 DEF CInv, Typed
<1>7. UNCHANGED <<dlq, treated, running>>
  BY DEF ReceiveMessage, ReceiveFails
<1>8. Typed' /\ HandlersKnow'
  BY <1>5, <1>6, <1>7 DEF CInv, Typed, HandlersKnow
<1> QED  BY <1>5, <1>7, <1>8, KeepsRest

\* Steps that leave the messages and the dead letters alone.
LEMMA LocalStep ==
  ASSUME CInv, UNCHANGED <<msg, dlq>>, treated \subseteq treated', HandlersKnow',
         running' \subseteq Handling, polled' \in [Consumer -> SUBSET Delivery]
  PROVE  CInv'
<1>1. Typed'
  BY DEF CInv, Typed
<1>2. \A m \in Message : msg'[m].received >= msg[m].received
  BY ConsumerAssumption DEF CInv, Typed, ConsumerAssumption
<1> QED  BY <1>1, <1>2, KeepsRest

\* A new goroutine dead-letters only what does not parse.
LEMMA DispatchKeeps ==
  ASSUME CInv, NEW c \in Consumer, Dispatch(c)
  PROVE  CInv'
<1>1. PICK d \in polled[c] :
       /\ polled' = [polled EXCEPT ![c] = @ \ {d}]
       /\ running' = running \cup {[by |-> c, msg |-> d.msg, receipt |-> d.receipt,
                                    pc |-> ParseEnvelope(d.msg)]}
  BY DEF Dispatch
<1>2. d \in Delivery /\ UNCHANGED <<msg, dlq, treated>>
  BY DEF CInv, Typed, Dispatch
<1>3. [by |-> c, msg |-> d.msg, receipt |-> d.receipt, pc |-> ParseEnvelope(d.msg)] \in Handling
  BY <1>2 DEF Delivery, Handling, ParseEnvelope
<1>4. running' \subseteq Handling /\ polled' \in [Consumer -> SUBSET Delivery]
  BY <1>1, <1>3 DEF CInv, Typed
<1>5. HandlersKnow'
  BY <1>1, <1>2 DEF CInv, HandlersKnow, ParseEnvelope, Retriable
<1> QED  BY <1>2, <1>4, <1>5, LocalStep

\* A goroutine that goes on or returns leaves the others as they are.
LEMMA GotoFacts ==
  ASSUME CInv, NEW h \in running, NEW pc \in {"submit", "dlq", "delete", "defer"}, Goto(h, pc)
  PROVE  /\ running' \subseteq Handling
         /\ h \in Handling
         /\ \A g \in running' : g \in running \/ (g.msg = h.msg /\ g.pc = pc)
BY DEF CInv, Typed, Goto, Handling

\* Handle: a retriable message is deleted after SubmitOk only.
LEMMA HandleKeeps ==
  ASSUME CInv, NEW h \in running, Handle(h)
  PROVE  CInv'
<1>0. polled' = polled /\ polled \in [Consumer -> SUBSET Delivery]
  BY DEF CInv, Typed, Handle, SubmitOk, SubmitPoison, SubmitError, ToDLQ, Delete, DeferVisibility
<1>1. CASE SubmitOk(h)
  <2>1. HandlersKnow'
    BY <1>1, GotoFacts DEF SubmitOk, CInv, HandlersKnow
  <2> QED  BY <1>0, <1>1, <2>1, GotoFacts, LocalStep DEF SubmitOk
<1>2. CASE SubmitPoison(h)
  <2>1. HandlersKnow'
    BY <1>2, GotoFacts DEF SubmitPoison, CInv, HandlersKnow, Retriable
  <2> QED  BY <1>0, <1>2, <2>1, GotoFacts, LocalStep DEF SubmitPoison
<1>3. CASE SubmitError(h)
  <2>1. treated \subseteq treated' /\ UNCHANGED <<msg, dlq>> /\ Goto(h, "defer")
    BY <1>3 DEF SubmitError
  <2>2. HandlersKnow'
    BY <2>1, GotoFacts DEF CInv, HandlersKnow
  <2> QED  BY <1>0, <2>1, <2>2, GotoFacts, LocalStep
<1>4. CASE ToDLQ(h)
  <2>1. /\ ~Retriable(h.msg) /\ Goto(h, "delete") /\ UNCHANGED <<msg, treated>>
        /\ dlq \subseteq dlq' /\ dlq' \subseteq dlq \cup {h.msg}
    BY <1>4 DEF ToDLQ, CInv, HandlersKnow
  <2>2. HandlersKnow'
    BY <2>1, GotoFacts DEF CInv, HandlersKnow, Retriable
  <2>3. Typed'
    BY <1>0, <2>1, GotoFacts DEF CInv, Typed, Handling
  <2>4. \A m \in Message : msg'[m].received >= msg[m].received
    BY <2>1, ConsumerAssumption DEF CInv, Typed, ConsumerAssumption
  <2> QED  BY <2>1, <2>2, <2>3, <2>4, KeepsRest
<1>5. CASE Delete(h)
  <2>1. /\ UNCHANGED <<dlq, treated>> /\ running' = running \ {h}
        /\ Retriable(h.msg) => h.msg \in treated
        /\ Deleted(h.msg) \/ UNCHANGED msg
        /\ h \in Handling
    BY <1>5 DEF Delete, Return, CInv, Typed, HandlersKnow
  <2>2. h.msg \in Message
    BY <2>1 DEF Handling
  <2>3. /\ msg' \in [Message -> [place : {"unsent", "visible", "inflight", "gone"},
                                  received : 0..MaxReceives]]
        /\ \A m \in Message : msg'[m].received = msg[m].received
        /\ \A m \in Message \ {h.msg} : msg'[m] = msg[m]
    BY <2>1, <2>2 DEF CInv, Typed, Deleted
  <2>4. Typed' /\ HandlersKnow'
    BY <1>0, <2>1, <2>3 DEF CInv, Typed, HandlersKnow
  <2>5. \A m \in Message : msg'[m].received >= msg[m].received
    <3>1. \A m \in Message : msg[m].received \in Int
      BY ConsumerAssumption DEF CInv, Typed, ConsumerAssumption
    <3> QED  BY <2>3, <3>1
  <2> QED  BY <2>1, <2>3, <2>4, <2>5, KeepsRest
<1>6. CASE DeferVisibility(h)
  <2>1. running' = running \ {h} /\ UNCHANGED <<msg, dlq, treated>>
    BY <1>6 DEF DeferVisibility, Return
  <2> QED  BY <1>0, <2>1, LocalStep DEF CInv, Typed, HandlersKnow
<1> QED  BY <1>1, <1>2, <1>3, <1>4, <1>5, <1>6 DEF Handle

\* Nothing is sent, received or running at the start.
LEMMA InitEstablishes == Init => CInv
<1> SUFFICES ASSUME Init PROVE CInv
  OBVIOUS
<1>1. 0 \in 0..MaxReceives
  BY ConsumerAssumption DEF ConsumerAssumption
<1> QED  BY <1>1 DEF Init, CInv, Typed, HandlersKnow, GoneIsTreated, RetriedToTheEnd, In

\* Every step of the queue, the instances and their goroutines keeps it.
LEMMA NextKeeps == CInv /\ [Next]_vars => CInv'
<1> SUFFICES ASSUME CInv, [Next]_vars PROVE CInv'
  OBVIOUS
<1>1. ASSUME NEW m \in Message, SendMessage(m) \/ VisibilityEnds(m) \/ Redrive(m) PROVE CInv'
  BY <1>1, QueueStep
<1>2. ASSUME NEW c \in Consumer, ReceiveMessage(c) \/ ReceiveFails(c) PROVE CInv'
  BY <1>2, ReceiveKeeps
<1>3. ASSUME NEW c \in Consumer, Dispatch(c) PROVE CInv'
  BY <1>3, DispatchKeeps
<1>4. ASSUME NEW c \in Consumer, Crash(c) PROVE CInv'
  <2>1. /\ UNCHANGED <<msg, dlq, treated>> /\ running' \subseteq running
        /\ polled' \in [Consumer -> SUBSET Delivery]
    BY <1>4 DEF Crash, CInv, Typed
  <2>2. HandlersKnow' /\ running' \subseteq Handling
    BY <2>1 DEF CInv, Typed, HandlersKnow
  <2> QED  BY <2>1, <2>2, LocalStep
<1>5. ASSUME NEW h \in running, Handle(h) PROVE CInv'
  BY <1>5, HandleKeeps
<1>6. CASE UNCHANGED vars
  BY <1>6 DEF vars, CInv, Typed, HandlersKnow, GoneIsTreated, RetriedToTheEnd, In
<1> QED  BY <1>1, <1>2, <1>3, <1>4, <1>5, <1>6 DEF Next

-----------------------------------------------------------------------------
\* The inductive invariant of Run and Handle.
THEOREM ConsumerInvariance == Spec => []CInv
BY InitEstablishes, NextKeeps, PTL DEF Spec

\* Handle deletes a message that a retry may treat only after its treatment.
THEOREM DeletedAfterTreatment == Spec => []GoneIsTreated
<1>1. CInv => GoneIsTreated
  BY DEF CInv
<1> QED  BY <1>1, ConsumerInvariance, PTL

\* Only the redrive policy dead-letters such a message, and only at its limit.
THEOREM RedrivenAtTheLimit == Spec => []RetriedToTheEnd
<1>1. CInv => RetriedToTheEnd
  BY DEF CInv
<1> QED  BY <1>1, ConsumerInvariance, PTL

-----------------------------------------------------------------------------
(* Tokens. *)

Of(c) == {h \in running : h.by = c}

\* Every goroutine holds a token of its instance.
TokensOK == \A c \in Consumer : IsFiniteSet(Of(c)) /\ Cardinality(Of(c)) <= slots[c]

SlotsInv ==
  /\ treated \subseteq Message
  /\ faults \in 0..MaxFaults
  /\ slots \in [Consumer -> 0..MaxHandlers]
  /\ TokensOK

\* No goroutine begins or ends.
LEMMA SameTokens ==
  ASSUME CInv, SlotsInv, UNCHANGED <<running, slots>>,
         treated' \subseteq Message, faults' \in 0..MaxFaults
  PROVE  SlotsInv'
BY DEF SlotsInv, TokensOK, Of

\* A goroutine that goes on keeps its token.
LEMMA GotoTokens ==
  ASSUME CInv, SlotsInv, NEW h \in running,
         NEW pc \in {"submit", "dlq", "delete", "defer"}, Goto(h, pc), slots' = slots
  PROVE  TokensOK'
<1> DEFINE g == [h EXCEPT !.pc = pc]
<1>1. h \in Handling /\ g.by = h.by
  BY DEF CInv, Typed, Handling
<1> HIDE DEF g
<1>2. ASSUME NEW c \in Consumer
      PROVE  IsFiniteSet(Of(c)') /\ Cardinality(Of(c)') <= slots'[c]
  <2>1. IsFiniteSet(Of(c)) /\ Cardinality(Of(c)) <= slots[c] /\ slots[c] \in Nat
    BY DEF SlotsInv, TokensOK
  <2>2. CASE h.by # c
    <3>1. Of(c)' = Of(c)
      BY <1>1, <2>2 DEF Of, Goto, g
    <3> QED BY <2>1, <3>1
  <2>3. CASE h.by = c
    <3>1. Of(c)' = (Of(c) \ {h}) \cup {g} /\ h \in Of(c)
      BY <1>1, <2>3 DEF Of, Goto, g
    <3>2. /\ IsFiniteSet(Of(c) \ {h})
          /\ Cardinality(Of(c) \ {h}) = Cardinality(Of(c)) - 1
      BY <2>1, <3>1, FS_RemoveElement
    <3>3. /\ IsFiniteSet((Of(c) \ {h}) \cup {g})
          /\ Cardinality((Of(c) \ {h}) \cup {g})
               \in {Cardinality(Of(c)) - 1, (Cardinality(Of(c)) - 1) + 1}
      BY <3>2, FS_AddElement
    <3>4. Cardinality(Of(c)) \in Nat
      BY <2>1, FS_CardinalityType
    <3> QED BY <2>1, <3>1, <3>3, <3>4
  <2> QED BY <2>2, <2>3
<1> QED BY <1>2 DEF TokensOK

\* A goroutine that ends had a token to give back.
LEMMA ReturnTokens ==
  ASSUME CInv, SlotsInv, NEW h \in running, Return(h)
  PROVE  TokensOK' /\ slots' \in [Consumer -> 0..MaxHandlers]
<1>1. h.by \in Consumer /\ h \in Of(h.by)
  BY DEF CInv, Typed, Handling, Of
<1>2. /\ running' = running \ {h}
      /\ slots' = [slots EXCEPT ![h.by] = slots[h.by] - 1]
      /\ \A c \in Consumer : slots[c] \in 0..MaxHandlers
      /\ MaxHandlers \in Nat
  BY ConsumerAssumption DEF Return, SlotsInv
<1>3. ASSUME NEW c \in Consumer
      PROVE  /\ IsFiniteSet(Of(c)')
             /\ Cardinality(Of(c)') <= slots'[c]
             /\ slots'[c] \in 0..MaxHandlers
  <2>1. IsFiniteSet(Of(c)) /\ Cardinality(Of(c)) <= slots[c]
    BY DEF SlotsInv, TokensOK
  <2>2. CASE h.by # c
    <3>1. Of(c)' = Of(c) /\ slots'[c] = slots[c]
      BY <1>2, <2>2 DEF Of, SlotsInv
    <3> QED BY <1>2, <2>1, <3>1
  <2>3. CASE h.by = c
    <3>1. Of(c)' = Of(c) \ {h} /\ slots'[c] = slots[c] - 1 /\ h \in Of(c)
      BY <1>1, <1>2, <2>3 DEF Of, SlotsInv
    <3>2. IsFiniteSet(Of(c) \ {h}) /\ Cardinality(Of(c) \ {h}) = Cardinality(Of(c)) - 1
      BY <2>1, <3>1, FS_RemoveElement
    <3>3. Cardinality(Of(c)) \in Nat /\ Cardinality(Of(c) \ {h}) \in Nat
      BY <2>1, <3>2, FS_CardinalityType
    <3> QED BY <1>2, <2>1, <3>1, <3>2, <3>3
  <2> QED BY <2>2, <2>3
<1>4. slots' \in [Consumer -> 0..MaxHandlers]
  BY <1>2, <1>3 DEF SlotsInv
<1> QED BY <1>3, <1>4 DEF TokensOK

\* A goroutine begins with a token that was free.
LEMMA DispatchTokens ==
  ASSUME CInv, SlotsInv, NEW c \in Consumer, Dispatch(c)
  PROVE  SlotsInv'
<1>0. PICK m, n, pc : running' = running \cup {[by |-> c, msg |-> m, receipt |-> n, pc |-> pc]}
  BY DEF Dispatch
<1> DEFINE g == [by |-> c, msg |-> m, receipt |-> n, pc |-> pc]
<1>1. running' = running \cup {g} /\ g.by = c
  BY <1>0
<1> HIDE DEF g
<1>2. /\ slots' = [slots EXCEPT ![c] = slots[c] + 1]
      /\ slots[c] < MaxHandlers
      /\ \A d \in Consumer : slots[d] \in 0..MaxHandlers
      /\ MaxHandlers \in Nat
      /\ UNCHANGED <<treated, faults>>
  BY ConsumerAssumption DEF Dispatch, SlotsInv
<1>3. ASSUME NEW d \in Consumer
      PROVE  /\ IsFiniteSet(Of(d)')
             /\ Cardinality(Of(d)') <= slots'[d]
             /\ slots'[d] \in 0..MaxHandlers
  <2>1. IsFiniteSet(Of(d)) /\ Cardinality(Of(d)) <= slots[d]
    BY DEF SlotsInv, TokensOK
  <2>2. CASE d # c
    <3>1. Of(d)' = Of(d) /\ slots'[d] = slots[d]
      BY <1>1, <1>2, <2>2 DEF Of, SlotsInv
    <3> QED BY <1>2, <2>1, <3>1
  <2>3. CASE d = c
    <3>1. Of(d)' = Of(d) \cup {g} /\ slots'[d] = slots[d] + 1
      BY <1>1, <1>2, <2>3 DEF Of, SlotsInv
    <3>2. /\ IsFiniteSet(Of(d) \cup {g})
          /\ Cardinality(Of(d) \cup {g}) \in {Cardinality(Of(d)), Cardinality(Of(d)) + 1}
      BY <2>1, FS_AddElement
    <3>3. Cardinality(Of(d)) \in Nat
      BY <2>1, FS_CardinalityType
    <3> QED BY <1>2, <2>1, <2>3, <3>1, <3>2, <3>3
  <2> QED BY <2>2, <2>3
<1> QED BY <1>2, <1>3 DEF SlotsInv, TokensOK

\* An instance that stops loses its goroutines and its semaphore.
LEMMA CrashTokens ==
  ASSUME CInv, SlotsInv, NEW c \in Consumer, Crash(c)
  PROVE  SlotsInv'
<1>1. /\ running' = {h \in running : h.by # c}
      /\ slots' = [slots EXCEPT ![c] = 0]
      /\ treated' = treated
      /\ faults' \in 0..MaxFaults
  BY ConsumerAssumption DEF Crash, SlotsInv
<1>2. 0 \in 0..MaxHandlers
  BY ConsumerAssumption
<1>3. ASSUME NEW d \in Consumer PROVE IsFiniteSet(Of(d)') /\ Cardinality(Of(d)') <= slots'[d]
  <2>1. CASE d = c
    <3>1. Of(d)' = {} /\ slots'[d] = 0
      BY <1>1, <2>1 DEF Of, SlotsInv
    <3> QED BY <3>1, FS_EmptySet
  <2>2. CASE d # c
    <3>1. Of(d)' = Of(d) /\ slots'[d] = slots[d]
      BY <1>1, <2>2 DEF Of, SlotsInv
    <3> QED BY <3>1 DEF SlotsInv, TokensOK
  <2> QED BY <2>1, <2>2
<1> QED BY <1>1, <1>2, <1>3 DEF SlotsInv, TokensOK

\* The steps of a goroutine.
LEMMA HandleTokens ==
  ASSUME CInv, SlotsInv, NEW h \in running, Handle(h)
  PROVE  SlotsInv'
<1>1. h.msg \in Message
  BY DEF CInv, Typed, Handling
<1>2. treated' \subseteq Message
  BY <1>1 DEF SlotsInv, Handle, SubmitOk, SubmitPoison, SubmitError, ToDLQ, Delete, DeferVisibility
<1>3. faults' \in 0..MaxFaults
  <2>1. faults' = faults \/ (faults < MaxFaults /\ faults' = faults + 1)
    BY DEF Handle, SubmitOk, SubmitPoison, SubmitError, ToDLQ, Delete, DeferVisibility
  <2> QED BY <2>1, ConsumerAssumption DEF SlotsInv
<1>4. \/ slots' = slots /\ \E pc \in {"submit", "dlq", "delete", "defer"} : Goto(h, pc)
      \/ Return(h)
  BY DEF Handle, SubmitOk, SubmitPoison, SubmitError, ToDLQ, Delete, DeferVisibility
<1>5. TokensOK' /\ slots' \in [Consumer -> 0..MaxHandlers]
  BY <1>4, GotoTokens, ReturnTokens DEF SlotsInv
<1> QED BY <1>2, <1>3, <1>5 DEF SlotsInv

\* Every step keeps tokens and goroutines together.
LEMMA NextTokens == CInv /\ SlotsInv /\ [Next]_vars => SlotsInv'
<1> SUFFICES ASSUME CInv, SlotsInv, [Next]_vars PROVE SlotsInv'
  OBVIOUS
<1>1. ASSUME NEW m \in Message, SendMessage(m) \/ VisibilityEnds(m) \/ Redrive(m)
      PROVE  SlotsInv'
  BY <1>1, SameTokens DEF SendMessage, VisibilityEnds, Redrive, SlotsInv
<1>2. ASSUME NEW c \in Consumer, ReceiveMessage(c) PROVE SlotsInv'
  BY <1>2, SameTokens DEF ReceiveMessage, SlotsInv
<1>3. CASE UNCHANGED vars
  BY <1>3, SameTokens DEF vars, SlotsInv
<1>4. ASSUME NEW c \in Consumer, ReceiveFails(c) PROVE SlotsInv'
  <2>1. faults + 1 \in 0..MaxFaults
    BY <1>4, ConsumerAssumption DEF ReceiveFails, SlotsInv, ConsumerAssumption
  <2> QED  BY <1>4, <2>1, SameTokens DEF ReceiveFails, SlotsInv
<1> QED BY <1>1, <1>2, <1>3, <1>4, DispatchTokens, CrashTokens, HandleTokens DEF Next

\* All semaphores are empty at the start.
LEMMA InitTokens == Init => SlotsInv
<1> SUFFICES ASSUME Init PROVE SlotsInv
  OBVIOUS
<1>1. 0 \in 0..MaxHandlers /\ 0 \in 0..MaxFaults
  BY ConsumerAssumption
<1>2. \A c \in Consumer : Of(c) = {} /\ slots[c] = 0
  BY DEF Init, Of
<1> QED BY <1>1, <1>2, FS_EmptySet DEF Init, SlotsInv, TokensOK

\* However goroutines, polls and crashes interleave, no instance ever runs
\* more goroutines than its semaphore has tokens, and no token is given back
\* twice.
THEOREM ConsumerTyped == Spec => []TypeOK
<1>1. CInv /\ SlotsInv => TypeOK
  BY DEF CInv, Typed, SlotsInv, TokensOK, TypeOK, Of
<1> QED BY <1>1, InitEstablishes, InitTokens, NextKeeps, NextTokens, PTL DEF Spec
=============================================================================
