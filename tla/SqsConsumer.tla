----------------------------- MODULE SqsConsumer -----------------------------
(***************************************************************************)
(* The SQS consumer (adapters/sqs/consumer.go).  Each instance polls       *)
(* wager-transactions.fifo in batches and treats the deliveries in at most *)
(* MaxHandlers goroutines: a message is submitted and deleted, copied to   *)
(* the dead-letter queue and deleted, or left to be delivered again.       *)
(*                                                                         *)
(* The module follows one message group (one wallet).  What SQS itself     *)
(* does, delivery, visibility timeout, receive count and redrive, is       *)
(* external.  A receipt is the receive count of its delivery.  Submit is   *)
(* its answer only; Wagering models what it does.  Stopping an instance    *)
(* does not wait for its handlers, so it is a Crash.                       *)
(***************************************************************************)
EXTENDS Integers, FiniteSets

CONSTANTS
  Message,       \* SQS messages of the group, numbered in queue order
  Body,          \* how each message fares
  Consumer,      \* instances of the consumer role
  BatchSize,     \* messages of one poll (10 in the code)
  MaxHandlers,   \* goroutines of one instance (10 in the code)
  MaxReceives,   \* maxReceiveCount of the redrive policy (5)
  MaxFaults      \* bound on failed calls and crashes

\* How a message fares: its envelope does not parse, Submit refuses it for a
\* correctable reason, finds other content under its message id, or takes it.
Nature == {"malformed", "correctable", "poison", "valid"}

ASSUME ConsumerAssumption ==
  /\ Message \subseteq Nat
  /\ Body \in [Message -> Nature]
  /\ BatchSize \in Nat \ {0}
  /\ MaxHandlers \in Nat \ {0}
  /\ MaxReceives \in Nat \ {0}
  /\ MaxFaults \in Nat

VARIABLES
  msg,       \* where each message is, and how often it was received
  dlq,       \* messages in the dead-letter queue
  treated,   \* messages whose Submit committed
  polled,    \* deliveries of the last poll without a goroutine yet
  running,   \* deliveries being handled
  slots,     \* tokens in the semaphore of each instance
  faults     \* faults so far

vars == <<msg, dlq, treated, polled, running, slots, faults>>

-----------------------------------------------------------------------------
Delivery == [msg : Message, receipt : 1..MaxReceives]

Handling == [by : Consumer, msg : Message, receipt : 1..MaxReceives,
             pc : {"submit", "dlq", "delete", "defer"}]

Init ==
  /\ msg = [m \in Message |-> [place |-> "unsent", received |-> 0]]
  /\ dlq = {}
  /\ treated = {}
  /\ polled = [c \in Consumer |-> {}]
  /\ running = {}
  /\ slots = [c \in Consumer |-> 0]
  /\ faults = 0

-----------------------------------------------------------------------------
(***************************************************************************)
(* The queue.                                                              *)
(***************************************************************************)

In(place) == {m \in Message : msg[m].place = place}

\* A provider sends the next message of the group.
SendMessage(m) ==
  /\ msg[m].place = "unsent"
  /\ \A d \in Message : d < m => msg[d].place # "unsent"
  /\ msg' = [msg EXCEPT ![m].place = "visible"]
  /\ UNCHANGED <<dlq, treated, polled, running, slots, faults>>

\* The visibility timeout of a delivery is over, whoever still works on it.
VisibilityEnds(m) ==
  /\ msg[m].place = "inflight"
  /\ msg' = [msg EXCEPT ![m].place = "visible"]
  /\ UNCHANGED <<dlq, treated, polled, running, slots, faults>>

\* A message received often enough is not delivered again.
Redrive(m) ==
  /\ msg[m].place = "visible"
  /\ msg[m].received = MaxReceives
  /\ In("inflight") = {}
  /\ msg' = [msg EXCEPT ![m].place = "gone"]
  /\ dlq' = dlq \cup {m}
  /\ UNCHANGED <<treated, polled, running, slots, faults>>

-----------------------------------------------------------------------------
(***************************************************************************)
(* Run.                                                                    *)
(***************************************************************************)

\* What ReceiveMessage may return: nothing, when its wait ends, or the oldest
\* messages of a group none of which is in flight.
Receivable == {{}} \cup
  {batch \in SUBSET In("visible") :
     /\ Cardinality(batch) <= BatchSize
     /\ In("inflight") = {}
     /\ \A m \in batch : msg[m].received < MaxReceives
     /\ \A m \in batch, d \in In("visible") : d < m => d \in batch}

Delivered(batch) ==
  msg' = [m \in Message |->
            IF m \in batch THEN [place |-> "inflight", received |-> msg[m].received + 1]
                           ELSE msg[m]]

\* The loop polls again when every message of the last poll has a goroutine.
ReceiveMessage(c) ==
  /\ polled[c] = {}
  /\ \E batch \in Receivable :
       /\ Delivered(batch)
       /\ polled' = [polled EXCEPT ![c] =
                       {[msg |-> m, receipt |-> msg[m].received + 1] : m \in batch}]
  /\ UNCHANGED <<dlq, treated, running, slots, faults>>

\* The call fails, or its answer is lost on the way: SQS counts a delivery that no
\* instance has.  Goroutines of earlier polls run on.
ReceiveFails(c) ==
  /\ polled[c] = {}
  /\ faults < MaxFaults
  /\ \E batch \in Receivable : Delivered(batch)
  /\ faults' = faults + 1
  /\ UNCHANGED <<dlq, treated, polled, running, slots>>

\* The envelope is parsed first; one that does not parse is dead-lettered.
ParseEnvelope(m) == IF Body[m] = "malformed" THEN "dlq" ELSE "submit"

\* Mutant: the goroutine does not wait for a token.
Dispatch_NoWait(c) ==
  /\ \E d \in polled[c] :
       /\ polled' = [polled EXCEPT ![c] = @ \ {d}]
       /\ running' = running \cup {[by |-> c, msg |-> d.msg, receipt |-> d.receipt,
                                    pc |-> ParseEnvelope(d.msg)]}
  /\ slots' = [slots EXCEPT ![c] = @ + 1]
  /\ UNCHANGED <<msg, dlq, treated, faults>>

\* The next message of the batch gets a goroutine as soon as a token is free.
Dispatch(c) ==
  /\ slots[c] < MaxHandlers
  /\ \E d \in polled[c] :
       /\ \A o \in polled[c] : d.msg <= o.msg
       /\ polled' = [polled EXCEPT ![c] = @ \ {d}]
       /\ running' = running \cup {[by |-> c, msg |-> d.msg, receipt |-> d.receipt,
                                    pc |-> ParseEnvelope(d.msg)]}
  /\ slots' = [slots EXCEPT ![c] = @ + 1]
  /\ UNCHANGED <<msg, dlq, treated, faults>>

\* The goroutine goes on at pc.
Goto(h, pc) == running' = (running \ {h}) \cup {[h EXCEPT !.pc = pc]}

\* The goroutine ends and gives its token back.
Return(h) ==
  /\ running' = running \ {h}
  /\ slots' = [slots EXCEPT ![h.by] = @ - 1]

-----------------------------------------------------------------------------
(***************************************************************************)
(* Handle.                                                                 *)
(***************************************************************************)

\* Submit answers without error: the treatment is committed, now or before.
SubmitOk(h) ==
  /\ h.pc = "submit"
  /\ Body[h.msg] \in {"valid", "correctable"}
  /\ treated' = treated \cup {h.msg}
  /\ Goto(h, "delete")
  /\ UNCHANGED <<msg, dlq, polled, slots, faults>>

SubmitPoison(h) ==
  /\ h.pc = "submit"
  /\ Body[h.msg] = "poison"
  /\ Goto(h, "dlq")
  /\ UNCHANGED <<msg, dlq, treated, polled, slots, faults>>

\* Mutant: the message is deleted whatever the error.
SubmitError_Deletes(h) ==
  /\ h.pc = "submit"
  /\ Body[h.msg] = "correctable" \/ faults < MaxFaults
  /\ faults' = IF Body[h.msg] = "correctable" THEN faults ELSE faults + 1
  /\ Goto(h, "delete")
  /\ UNCHANGED <<msg, dlq, treated, polled, slots>>

\* Mutant: every error counts as poison.
SubmitError_Poison(h) ==
  /\ h.pc = "submit"
  /\ Body[h.msg] = "correctable" \/ faults < MaxFaults
  /\ faults' = IF Body[h.msg] = "correctable" THEN faults ELSE faults + 1
  /\ Goto(h, "dlq")
  /\ UNCHANGED <<msg, dlq, treated, polled, slots>>

\* Any other error: a correctable one, or a failure after which the treatment
\* may be committed all the same.
SubmitError(h) ==
  /\ h.pc = "submit"
  /\ \/ Body[h.msg] = "correctable" /\ UNCHANGED <<treated, faults>>
     \/ /\ faults < MaxFaults
        /\ faults' = faults + 1
        /\ \/ UNCHANGED treated
           \/ /\ Body[h.msg] \in {"valid", "correctable"}
              /\ treated' = treated \cup {h.msg}
  /\ Goto(h, "defer")
  /\ UNCHANGED <<msg, dlq, polled, slots>>

\* The copy's deduplication id is that of the message, so there is one entry.
\* toDLQ returns nothing: after a failed send the handler goes on as well.
ToDLQ(h) ==
  /\ h.pc = "dlq"
  /\ \/ dlq' = dlq \cup {h.msg} /\ UNCHANGED faults
     \/ /\ faults < MaxFaults
        /\ faults' = faults + 1
        /\ UNCHANGED dlq \/ dlq' = dlq \cup {h.msg}
  /\ Goto(h, "delete")
  /\ UNCHANGED <<msg, treated, polled, slots>>

\* A receipt is current while its delivery is in flight.
Current(h) == msg[h.msg].place = "inflight" /\ msg[h.msg].received = h.receipt

Deleted(m) == msg' = [msg EXCEPT ![m].place = "gone"]

\* DeleteMessage; with a receipt that is not current it may have no effect.
\* A failure is logged only.
Delete(h) ==
  /\ h.pc = "delete"
  /\ \/ Deleted(h.msg) /\ UNCHANGED faults
     \/ ~Current(h) /\ UNCHANGED <<msg, faults>>
     \/ faults < MaxFaults /\ faults' = faults + 1 /\ UNCHANGED msg
  /\ Return(h)
  /\ UNCHANGED <<dlq, treated, polled>>

\* Mutant: the goroutine waits and submits again, keeping its token.
DeferVisibility_RetriesInPlace(h) ==
  /\ h.pc = "defer"
  /\ Goto(h, "submit")
  /\ UNCHANGED <<msg, dlq, treated, polled, slots, faults>>

\* ChangeMessageVisibility moves the end of the timeout and nothing else.
DeferVisibility(h) ==
  /\ h.pc = "defer"
  /\ Return(h)
  /\ UNCHANGED <<msg, dlq, treated, polled, faults>>

Handle(h) ==
  \/ SubmitOk(h) \/ SubmitPoison(h) \/ SubmitError(h)
  \/ ToDLQ(h) \/ Delete(h) \/ DeferVisibility(h)

\* An instance dies or is stopped and starts again.
Crash(c) ==
  /\ faults < MaxFaults
  /\ polled[c] # {} \/ slots[c] > 0
  /\ polled' = [polled EXCEPT ![c] = {}]
  /\ running' = {h \in running : h.by # c}
  /\ slots' = [slots EXCEPT ![c] = 0]
  /\ faults' = faults + 1
  /\ UNCHANGED <<msg, dlq, treated>>

-----------------------------------------------------------------------------
Next ==
  \/ \E m \in Message : SendMessage(m) \/ VisibilityEnds(m) \/ Redrive(m)
  \/ \E c \in Consumer : ReceiveMessage(c) \/ ReceiveFails(c) \/ Dispatch(c) \/ Crash(c)
  \/ \E h \in running : Handle(h)

Spec == Init /\ [][Next]_vars

\* The loop polls, goroutines run, timeouts end and SQS redrives.  Nothing is
\* assumed of the providers or of the faults.
FairSpec ==
  /\ Spec
  /\ \A c \in Consumer : /\ WF_vars(ReceiveMessage(c))
                         /\ WF_vars(Dispatch(c))
                         /\ WF_vars(\E h \in running : h.by = c /\ Handle(h))
  /\ \A m \in Message : WF_vars(VisibilityEnds(m)) /\ WF_vars(Redrive(m))

-----------------------------------------------------------------------------
(***************************************************************************)
(* Properties.                                                             *)
(***************************************************************************)

\* Messages, deliveries and goroutines keep their types, and an instance never
\* runs more than MaxHandlers goroutines.
TypeOK ==
  /\ msg \in [Message -> [place : {"unsent", "visible", "inflight", "gone"},
                          received : 0..MaxReceives]]
  /\ dlq \subseteq Message
  /\ treated \subseteq Message
  /\ polled \in [Consumer -> SUBSET Delivery]
  /\ running \subseteq Handling
  /\ slots \in [Consumer -> 0..MaxHandlers]
  /\ \A c \in Consumer : Cardinality({h \in running : h.by = c}) <= slots[c]
  /\ faults \in 0..MaxFaults

\* "The queue message is deleted only after the treatment commits": a message
\* that parses has left the queue only if it was treated or dead-lettered.
\* (Poison is dead-lettered by the handler, see NothingLost.)
GoneIsTreated ==
  \A m \in In("gone") :
    Body[m] \in {"valid", "correctable"} => m \in treated \cup dlq

\* Handle never dead-letters what a retry may still treat: only the redrive
\* policy does, after MaxReceives deliveries.
RetriedToTheEnd ==
  \A m \in dlq :
    Body[m] \in {"valid", "correctable"} => msg[m].received = MaxReceives

\* No message blocks its group for ever: failures, crashes, lost deletes and full
\* semaphores included, every message leaves the queue.
LeavesQueue ==
  \A m \in Message : msg[m].place # "unsent" ~> msg[m].place = "gone"

\* Requirements, section 10: permanent errors have to reach the DLQ, so nothing
\* leaves the queue untreated without being there.
NothingLost ==
  \A m \in In("gone") : m \in treated \cup dlq

=============================================================================
