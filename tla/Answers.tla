------------------------------- MODULE Answers -------------------------------
(***************************************************************************)
(* Wagering seen by the provider: what POST /wagering/transactions         *)
(* (adapters/http/handler.go) answers to each request and to each retry of *)
(* it, and what a GET of the operation then says.                          *)
(*                                                                         *)
(* A first answer is made of what the handler holds in memory, the others  *)
(* of the columns of the row.  The handler of a processed BET answers when *)
(* its cascade is over.  Any answer may get lost, and whoever gets none    *)
(* may ask again.  Only answers that tell something of an operation are    *)
(* kept: 400, 404 and 503 send the provider away with nothing decided.     *)
(***************************************************************************)
EXTENDS Wagering

VARIABLES
  result,   \* the SubmitResult each handler holds, and for which request
  told      \* the answers that each request has had

answersVars == <<vars, result, told>>

-----------------------------------------------------------------------------
(* Results.  `seen' is the balance observed with its version; NoWallet     *)
(* stands for no balance.                                                  *)

SubmitResult ==
  [outcome : {"PROCESSED", "REJECTED", "PENDING_REFERENCE", "REPLAY"},
   tx : Request, code : FailureCode \cup {Ok}, seen : WalletRow]

Pending == [request |-> None]

\* Mutant: the first answer to a rejection comes without a balance.
Decided_NoBalance(row, r, v) ==
  [outcome |-> v.outcome, tx |-> r, code |-> v.code,
   seen |-> IF v.outcome # "PROCESSED" THEN NoWallet
              ELSE Apply(row, v.dir, Input[r].amount)]

\* What applyOperation returns for operation r, decided as v on wallet row.
Decided(row, r, v) ==
  [outcome |-> v.outcome, tx |-> r, code |-> v.code,
   seen |-> IF v.outcome = "PENDING_REFERENCE" THEN NoWallet
              ELSE Apply(row, v.dir, Input[r].amount)]

\* What the row of operation p says; FAILED is a state like PENDING here.
replayResult(d, p) ==
  LET row == d.tx[p]
      done == row.state \in {"PROCESSED", "REJECTED"}
  IN [outcome |-> IF done THEN "REPLAY" ELSE "PENDING_REFERENCE",
      tx |-> p, code |-> row.code,
      seen |-> IF done THEN [balance |-> row.balance, version |-> row.version]
                 ELSE NoWallet]

-----------------------------------------------------------------------------
(* Answers: the HTTP status and the body.  Of a conflict the provider     *)
(* learns nothing but that.                                                *)

Answer ==
  {a \in [http : {200, 201, 202, 409, 422},
          status : TransactionState \cup {"CONFLICT"},
          tx : Request \cup {None}, code : FailureCode \cup {Ok}, seen : WalletRow] :
     (a.status = "REJECTED" => a.code # Ok) /\ (a.status = "PROCESSED" => a.code = Ok)}

Body(http, status, res) ==
  [http |-> http, status |-> status, tx |-> res.tx, code |-> res.code,
   seen |-> res.seen]

\* Mutant: a replay is taken for a success.
writeSubmitResult_Replay200(res) ==
  CASE res.outcome = "PROCESSED" -> Body(201, "PROCESSED", res)
    [] res.outcome = "PENDING_REFERENCE" -> Body(202, "PENDING", res)
    [] res.outcome = "REPLAY" -> Body(200, "PROCESSED", res)
    [] OTHER -> Body(422, "REJECTED", res)

writeSubmitResult(res) ==
  CASE res.outcome = "PROCESSED" -> Body(201, "PROCESSED", res)
    [] res.outcome = "PENDING_REFERENCE" -> Body(202, "PENDING", res)
    [] res.outcome = "REPLAY" /\ res.code = Ok -> Body(200, "PROCESSED", res)
    [] OTHER -> Body(422, "REJECTED", res)

Conflict == [http |-> 409, status |-> "CONFLICT", tx |-> None, code |-> Ok,
             seen |-> NoWallet]

\* The operation with the key of r comes first, then the one with its
\* external id.
ReplayAnswer(d, r) ==
  LET byKey == FindByProviderKey(d, r)
      p == CHOOSE q \in IF byKey # {} THEN byKey ELSE Priors(d, r) : TRUE
  IN IF PayloadHash(p) # PayloadHash(r) THEN Conflict
     ELSE writeSubmitResult(replayResult(d, p))

\* What a GET says of operation r; no balance is stored before it is settled.
transactionBody(d, r) ==
  [http |-> 200, status |-> d.tx[r].state, tx |-> r, code |-> d.tx[r].code,
   seen |-> [balance |-> d.tx[r].balance, version |-> d.tx[r].version]]

\* Request r is answered with a, unless the answer gets lost.
Tell(r, a) == told' \in {told, [told EXCEPT ![r] = @ \cup {a}]}

Holds(s, res) == result' = [result EXCEPT ![s] = res]

-----------------------------------------------------------------------------
(* The steps of a handler. *)

\* Mutant: the answer does not wait for the commit.
Decide_Early(s) ==
  /\ SubmitApply(s)
  /\ LET r == sess[s].item.tx
         v == applyOperation(View(s), sess[s].wal, r)
     IN Tell(r, writeSubmitResult(Decided(sess[s].wal, r, v)))
  /\ UNCHANGED result

\* The operation is decided, and its rows written.
Decide(s) ==
  /\ SubmitApply(s)
  /\ LET r == sess[s].item.tx
         v == applyOperation(View(s), sess[s].wal, r)
     IN Holds(s, [request |-> r, submit |-> Decided(sess[s].wal, r, v)])
  /\ UNCHANGED told

Replay(s) ==
  /\ SubmitReplay(s)
  /\ Tell(sess[s].item.tx, ReplayAnswer(View(s), sess[s].item.tx))
  /\ UNCHANGED result

\* Submit returns an error, which is answered 400 or 503.  (A cascade inserts
\* nothing, so its commit is not refused.)
Refuse(s) ==
  /\ SubmitNoWallet(s) \/ SubmitMismatch(s) \/ SubmitError(s) \/ CommitRefused(s)
  /\ Holds(s, Pending)
  /\ UNCHANGED told

\* Steps after which the session either goes on or is over with a result: the
\* cascade's own errors are ignored.  (A Submit waits for one lock and holds
\* none, so it is no deadlock's victim.)
Proceed(s) ==
  \/ LockForUpdate(s)
  \/ Commit(s)
  \/ CascadeFind(s)
  \/ CascadeNext(s)
  \/ \E expired \in BOOLEAN : \/ ResumeSettle(s, expired)
                              \/ ResumeClash(s, expired)
                              \/ ResumeError(s, expired)
  \/ DeadlockVictim(s)

Finish(s) ==
  /\ Tell(result[s].request, writeSubmitResult(result[s].submit))
  /\ Holds(s, Pending)

Carry(s) ==
  /\ Proceed(s)
  /\ IF sess'[s] = Idle THEN Finish(s) ELSE UNCHANGED <<result, told>>

\* The process dies, and with it whatever it held; or a transaction fails,
\* which is the end of a Submit (503) but not of the answer when it is the
\* cascade's.
Fail(s) ==
  /\ Crash(s)
  /\ IF sess[s].op = "cascade" THEN Finish(s)
     ELSE Holds(s, Pending) /\ UNCHANGED told

\* GET by either of its ids: a read without locks.
GetTransaction(r) ==
  /\ Present(committed, r)
  /\ Tell(r, transactionBody(committed, r))
  /\ UNCHANGED <<vars, result>>

HandlerStep(s) == Decide(s) \/ Replay(s) \/ Refuse(s) \/ Carry(s) \/ Fail(s)

\* What answers nobody: every step but those of a handler at work.
Elsewhere ==
  /\ Next
  /\ \A s \in Handler : sess[s] # Idle => sess'[s] = sess[s]
  /\ UNCHANGED <<result, told>>

AnswersInit ==
  /\ Init
  /\ result = [s \in Handler |-> Pending]
  /\ told = [r \in Request |-> {}]

AnswersNext ==
  \/ Elsewhere
  \/ \E s \in Handler : HandlerStep(s)
  \/ \E r \in Request : GetTransaction(r)

AnswersSpec == AnswersInit /\ [][AnswersNext]_answersVars

-----------------------------------------------------------------------------
(* Properties. *)

\* Type invariant: a handler holds a result for a request or none, and every
\* answer is of its type: none tells a failure code with a success, or a
\* rejection without one.
AnswersTypeOK ==
  /\ result \in [Handler -> {Pending}
                   \cup [request : Request, submit : SubmitResult]]
  /\ told \in [Request -> SUBSET Answer]

\* The answers that leave nothing open.
Final(r) == {a \in told[r] : a.status \in {"PROCESSED", "REJECTED", "CONFLICT"}}

\* When the operation of r was sent under several keys, that of r was never used
\* for other content: a replay under it leaves no trace of it, so the other
\* content would be accepted later, and r refused from then on.
NoReuse(r) ==
  (\E q \in Request \ {r} : PayloadHash(q) = PayloadHash(r)) =>
    \A p \in Request :
      Input[p].provider = Input[r].provider /\ Input[p].key = Input[r].key =>
        PayloadHash(p) = PayloadHash(r)

\* However often a provider repeats a request or asks for the operation, every
\* final answer is the same: the outcome, the failure code and the balance of
\* the first processing, whatever was lost in between and wherever the wallet
\* has moved on to.
AnswersAgree ==
  \A r \in Request : \A a, b \in Final(r) : [a EXCEPT !.http = b.http] = b

\* Nobody is told of anything that is not committed, nor of an operation with
\* other content: behind PROCESSED stands the movement with that balance (LOSS
\* moves nothing), behind PENDING a row, for ever.
AnswersHold ==
  \A r \in Request : \A a \in told[r] :
    a.http \in {200, 201, 202} =>
      /\ PayloadHash(a.tx) = PayloadHash(r)
      /\ Present(committed, a.tx)
      /\ a.status = "PROCESSED" /\ Input[r].kind # "LOSS" =>
           \E e \in committed.ledger :
             e.tx = a.tx /\ e.after = a.seen.balance /\ e.version = a.seen.version

\* A refusal is final: what was answered 422 has moved no money and never will,
\* and what was answered 409 is never accepted.
RefusedMovesNothing ==
  \A r \in Request : \A a \in told[r] :
    /\ a.status = "REJECTED" => \A e \in committed.ledger : e.tx # a.tx
    /\ a.status = "CONFLICT" => ~Present(committed, r)
=============================================================================
