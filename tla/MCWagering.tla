----------------------------- MODULE MCWagering -----------------------------
(***************************************************************************)
(* Small instances of Wagering.  A scenario is a value of Input, that is   *)
(* what a set of requests carry, with the wallets they go to; the sessions *)
(* take the requests in every order and as often as they like.             *)
(***************************************************************************)
EXTENDS Wagering, TLC

CONSTANTS h1, h2, k1, k2

Handlers == Permutations({h1, h2})
Workers == Permutations({k1, k2})

\* A request of player p on wallet w: external id and key e, kind k, amount a,
\* reference f.
Req(p, w, e, k, a, f) ==
  [provider |-> "prov", ext |-> e, key |-> e, player |-> p, wallet |-> w,
   round |-> "r1", kind |-> k, amount |-> a, currency |-> "BRL", ref |-> f,
   msg |-> None]

Account(p, a) == [player |-> p, currency |-> "BRL", amount |-> a]

Ann(a) == [w1 |-> Account("ann", a)]
AnnHas1 == Ann(1)
AnnAndBob == [w1 |-> Account("ann", 1), w2 |-> Account("bob", 0)]

\* A BET, the WIN it earned, a REFUND that wants its stake back, and the
\* ROLLBACK that voids the REFUND.
Reversals ==
  [bet    |-> Req("ann", "w1", "b", "BET", 1, None),
   win    |-> Req("ann", "w1", "n", "WIN", 1, "b"),
   refund |-> Req("ann", "w1", "f", "REFUND", 1, "b"),
   void   |-> Req("ann", "w1", "v", "ROLLBACK", 1, "f")]

\* A BET, the WIN it earned and a REFUND of the BET.
Prizes ==
  [bet    |-> Req("ann", "w1", "b", "BET", 1, None),
   win    |-> Req("ann", "w1", "n", "WIN", 1, "b"),
   refund |-> Req("ann", "w1", "f", "REFUND", 1, "b")]

\* One key (of a LOSS) and one external id used on two wallets, a message id that comes
\* back with other content (a ROLLBACK of what it brought, which a REFUND
\* reverses too), the same operation under a new key, and a request for somebody
\* else's wallet.
Duplicates ==
  [bet    |-> [Req("ann", "w1", "p", "BET", 1, None) EXCEPT !.msg = "m1"],
   again  |-> [Req("ann", "w1", "p", "BET", 1, None) EXCEPT !.key = "a"],
   copy   |-> [Req("bob", "w2", "c", "LOSS", 0, None) EXCEPT !.key = "p"],
   twin   |-> [Req("bob", "w2", "p", "BET", 1, None) EXCEPT !.key = "t"],
   echo   |-> [Req("ann", "w1", "e", "ROLLBACK", 1, "p") EXCEPT !.msg = "m1"],
   refund |-> Req("ann", "w1", "f", "REFUND", 1, "p"),
   alien  |-> Req("bob", "w1", "x", "BET", 1, None)]

\* A free WIN fills the wallet, so that the WIN of the BET overflows.
Overflows ==
  [bet   |-> Req("ann", "w1", "b", "BET", 1, None),
   prize |-> Req("ann", "w1", "n", "WIN", 2, None),
   win   |-> Req("ann", "w1", "o", "WIN", 1, "b")]

\* Two ROLLBACKs that name each other.
Circular ==
  [ping |-> Req("ann", "w1", "i", "ROLLBACK", 1, "o"),
   pong |-> Req("ann", "w1", "o", "ROLLBACK", 1, "i")]
=============================================================================
