------------------------------ MODULE MCCrossed ------------------------------
(***************************************************************************)
(* Two wallets and two BETs whose dependents are spread over both.  The    *)
(* instance looks the same with the wallets swapped, so wallets and        *)
(* requests are model values and TLC keeps one state of each such pair.    *)
(***************************************************************************)
EXTENDS MCWagering

CONSTANTS w1, w2, bet1, ref1, far1, bet2, ref2, far2

\* Each BET has a REFUND on its own wallet and one on the other wallet.
Crossed ==
  bet1 :> Req("ann", w1, "b1", "BET", 1, None) @@
  ref1 :> Req("ann", w1, "f1", "REFUND", 1, "b1") @@
  far1 :> Req("bob", w2, "g1", "REFUND", 1, "b1") @@
  bet2 :> Req("bob", w2, "b2", "BET", 1, None) @@
  ref2 :> Req("bob", w2, "f2", "REFUND", 1, "b2") @@
  far2 :> Req("ann", w1, "g2", "REFUND", 1, "b2")

BothHave1 == w1 :> Account("ann", 1) @@ w2 :> Account("bob", 1)

Swap(a, b) == a :> b @@ b :> a

\* The wallets change places, and with them everything on them.
Mirror == Swap(w1, w2) @@ Swap(bet1, bet2) @@ Swap(ref1, ref2) @@ Swap(far1, far2)

Symmetry == Handlers \cup {Mirror}

\* What the theorem about terminal states assumes holds here.
ASSUME OnlyCascades == \A r \in Request : Firm(r)
=============================================================================
