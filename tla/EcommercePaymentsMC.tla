------------------------- MODULE EcommercePaymentsMC -------------------------
(* One order of one variant, paid with PayPal and with Stripe.              *)
EXTENDS EcommercePayments, TLC

CONSTANTS o1, v1, paypal, stripe

OneOrder == {o1}
Quantities == [o \in Order |-> v1 :> 1]
BothProviders == {paypal, stripe}
TheOrder == [p \in Payment |-> o1]

Symmetry == Permutations(Handler)
=============================================================================
