------------------------- MODULE BlueprintServicesMC -------------------------
(* Three services of the blueprint for TLC.  They share no state, so that   *)
(* nothing is learnt from interleaving them: a behaviour exercises the one  *)
(* it starts with, and the others stay as they are.                         *)
(*                                                                          *)
(* Orders: two that compete for two variants, one of them in both orders.   *)
(* IAM: one user, two requests at a time.  Billing: one event, delivered    *)
(* twice at a time.                                                         *)
EXTENDS OrderInventory, IamSessions, BillingWebhooks, TLC

CONSTANTS o1, o2, v1, v2

VARIABLE service

TwoOrders == {o1, o2}
TwoVariants == {v1, v2}
Quantities == o1 :> (v1 :> 1 @@ v2 :> 1) @@ o2 :> (v1 :> 0 @@ v2 :> 1)

vars == <<service, orderVars, iamVars, billingVars>>

Init ==
  /\ service \in {"orders", "iam", "billing"}
  /\ OrderInit /\ IamInit /\ BillingInit
  /\ service # "orders" => \A v \in Variant : supplied[v] = 0

Next ==
  /\ UNCHANGED service
  /\ \/ service = "orders" /\ OrderNext /\ UNCHANGED <<iamVars, billingVars>>
     \/ service = "iam" /\ IamNext /\ UNCHANGED <<orderVars, billingVars>>
     \/ service = "billing" /\ BillingNext /\ UNCHANGED <<orderVars, iamVars>>

Spec == Init /\ [][Next]_vars

(* Each service's state has its types.                                      *)
TypeOK == OrderTypeOK /\ IamTypeOK /\ BillingTypeOK

Symmetry == Permutations(Token) \cup Permutations(Cookie) \cup Permutations(Request)
=============================================================================
