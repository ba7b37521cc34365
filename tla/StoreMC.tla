------------------------------- MODULE StoreMC -------------------------------
(* The TypeScript store for TLC.  Its stock and its checkout share no state *)
(* here, so that nothing is learnt from interleaving them: a behaviour      *)
(* exercises one of the two, and of the checkout either what two shoppers'  *)
(* requests do to each other and to one webhook request, or what two        *)
(* webhook requests do beside one shopper's, for one order.  Beside two     *)
(* shoppers the cart changes only while no payment is answered, no call of  *)
(* a webhook fails and every amount agrees.  Beside two webhook requests    *)
(* two at most of these meet: a changed cart, a failed call and an amount   *)
(* that disagrees.                                                          *)
EXTENDS StoreInventory, StoreCheckout, TLC

CONSTANTS o1, o2, v1, v2, q1, q2, c1, d1, p1

VARIABLE flow

\* The first order wants one of each variant, the second only the second one.
ItemsMC == (o1 :> (v1 :> 1 @@ v2 :> 1)) @@ (o2 :> (v1 :> 0 @@ v2 :> 1))
StockMC == v1 :> 1 @@ v2 :> 1

storeMCVars == <<flow, inventoryVars, storefrontVars>>

StoreInit ==
  /\ flow \in {"inventory", "shoppers", "webhooks"}
  /\ InventoryInit /\ CheckoutInit

Untouched == \A v \in Variant : supplied'[v] = 0

NothingSent == \A e \in HookEvent : ledger[e] = "unsent"
AmountsAgree == \A r \in Ref : ledger[<<r, "mismatch">>] = "unsent"

StoreNext ==
  /\ UNCHANGED flow
  /\ \/ /\ flow = "inventory" /\ InventoryNext /\ UNCHANGED storefrontVars
        /\ crashes' = 0 \/ Untouched
     \/ /\ flow = "shoppers" /\ CheckoutNext /\ UNCHANGED inventoryVars
        /\ \A d \in Hook \ {d1} : UNCHANGED hook[d]
        /\ edits' = 0 \/ NothingSent'
        /\ AmountsAgree' /\ UNCHANGED faults
     \/ /\ flow = "webhooks" /\ CheckoutNext /\ UNCHANGED inventoryVars
        /\ \A c \in Client \ {c1} : UNCHANGED client[c]
        /\ \A p \in CartOrder \ {p1} : UNCHANGED status[p]
        /\ edits' = 0 \/ faults' = 0 \/ AmountsAgree'

StoreSpec == StoreInit /\ [][StoreNext]_storeMCVars
=============================================================================
