------------------------- MODULE MCOrderItemBatches --------------------------
(* The orders of MCOrderLifecycle, with the order-items/batch route.        *)
EXTENDS OrderItemBatches, MCOrderLifecycle
=============================================================================
