-------------------------- MODULE MCOrderLifecycle ---------------------------
(* Instances of OrderLifecycle for TLC.                                     *)
EXTENDS OrderLifecycle, TLC

CONSTANTS s1, s2, i1, i2

TwoItems == {i1, i2}
OnePacked == {i2}
TwoStaff == {s1, s2}

\* Two requests race about orders of one item, which is packed; of the orders
\* of two items one is packed, and one request at a time is about them.  The
\* capabilities of an order without a platform mean nothing; here they keep
\* apart the orders that an edit may turn into each other: an edit replaces
\* the item of the first by another, and gives or takes an item of the second.
CustomerOrders ==
    [channel : {"QR"}, type : {"TAKEOUT", "DINE_IN"}, items : {OnePacked},
     capabilities : {{}}]
    \cup [channel : {"QR"}, type : {"TAKEOUT", "DINE_IN"}, items : {TwoItems, {i1}},
          capabilities : {{"ORDER_READY"}}]
PlatformOrders ==
    {[channel |-> "EXTERNAL", type |-> "TAKEOUT", items |-> OnePacked,
      capabilities |-> {"ORDER_PREPARING", "ORDER_READY"}],
     [channel |-> "EXTERNAL", type |-> "TAKEOUT", items |-> TwoItems,
      capabilities |-> {"ORDER_READY"}]}
AllOrders == CustomerOrders \cup PlatformOrders
Crews == [k \in AllOrders |-> IF k.items = OnePacked THEN TwoStaff ELSE {s1}]
=============================================================================
