------------------------------ MODULE MCShard -------------------------------
(***************************************************************************)
(* Small instances of Shard for TLC.                                       *)
(***************************************************************************)
EXTENDS Shard

SmallLimits == [max_order_quantity |-> 3, min_price_ticks |-> 1,
                max_price_ticks |-> 3, max_notional_ticks |-> 4]

Order(type, tif, price, quantity) ==
    [type |-> type, tif |-> tif, price |-> price, quantity |-> quantity]

Good == Order("add", "GTC", 2, 2)
Bad == Order("add", "GTC", 3, 2)

GoodOnly == {Good}
Mixed == {Good, Bad}

NoIngress == {NULL}
SomeIngress == {1, 2}

Anywhere == {"idle", "flush", "save", "write", "rename", "truncate"}
Nowhere == {}

AnyFailure == {"open", "rename", "truncate", "write"}
=============================================================================
