------------------------------ MODULE MCCodecs ------------------------------
(***************************************************************************)
(* Bounded inputs for Codecs: strings with every kind of byte that the     *)
(* writer treats in a way of its own, numbers at the ends of a word.       *)
(***************************************************************************)
EXTENDS Codecs

Add(symbol, participant, side, tif, stp, price, quantity) ==
    [type |-> "Add", symbol |-> symbol, participant |-> participant, side |-> side, tif |-> tif,
     stp |-> stp, order_id |-> 258, price |-> price, quantity |-> quantity]

\* '"', '\', newline and return, a control character, a byte above 127, 'u'.
SomeCommands ==
    {Add(<<34, 92>>, <<10>>, "Buy", "GTC", "None", -1, 1),
     Add(<<88>>, <<13, 1>>, "Sell", "IOC", "CancelAggressor", 32767, -32768),
     Add(<<>>, <<31, 200>>, "Buy", "FOK", "CancelPassive", 0, 255),
     Add(<<92, 117>>, <<>>, "Sell", "MARKET", "CancelBoth", 256, 10),
     [type |-> "Cancel", symbol |-> <<92>>, order_id |-> -32768],
     [type |-> "Replace", symbol |-> <<10, 34>>, tif |-> "FOK", order_id |-> 99,
      new_order_id |-> 100, new_price |-> -300, new_quantity |-> 32767]}

Strings == {<<>>} \cup {<<a, b>> : a, b \in {1, 8, 9, 10, 12, 13, 16, 31, 34, 47, 92, 110, 117, 200}}

Leaves == {Null, Bool(TRUE), Bool(FALSE), Number(0), Number(-10), Number(1234567890), String(<<>>)}

\* Values, lists of two of them, and a book as a snapshot has it.
SomeDocuments ==
    Leaves
    \cup {String(s) : s \in Strings}
    \cup {Array(<<a, b>>) : a, b \in Leaves \cup {Array(<<>>), Object(<<>>)}}
    \cup {Object(<<<<s, Object(<<<<s, Number(1)>>, <<<<88>>, Array(<<String(s)>>)>>>>)>>>>) :
             s \in Strings}

SomeBursts == ({1, 2, 128, 254, 255} \X {0, 1, 2, 128, 254, 255}) \cup {<<0, 1>>, <<0, 128>>}
=============================================================================
