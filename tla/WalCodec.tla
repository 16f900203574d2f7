------------------------------ MODULE WalCodec ------------------------------
(***************************************************************************)
(* How a command becomes a record of the log and comes back:               *)
(* serialize_add() and its like and apply_record() of src/sharded.cpp, and *)
(* the names of include/types.hpp.                                         *)
(***************************************************************************)
EXTENDS Json

CONSTANT NULL  \* no command

\* The keys and names that stand in a record, each shortened to one letter.
Names == <<"type", "command", "reason", "symbol", "order_id", "participant_id", "side",
           "price_ticks", "quantity", "time_in_force", "stp", "new_order_id",
           "new_price_ticks", "new_quantity", "add", "cancel", "replace", "risk_reject",
           "BUY", "SELL", "GTC", "IOC", "FOK", "MARKET", "NONE", "CANCEL_AGGRESSOR",
           "CANCEL_PASSIVE", "CANCEL_BOTH">>
Text(name) == <<96 + SelectInSeq(Names, LAMBDA n : n = name)>>

\* to_string() of an enumeration, and *_from_string() with its default.
SideName == [Buy |-> "BUY", Sell |-> "SELL"]
TifName == [GTC |-> "GTC", IOC |-> "IOC", FOK |-> "FOK", MARKET |-> "MARKET"]
StpName == [None |-> "NONE", CancelAggressor |-> "CANCEL_AGGRESSOR",
            CancelPassive |-> "CANCEL_PASSIVE", CancelBoth |-> "CANCEL_BOTH"]

FromStringDefault(names, text, default) == default
FromString(names, text, default) ==
    IF \E v \in DOMAIN names : Text(names[v]) = text
      THEN CHOOSE v \in DOMAIN names : Text(names[v]) = text
      ELSE default

-----------------------------------------------------------------------------
(***************************************************************************)
(* Records.                                                                *)
(***************************************************************************)
Member(name, value) == <<Text(name), value>>
NameMember(name, value) == Member(name, String(Text(value)))

SerializeAdd(c) ==
    Object(<<Member("symbol", String(c.symbol)), Member("order_id", Number(c.order_id)),
             Member("participant_id", String(c.participant)),
             NameMember("side", SideName[c.side]), Member("price_ticks", Number(c.price)),
             Member("quantity", Number(c.quantity)),
             NameMember("time_in_force", TifName[c.tif]), NameMember("stp", StpName[c.stp])>>)

SerializeCancel(c) ==
    Object(<<Member("symbol", String(c.symbol)), Member("order_id", Number(c.order_id))>>)

SerializeReplace(c) ==
    Object(<<Member("symbol", String(c.symbol)), Member("order_id", Number(c.order_id)),
             Member("new_order_id", Number(c.new_order_id)),
             Member("new_price_ticks", Number(c.new_price)),
             Member("new_quantity", Number(c.new_quantity)),
             NameMember("time_in_force", TifName[c.tif])>>)

Record(c) ==
    Object(CASE c.type = "Add" ->
                  <<NameMember("type", "add"), Member("command", SerializeAdd(c))>>
             [] c.type = "Cancel" ->
                  <<NameMember("type", "cancel"), Member("command", SerializeCancel(c))>>
             [] c.type = "Replace" ->
                  <<NameMember("type", "replace"), Member("command", SerializeReplace(c))>>)

RiskReject(c, reason) ==
    Object(<<NameMember("type", "risk_reject"), Member("command", SerializeAdd(c)),
             Member("reason", String(reason))>>)

\* apply_record(): the command it gives to the engine, NULL when it gives none.
\* A record without a type or command throws; a missing field has a default.
ApplyRecord(record) ==
    LET type == Find(record, Text("type")).value[2]
        command == Find(record, Text("command")).value
        field(name, default) ==
            LET v == Find(command, Text(name)) IN IF v.ok THEN v.value[2] ELSE default
        str(name) == field(name, <<>>)
        int(name) == field(name, 0)
        tif == FromString(TifName, str("time_in_force"), "GTC")
    IN  CASE type = Text("add") ->
               [type |-> "Add", symbol |-> str("symbol"), order_id |-> int("order_id"),
                participant |-> str("participant_id"),
                side |-> FromString(SideName, str("side"), "Sell"),
                price |-> int("price_ticks"), quantity |-> int("quantity"), tif |-> tif,
                stp |-> FromString(StpName, str("stp"), "None")]
          [] type = Text("cancel") ->
               [type |-> "Cancel", symbol |-> str("symbol"), order_id |-> int("order_id")]
          [] type = Text("replace") ->
               [type |-> "Replace", symbol |-> str("symbol"), order_id |-> int("order_id"),
                new_order_id |-> int("new_order_id"), new_price |-> int("new_price_ticks"),
                new_quantity |-> int("new_quantity"), tif |-> tif]
          [] OTHER -> NULL
=============================================================================
