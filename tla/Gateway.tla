------------------------------- MODULE Gateway -------------------------------
(***************************************************************************)
(* The in-process ingress of include/gateway.hpp and                       *)
(* include/symbol_table.hpp: a command has its symbol interned, is given   *)
(* the next ingress number and enters a ring that drops its oldest entry   *)
(* when it is full.  Everything here belongs to the gateway's thread.      *)
(***************************************************************************)
EXTENDS Integers, Sequences

CONSTANT Capacity  \* of the ring

ASSUME GatewayAssumption == Capacity \in Nat

VARIABLES
    next,       \* next_ of the Sequencer
    ring,       \* queue_ of the IngressRing, oldest first
    names,      \* names_ of the SymbolTable: the symbol of id i is names[i + 1]
    ids,        \* ids_ of the SymbolTable: a function on the symbols it knows
    delivered   \* history: the ingress numbers pop() returned

gatewayVars == <<next, ring, names, ids, delivered>>

GatewayInit ==
    /\ next = 1
    /\ ring = <<>>
    /\ names = <<>>
    /\ ids = <<>>
    /\ delivered = <<>>

\* SymbolTable::intern(): the id of a symbol, new or known, and the tables then.
Intern(symbol) ==
    IF symbol \in DOMAIN ids
      THEN UNCHANGED <<names, ids>>
      ELSE /\ names' = Append(names, symbol)
           /\ ids' = [s \in DOMAIN ids \cup {symbol} |->
                         IF s = symbol THEN Len(names) ELSE ids[s]]

\* IngressRing::push().  At capacity zero the ring is never "full" when it has
\* entries, and is not bounded.
PushedDroppingNewest(q, item) ==
    IF Len(q) = Capacity /\ q # <<>> THEN q ELSE Append(q, item)

Pushed(q, item) ==
    Append(IF Len(q) = Capacity /\ q # <<>> THEN Tail(q) ELSE q, item)

\* Sequencer::assign() and IngressRing::push() for one command.
Ingest(symbol) ==
    /\ Intern(symbol)
    /\ next' = next + 1
    /\ ring' = Pushed(ring, [ingress |-> next, symbol |-> ids'[symbol]])
    /\ UNCHANGED delivered

\* IngressRing::pop() by the thread that feeds the shards.
Deliver ==
    /\ ring # <<>>
    /\ delivered' = Append(delivered, Head(ring).ingress)
    /\ ring' = Tail(ring)
    /\ UNCHANGED <<next, names, ids>>
=============================================================================
