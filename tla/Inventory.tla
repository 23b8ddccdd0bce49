----------------------------- MODULE Inventory -----------------------------
(***************************************************************************)
(* The inventories that assemble of src/src/game.rs rebuilds from the      *)
(* server's buy, remove, swap and use answers.                             *)
(*                                                                         *)
(* The server is not in src/.  It is modelled from what the code and       *)
(* src/src/packet/handlers/items.rs say of it: it keeps nine slots per     *)
(* hero, a recipe's result may land in a slot that still holds one of its  *)
(* components, and the buy is sent before the removals of the components,  *)
(* at the same timestamp.  One operation of the server is one run of       *)
(* packets on the wire; the assembler takes them off it one by one.  A     *)
(* packet whose decode is not clean is never typed and does not arrive.    *)
(***************************************************************************)
EXTENDS Recording, Sequences

CONSTANTS
  Heroes,
  Items,       \* item ids, none of them 0
  Recipe,      \* recipe results: result -> <<component, component>>
  NumSlots     \* 9

ASSUME InventoryAssumption ==
  /\ 0 \notin Items /\ NumSlots \in Nat
  /\ DOMAIN Recipe \subseteq Items
  /\ \A r \in DOMAIN Recipe : Recipe[r][1] \in Items /\ Recipe[r][2] \in Items

Slots == 0 .. NumSlots - 1

VARIABLES
  held,        \* the server's inventories
  wire,        \* packets sent and not yet assembled
  inventory,   \* the assembler's
  displaced,   \* per slot, the time in the map of the same name, or NoTime
  event        \* a removal or a use that the last packet pushed, if it did

server == <<held, now>>
inventoryVars == <<server, wire, inventory, displaced, event>>

Every(x) == [p \in Heroes |-> [s \in Slots |-> x]]
NoTime  == -1
NoEvent == [type |-> "none"]

InventoryInit ==
  /\ held = Every(0) /\ now = 0 /\ wire = <<>>
  /\ inventory = Every(0) /\ displaced = Every(NoTime) /\ event = NoEvent

-----------------------------------------------------------------------------
(* The server.  gone is the item a packet is about, which is not in it.    *)

BuyAns(p, item, slot)        == [kind |-> "buy", t |-> now, hero |-> p, item |-> item, slot |-> slot]
RemoveAns(p, slot)           == [kind |-> "remove", t |-> now, hero |-> p, slot |-> slot, gone |-> held[p][slot]]
SwapAns(p, from, to)      == [kind |-> "swap", t |-> now, hero |-> p, from |-> from, to |-> to]
UseAns(p, slot, byte, left)  == [kind |-> "use", t |-> now, hero |-> p, slot |-> slot,
                              survives |-> byte, charges_left |-> left, gone |-> held[p][slot]]

Send(packets) ==
  /\ wire = <<>> /\ wire' = packets
  /\ UNCHANGED <<inventory, displaced, event>>

Purchase(p, item, slot) ==
  /\ held[p][slot] = 0
  /\ Send(<<BuyAns(p, item, slot)>>)
  /\ held' = [held EXCEPT ![p][slot] = item]
  /\ UNCHANGED now

Sell(p, slot) ==
  /\ held[p][slot] # 0
  /\ Send(<<RemoveAns(p, slot)>>)
  /\ held' = [held EXCEPT ![p][slot] = 0]
  /\ UNCHANGED now

SwapSlots(p, from, to) ==
  /\ Send(<<SwapAns(p, from, to)>>)
  /\ held' = [held EXCEPT ![p][from] = held[p][to], ![p][to] = held[p][from]]
  /\ UNCHANGED now

\* An item is used up when neither the item nor a charge of it is left.
UseUp(p, slot, survives, left) ==
  /\ held[p][slot] # 0
  /\ Send(<<UseAns(p, slot, survives, left)>>)
  /\ held' = IF survives = 0 /\ left = 0 THEN [held EXCEPT ![p][slot] = 0] ELSE held
  /\ UNCHANGED now

\* The components in slots a and b become item r in slot; the removals of the
\* components follow the buy in either order.
Crafted(p, r, a, b, slot) ==
  /\ a # b /\ <<held[p][a], held[p][b]>> = Recipe[r]
  /\ slot \in {a, b} \/ held[p][slot] = 0
  /\ held' = [held EXCEPT ![p] = [s \in Slots |-> IF s = slot THEN r
                                                  ELSE IF s \in {a, b} THEN 0 ELSE @[s]]]

Craft(p, r, a, b, slot) ==
  /\ Crafted(p, r, a, b, slot)
  /\ \E order \in {<<a, b>>, <<b, a>>} :
       Send(<<BuyAns(p, r, slot), RemoveAns(p, order[1]), RemoveAns(p, order[2])>>)
  /\ UNCHANGED now

\* The same, where the removal of the component under the result is lost;
\* the server's next operation is of a later time.
CraftUntyped(p, r, a, b, slot) ==
  /\ Crafted(p, r, a, b, slot) /\ slot \in {a, b} /\ now < MaxTime
  /\ Send(<<BuyAns(p, r, slot), RemoveAns(p, IF slot = a THEN b ELSE a)>>)
  /\ now' = now + 1

ShopTick == now < MaxTime /\ now' = now + 1 /\ UNCHANGED <<held, wire, inventory, displaced, event>>

Server ==
  \/ \E p \in Heroes, s \in Slots :
       \/ \E item \in Items : Purchase(p, item, s)
       \/ Sell(p, s)
       \/ \E to \in Slots \ {s} : SwapSlots(p, s, to)
       \/ \E survives, left \in {0, 1} : UseUp(p, s, survives, left)
       \/ \E r \in DOMAIN Recipe, a, b \in Slots : Craft(p, r, a, b, s) \/ CraftUntyped(p, r, a, b, s)
  \/ ShopTick

-----------------------------------------------------------------------------
(* The branches of assemble's loop.  A packet of a hero that is not on the *)
(* roster, or of a slot there is not, changes nothing and is not sent here.*)

Take(kind) ==
  /\ wire # <<>> /\ Head(wire).kind = kind
  /\ wire' = Tail(wire)
  /\ UNCHANGED server

\* The event of a packet, with the slot's content as assembled and the item
\* the server meant.
Event(type, x) == [type |-> type, item |-> inventory[x.hero][x.slot], gone |-> x.gone]

Mutant_BuyItem_not_remembered ==
  LET x == Head(wire) IN
  /\ Take("buy")
  /\ UNCHANGED displaced
  /\ inventory' = [inventory EXCEPT ![x.hero][x.slot] = x.item]
  /\ event' = NoEvent

\* What the bought item lands on is remembered as displaced.
BuyItem ==
  LET x == Head(wire) IN
  /\ Take("buy")
  /\ displaced' = IF inventory[x.hero][x.slot] # 0
                  THEN [displaced EXCEPT ![x.hero][x.slot] = x.t] ELSE displaced
  /\ inventory' = [inventory EXCEPT ![x.hero][x.slot] = x.item]
  /\ event' = NoEvent

\* displaced.remove(..) == Some(b.t)
WasDisplaced(x) == displaced[x.hero][x.slot] = x.t

\* The removal of a displaced item only takes its entry out of the map.
RemoveItem ==
  LET x == Head(wire) IN
  /\ Take("remove")
  /\ displaced' = [displaced EXCEPT ![x.hero][x.slot] = NoTime]
  /\ IF WasDisplaced(x)
     THEN event' = NoEvent /\ UNCHANGED inventory
     ELSE /\ event' = Event("item_removed", x)
          /\ inventory' = [inventory EXCEPT ![x.hero][x.slot] = 0]

SwapItem ==
  LET x == Head(wire) IN
  /\ Take("swap")
  /\ inventory' = [inventory EXCEPT ![x.hero][x.from] = inventory[x.hero][x.to],
                                    ![x.hero][x.to] = inventory[x.hero][x.from]]
  /\ event' = NoEvent
  /\ UNCHANGED displaced

\* items::read_use
Consumed(x) == x.survives = 0 /\ x.charges_left = 0

UseItem ==
  LET x == Head(wire) IN
  /\ Take("use")
  /\ inventory' = IF Consumed(x) THEN [inventory EXCEPT ![x.hero][x.slot] = 0] ELSE inventory
  /\ event' = Event("item_use", x)
  /\ UNCHANGED displaced

Assemble == BuyItem \/ RemoveItem \/ SwapItem \/ UseItem

InventoryNext == Server \/ Assemble

InventorySpec == InventoryInit /\ [][InventoryNext]_inventoryVars

-----------------------------------------------------------------------------
\* Between two operations of the server the assembled inventory is the real
\* one, slot for slot, whatever was bought over what (items.rs:24-29, which
\* the self check of game.rs:693 relies on at the end of the game); and an item
\* that an event says was removed or used is the one the server removed or used
\* (game.rs:355-378).
FollowsServer ==
  /\ wire = <<>> => inventory = held
  /\ event # NoEvent => event.item = event.gone
=============================================================================
