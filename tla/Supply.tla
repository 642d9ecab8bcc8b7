------------------------------- MODULE Supply -------------------------------
(***************************************************************************)
(* Stock, purchase orders and the items of the orders of the print shop    *)
(* (routes/isotto_catalog_router.py, routes/isotto_router.py).             *)
(*                                                                         *)
(* All orders draw on one stock, and there is one supplier.  A variant is  *)
(* a product in a colour and a size; a supplier's code finds one product   *)
(* or none.  An item is of a variant, or of a product whose colour or size *)
(* is not known yet; items of no product take no part.  A request counts   *)
(* or receives one variant; a purchase order has one line for a variant.   *)
(* Statuses the code treats alike are one: "open" stands for draft, sent,  *)
(* confirmed, shipped and partial_received, "later" for what an item is    *)
(* after stock_received.                                                   *)
(***************************************************************************)
EXTENDS Integers, FiniteSets, FiniteSetsExt, Functions, Rows

CONSTANTS Handlers, \* requests in flight
          Ops,      \* the operations that are asked for
          Variants, \* the combinations of product, colour and size
          Coded,    \* the variants whose product has the code of its supplier
          Orders,   \* the orders of customers
          Items,    \* bound: rows of isotto_order_line_items
          POs,      \* bound: rows of isotto_purchase_orders
          MaxStock  \* bound: pieces of a variant counted or on hand

AllOps == {"count", "receive", "item", "edit_item", "generate", "create", "edit", "po_status"}

(* What an item without a colour or a size is of. *)
Unsized == "unsized"
Kinds == Variants \cup {Unsized}

(* What the bounds have to satisfy: Desks assumes it of its instances. *)
SupplyAssumption == /\ Coded \subseteq Variants /\ Unsized \notin Variants
                    /\ IsFiniteSet(Items) /\ IsFiniteSet(POs)
                    /\ MaxStock \in Nat /\ Ops \subseteq AllOps

VARIABLES stock,  \* isotto_catalog_stock
          item,   \* isotto_order_line_items
          supply, \* isotto_purchase_orders
          booked, \* history: what was counted last and came in since, of each variant
          most,   \* history: the most that was ever counted, and all that came in
          loose,  \* history: the variants whose stock, items or orders were set by hand
          h       \* the handlers

vars == <<stock, item, supply, booked, most, loose, h>>

ItemStatus == {"pending", "stock_ordered", "stock_received", "later"}
POStatus == {"open", "received", "cancelled"}
Pieces == 0 .. MaxStock
Idle == [op |-> "none"]
NoStock == [there |-> FALSE, on |-> 0, reserved |-> 0]
NoItem == [status |-> "unused", of |-> Unsized, order |-> "none"]
NoPO == [status |-> "unused", lines |-> [v \in Variants |-> 0], related |-> {}]

Init == /\ stock = [v \in Variants |-> NoStock]
        /\ item = [i \in Items |-> NoItem]
        /\ supply = [o \in POs |-> NoPO]
        /\ booked = [v \in Variants |-> 0] /\ most = booked
        /\ loose = {}
        /\ h = [p \in Handlers |-> Idle]

Known == {i \in Items : item[i].status # "unused"}
ItemsOf(r) == {i \in Known : item[i].order = r}
Lines == [Variants -> 0 .. 1]

Start(p, request) == /\ h[p] = Idle /\ request.op \in Ops
                     /\ h' = [h EXCEPT ![p] = request]
                     /\ UNCHANGED <<stock, item, supply, booked, most, loose>>
Finish(p, op) == h[p].op = op /\ h' = [h EXCEPT ![p] = Idle]

(* The stock row of v, read as `seen`, is saved as `new`: a row that was missing is inserted,
   which the unique index refuses when it no longer is. *)
Insertable(v, seen) == seen.there \/ ~stock[v].there
Saved(v, seen, new) == IF seen.there THEN Flushed(stock[v], seen, new) ELSE new
More(row, n) == [row EXCEPT !.there = TRUE, !.on = @ + n]
-----------------------------------------------------------------------------
(* bulk_update_stock and receive_stock read the row... *)
StockLoad(p, op, v) == Start(p, [op |-> op, id |-> v, seen |-> stock[v]])

(* ...which the first sets to what was counted... *)
Count(p, n, r) ==
    LET v == h[p].id
    IN /\ Finish(p, "count")
       /\ Insertable(v, h[p].seen)
       /\ stock' = [stock EXCEPT ![v] = Saved(v, h[p].seen, [there |-> TRUE, on |-> n, reserved |-> r])]
       /\ booked' = [booked EXCEPT ![v] = n]
       /\ most' = [most EXCEPT ![v] = Max({@, n})]
       /\ loose' = loose \cup {v}
       /\ UNCHANGED <<item, supply>>

(* ...and the second adds a delivery to. *)
Receive(p, n) ==
    LET v == h[p].id
    IN /\ Finish(p, "receive")
       /\ Insertable(v, h[p].seen) /\ most[v] + n <= MaxStock
       /\ stock' = [stock EXCEPT ![v] = Saved(v, h[p].seen, More(h[p].seen, n))]
       /\ booked' = [booked EXCEPT ![v] = @ + n] /\ most' = [most EXCEPT ![v] = @ + n]
       /\ UNCHANGED <<item, supply, loose>>
-----------------------------------------------------------------------------
(* create_line_item and import_roster: each new item i of order r is of of[i]. *)
AddItems(of, r) ==
    /\ "item" \in Ops
    /\ DOMAIN of \cap Known = {}
    /\ item' = [i \in Items |-> IF i \in DOMAIN of
                               THEN [status |-> "pending", of |-> of[i], order |-> r]
                               ELSE item[i]]
    /\ UNCHANGED <<stock, supply, booked, most, loose, h>>

ItemLoad(p, i) == i \in Known /\ Start(p, [op |-> "edit_item", id |-> i, seen |-> item[i]])

(* update_line_item, update_line_item_status and bulk_update_print_queue_status: any status,
   and the first any colour, size and product.  An item keeps its order. *)
ChangeItem(p, s, k) ==
    LET i == h[p].id
    IN /\ Finish(p, "edit_item")
       /\ i \in Known
       /\ item' = [item EXCEPT ![i] =
                      Flushed(@, h[p].seen, [h[p].seen EXCEPT !.status = s, !.of = k])]
       /\ loose' = IF s = "stock_ordered" THEN loose \cup {k} ELSE loose
       /\ UNCHANGED <<stock, supply, booked, most>>

(* delete_line_item *)
DeleteItem(p) ==
    /\ Finish(p, "edit_item")
    /\ item' = [item EXCEPT ![h[p].id] = NoItem]
    /\ UNCHANGED <<stock, supply, booked, most, loose>>
-----------------------------------------------------------------------------
(* create_purchase_order; two that draw the same number conflict, and one rolls back. *)
CreatePO(p, o, lines, related) ==
    /\ h[p] = Idle /\ "create" \in Ops
    /\ supply[o].status = "unused" /\ \E v \in Variants : lines[v] > 0
    /\ supply' = [supply EXCEPT ![o] = [status |-> "open", lines |-> lines, related |-> related]]
    /\ UNCHANGED <<stock, item, booked, most, loose, h>>

POLoad(p, op, o) ==
    /\ op \in {"edit", "po_status"}
    /\ supply[o].status # "unused" /\ Start(p, [op |-> op, id |-> o, seen |-> supply[o]])

(* update_purchase_order: other lines or, without a booking, another status. *)
EditPO(p, s, lines) ==
    LET o == h[p].id
    IN /\ Finish(p, "edit")
       /\ supply' = [supply EXCEPT ![o] =
                        Flushed(@, h[p].seen, [h[p].seen EXCEPT !.status = s, !.lines = lines])]
       /\ loose' = loose \cup {v \in Variants : h[p].seen.lines[v] > 0}
       /\ UNCHANGED <<stock, item, booked, most>>

(* update_po_status: one that books nothing... *)
POSet(p, s) ==
    LET o == h[p].id
    IN /\ Finish(p, "po_status")
       /\ s # "received"
       /\ supply' = [supply EXCEPT ![o] = Flushed(@, h[p].seen, [h[p].seen EXCEPT !.status = s])]
       /\ loose' = IF s = "cancelled" THEN loose \cup {v \in Variants : h[p].seen.lines[v] > 0}
                   ELSE loose
       /\ UNCHANGED <<stock, item, booked, most>>

(* What a purchase order books: a line whose code finds no product is skipped. *)
Came(row) == {v \in Coded : row.lines[v] > 0}

(* ...or RECEIVED, whatever it was: the stock of every line is read, and the items of the
   related orders that wait for it... *)
POBook(p) ==
    LET row == h[p].seen
    IN /\ h[p].op = "po_status"
       /\ h' = [h EXCEPT ![p] =
                   [op |-> "book", id |-> @.id, seen |-> row, stock |-> stock,
                    items |-> {i \in Items : /\ item[i].status = "stock_ordered"
                                             /\ item[i].order \in row.related
                                             /\ item[i].of \in Came(row)}]]
       /\ UNCHANGED <<stock, item, supply, booked, most, loose>>

(* ...and all is saved in one commit. *)
POReceived(p) ==
    LET o == h[p].id
        row == h[p].seen
        plus(total) == [v \in Variants |-> IF v \in Came(row) THEN total[v] + row.lines[v] ELSE total[v]]
    IN /\ Finish(p, "book")
       /\ \A v \in Came(row) : Insertable(v, h[p].stock[v]) /\ most[v] + row.lines[v] <= MaxStock
       /\ h[p].items \subseteq Known
       /\ stock' = [v \in Variants |->
                       IF v \in Came(row)
                       THEN Saved(v, h[p].stock[v], More(h[p].stock[v], row.lines[v]))
                       ELSE stock[v]]
       /\ booked' = plus(booked) /\ most' = plus(most)
       /\ item' = [i \in Items |-> IF i \in h[p].items THEN [item[i] EXCEPT !.status = "stock_received"]
                                   ELSE item[i]]
       /\ supply' = [supply EXCEPT ![o] = Flushed(@, row, [row EXCEPT !.status = "received"])]
       /\ UNCHANGED loose
-----------------------------------------------------------------------------
(* Mutant: a variant is ordered once, however many items are of it. *)
ShortOnce(items, rows, v) ==
    LET needed == IF \E i \in DOMAIN items : items[i].of = v THEN 1 ELSE 0
    IN Max({0, needed - (rows[v].on - rows[v].reserved)})

(* What the items need of a variant beyond what is on hand and not reserved; every item
   counts, whatever its status, and nothing is reserved for those of another order. *)
Short(items, rows, v) ==
    LET needed == Cardinality({i \in DOMAIN items : items[i].of = v})
    IN Max({0, needed - (rows[v].on - rows[v].reserved)})

(* generate_po_from_order reads the items of one order and the stock... *)
GenerateLoad(p, r) ==
    /\ ItemsOf(r) # {}
    /\ Start(p, [op |-> "generate", id |-> r, items |-> [i \in ItemsOf(r) |-> item[i]],
                 stock |-> stock])

(* ...and orders what they are short of: then every pending item of the order has been
   ordered, those that stock covers and those without a size too. *)
Generate(p, o) ==
    LET lines == [v \in Variants |-> Short(h[p].items, h[p].stock, v)]
        pending == {i \in DOMAIN h[p].items : h[p].items[i].status = "pending"}
    IN /\ Finish(p, "generate")
       /\ supply[o].status = "unused" /\ \E v \in Variants : lines[v] > 0
       /\ pending \subseteq Known
       /\ supply' = [supply EXCEPT ![o] = [status |-> "open", lines |-> lines, related |-> {h[p].id}]]
       /\ item' = [i \in Items |-> IF i \in pending THEN [item[i] EXCEPT !.status = "stock_ordered"]
                                   ELSE item[i]]
       /\ UNCHANGED <<stock, booked, most, loose>>

(* An error, a conflict or a crash, or nothing to order. *)
Abort(p) ==
    /\ h[p] # Idle
    /\ h' = [h EXCEPT ![p] = Idle]
    /\ UNCHANGED <<stock, item, supply, booked, most, loose>>

Next ==
    \/ \E s \in SUBSET Items : \E of \in [s -> Kinds], r \in Orders : s # {} /\ AddItems(of, r)
    \/ \E p \in Handlers :
        \/ \E v \in Variants, op \in {"count", "receive"} : StockLoad(p, op, v)
        \/ \E n \in Pieces : (\E r \in Pieces : Count(p, n, r)) \/ (n > 0 /\ Receive(p, n))
        \/ \E i \in Items : ItemLoad(p, i)
        \/ \E s \in ItemStatus, k \in Kinds : ChangeItem(p, s, k)
        \/ DeleteItem(p)
        \/ \E o \in POs : \/ \E lines \in Lines, rs \in SUBSET Orders : CreatePO(p, o, lines, rs)
                          \/ \E op \in {"edit", "po_status"} : POLoad(p, op, o)
                          \/ Generate(p, o)
        \/ \E s \in POStatus : POSet(p, s) \/ \E lines \in Lines : EditPO(p, s, lines)
        \/ POBook(p) \/ POReceived(p)
        \/ (\E r \in Orders : GenerateLoad(p, r)) \/ Abort(p)

Spec == Init /\ [][Next]_vars
-----------------------------------------------------------------------------
(* Every column holds what it may hold. *)
TypeOK ==
    /\ stock \in [Variants -> [there : BOOLEAN, on : Nat, reserved : Nat]]
    /\ item \in [Items -> [status : {"unused"} \cup ItemStatus, of : Kinds,
                          order : Orders \cup {"none"}]]
    /\ supply \in [POs -> [status : {"unused"} \cup POStatus, lines : [Variants -> Nat],
                           related : SUBSET Orders]]
    /\ loose \subseteq Kinds

(* One handler: what is on hand is what was counted last and has come in since, by hand or
   with an order, each as often as it was received.  (bulk_update_stock, receive_stock,
   update_po_status.) *)
StockIsBooked == \A v \in Variants : stock[v].on = booked[v]

(* One handler: the stock and the open purchase orders cover the items of an order that wait
   for stock, each order taken by itself, over deliveries and more items and orders, until
   somebody counts the stock, cancels or edits a purchase order, or sets an item by hand.  The
   variants of products without a code are left out, as theirs is never booked; and two orders
   may wait for the same piece, as none is reserved.
   (generate_po_from_order, update_po_status.) *)
WaitingIsCovered ==
    LET ordered(v) == [o \in POs |-> IF supply[o].status = "open" THEN supply[o].lines[v] ELSE 0]
        waiting(v, r) == {i \in Items : item[i].status = "stock_ordered" /\ item[i].of = v
                                       /\ item[i].order = r}
    IN \A v \in Coded \ loose, r \in Orders :
          stock[v].on + SumFunctionOnSet(ordered(v), POs) >= Cardinality(waiting(v, r))

(* However handlers interleave, counts included, nothing is on hand beyond the most that was
   counted and all that came in: deliveries may be lost, none is booked for more.
   (bulk_update_stock, receive_stock, update_po_status.) *)
NeverOverstocked == \A v \in Variants : stock[v].on <= most[v]
=============================================================================
