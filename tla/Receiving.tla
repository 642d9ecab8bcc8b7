------------------------------ MODULE Receiving ------------------------------
(***************************************************************************)
(* Goods coming in at the till's back door (receive_stock in               *)
(* routes/pos_router.py): a batch of lines raises the stock of products    *)
(* and writes a movement for each.  Products are read one by one, and all  *)
(* is saved in one commit.  Sales leave the stock alone.                   *)
(***************************************************************************)
EXTENDS Integers, Sequences, Functions

CONSTANTS Handlers, \* requests in flight
          Goods,    \* products
          MaxBatch, \* bound: lines of a batch
          MaxStock  \* bound: pieces that ever came in of a product

(* What the bounds have to satisfy: Desks assumes it of its instances. *)
ReceivingAssumption == {MaxBatch, MaxStock} \subseteq Nat

VARIABLES stock, \* products.stock_quantity
          moves, \* pos_stock_movements: what they add up to, and quantity_after of the last
          h      \* the handlers

vars == <<stock, moves, h>>

Idle == [lines |-> <<>>, seen |-> <<>>]

Init == /\ stock = [g \in Goods |-> 0]
        /\ moves = [g \in Goods |-> [sum |-> 0, after |-> 0]]
        /\ h = [p \in Handlers |-> Idle]

(* A request reads the product of each line; one that is on two lines is read once... *)
Resolve(p, g, n) ==
    /\ Len(h[p].lines) < MaxBatch
    /\ h' = [h EXCEPT ![p].lines = Append(@, [of |-> g, qty |-> n]),
                      ![p].seen = IF g \in DOMAIN @ THEN @
                                  ELSE [x \in DOMAIN @ \cup {g} |-> IF x = g THEN stock[g] ELSE @[x]]]
    /\ UNCHANGED <<stock, moves>>

(* The pieces of g in a batch. *)
Coming(lines, g) ==
    SumFunctionOnSet([i \in DOMAIN lines |-> lines[i].qty], {i \in DOMAIN lines : lines[i].of = g})

(* ...and commits the sums. *)
Commit(p) ==
    LET came(g) == Coming(h[p].lines, g)
        after(g) == h[p].seen[g] + came(g)
        goods == DOMAIN h[p].seen
    IN /\ h[p] # Idle
       /\ \A g \in goods : moves[g].sum + came(g) <= MaxStock
       /\ stock' = [g \in Goods |-> IF g \in goods THEN after(g) ELSE stock[g]]
       /\ moves' = [g \in Goods |-> IF g \in goods THEN [sum |-> moves[g].sum + came(g), after |-> after(g)]
                                    ELSE moves[g]]
       /\ h' = [h EXCEPT ![p] = Idle]

(* A product that is not there, an error or a crash: nothing is received. *)
Abort(p) == h[p] # Idle /\ h' = [h EXCEPT ![p] = Idle] /\ UNCHANGED <<stock, moves>>

Next ==
    \E p \in Handlers : \/ Commit(p) \/ Abort(p)
                        \/ \E g \in Goods, n \in 1 .. MaxStock : Resolve(p, g, n)

Spec == Init /\ [][Next]_vars
-----------------------------------------------------------------------------
(* Every column holds what it may hold. *)
TypeOK == stock \in [Goods -> Nat] /\ moves \in [Goods -> [sum : Nat, after : Nat]]

(* One handler: the stock is what the movements add up to and what the last one says, also
   when a product is on two lines of a batch.  (receive_stock: "stock up" and the movement.) *)
StockIsMoves == \A g \in Goods : stock[g] = moves[g].sum /\ stock[g] = moves[g].after

(* However handlers interleave, the stock never counts a piece no movement does: a batch that
   another overwrites is missing from it.  (receive_stock.) *)
NeverUncounted == \A g \in Goods : stock[g] <= moves[g].sum
=============================================================================
