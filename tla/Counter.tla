------------------------------- MODULE Counter -------------------------------
(***************************************************************************)
(* A basket on the pages of the till, what they show for it, and the sale  *)
(* the server makes of it (templates/pos/scan.html, checkout.html,         *)
(* base.html; create_sale in routes/pos_router.py).                        *)
(*                                                                         *)
(* Both compute the price on their own, with the rules of Pricing; here    *)
(* are the steps that differ.  Discounts are hundredths of a percent.      *)
(* Products keep their price while they lie in a basket.                   *)
(***************************************************************************)
EXTENDS Pricing

CONSTANTS Shelf,     \* the products
          MaxLines,  \* bound: lines of a basket
          MaxQty,    \* bound: pieces of a line
          Discounts, \* bound: percentages a cashier picks by hand
          Targets,   \* bound: totals a cashier agrees on
          Cap,       \* _max_discount_pct of the cashier
          Tiers,     \* discounts of the members' tiers
          Welcomes,  \* welcome discounts of held orders
          Step,      \* the smallest coin
          Modes,     \* cash_rounding_mode of the shop
          Notes,     \* bound: what is handed over in cash
          Takeaways, \* whether cafe food is taken away, or may be
          Standard, Reduced \* the rates of VAT

(* What the bounds have to satisfy: Desks assumes it of its instances. *)
CounterAssumption ==
    /\ MaxLines \in Nat /\ MaxQty \in Nat /\ Cap \in 0 .. 10000 /\ Step \in Nat
    /\ Discounts \subseteq 0 .. 10000 /\ 0 \in Tiers /\ 0 \in Welcomes

VARIABLES basket,   \* pos_cart of the page: its lines
          discount, \* its percentage
          agreed,   \* the target it was derived from, 0 for none or a basket changed since
          sale      \* the sale, and what the page showed for it

vars == <<basket, discount, agreed, sale>>

NoSale == [state |-> "none"]

Init == basket = <<>> /\ discount = 0 /\ agreed = 0 /\ sale = NoSale

Lines == DOMAIN basket

(* The page knows that a product may not be discounted, unless it came from the search page. *)
NewLine(p, treat, known) ==
    [product |-> p, qty |-> 1, treat |-> treat, known |-> known \/ treat \/ p.class # "promo"]
Promo(i) == basket[i].product.class = "promo"
-----------------------------------------------------------------------------
(* tierLineTotal, tierApplied, cartLineTotal: a line as the page shows it. *)
ShownLine(i) ==
    IF basket[i].treat THEN 0
    ELSE IF Pooled(basket, i) THEN PooledShare(basket, i)
    ELSE Tiered(basket[i].product, basket[i].qty).total

Broken(i) == \E t \in Reached(basket[i].product.tiers, basket[i].qty) : t.min >= 2

ShownSubtotal == SumOver(ShownLine, Lines)

(* cartEligibleSubtotal *)
ShownEligible ==
    SumOver(ShownLine, {i \in Lines : /\ ~(Promo(i) /\ basket[i].known)
                                      /\ ~Pooled(basket, i) /\ ~Broken(i)})

(* recalculateTotals, in hundredths of a hundredth of a cent: nothing is rounded yet. *)
ShownGross(all, eligible, percent) ==
    Max({10000 * (all - eligible), 10000 * all - eligible * percent})

(* payableTotal *)
ShownPayable(gross, payment) ==
    IF payment = "cash" THEN RoundTotal(HalfUp(gross, 10000), Step, "nearest") ELSE HalfUp(gross, 10000)
-----------------------------------------------------------------------------
(* line_money: the saving of a bundle is a discount off the shelf price. *)
ChargedLine(i) ==
    LET p == basket[i].product
        q == basket[i].qty
        deal == IF Pooled(basket, i) THEN PooledShare(basket, i) ELSE Tiered(p, q).total
        total == Lesser(deal, p.price * q)
        unit == HalfUp(Tiered(p, q).total, q)
    IN IF basket[i].treat THEN [unit |-> 0, off |-> 0, total |-> 0, final |-> FALSE]
       ELSE IF Poolable(p)
            THEN [unit |-> p.price, off |-> p.price * q - total, total |-> total,
                  final |-> total < p.price * q]
            ELSE [unit |-> unit, off |-> 0, total |-> unit * q, final |-> Tiered(p, q).final]

Rate(p, takeaway) == IF p.class = "cafe" /\ takeaway THEN Reduced ELSE Standard

(* Mutant: a member's discount is taken off the whole basket. *)
ChargedWhole(lines, manual, member, welcome) ==
    LET eligible == SumOver(LAMBDA i : lines[i].total, {i \in Lines : ~Promo(i) /\ ~lines[i].final})
        all == SumOver(LAMBDA i : lines[i].total, Lines)
        off == HalfUp(eligible * manual, 10000) + HalfUp(all * member, 10000)
               + HalfUp(eligible * welcome, 10000)
    IN [subtotal |-> all, eligible |-> eligible, total |-> all - Lesser(off, eligible)]

(* The three lanes of create_sale, each rounded, with the floor under them. *)
Charged(lines, manual, member, welcome) ==
    LET eligible == SumOver(LAMBDA i : lines[i].total, {i \in Lines : ~Promo(i) /\ ~lines[i].final})
        all == SumOver(LAMBDA i : lines[i].total, Lines)
        off == HalfUp(eligible * manual, 10000) + HalfUp(eligible * member, 10000)
               + HalfUp(eligible * welcome, 10000)
    IN [subtotal |-> all, eligible |-> eligible, total |-> all - Lesser(off, eligible)]

(* split_vat: what each line's share of the total contains. *)
LineVat(lines, i, bill, due, takeaway) ==
    IF bill.subtotal = 0 THEN 0
    ELSE ContainedVat(lines[i].total * due, bill.subtotal, Rate(basket[i].product, takeaway))

(* create_sale, with what checkout.html shows above its button.  The discount must be
   within the cashier's cap, and cash enough. *)
Ring(member, welcome, payment, takeaway, mode, tendered) ==
    /\ sale = NoSale /\ basket # <<>>
    /\ discount <= Cap
    /\ \E lines \in {[i \in Lines |-> ChargedLine(i)]} :
       \E bill \in {Charged(lines, discount, member, welcome)} :
       \E due \in {IF payment = "cash" THEN RoundTotal(bill.total, Step, mode) ELSE bill.total} :
       \E gross \in {ShownGross(ShownSubtotal, ShownEligible, discount + member + welcome)} :
       \E shown \in {ShownPayable(gross, payment)} :
          /\ payment = "cash" => tendered >= shown /\ tendered >= due /\ tendered > 0
          /\ sale' = [state |-> "rung", lines |-> lines, bill |-> bill, due |-> due,
                      change |-> IF payment = "cash" THEN tendered - due ELSE 0,
                      vat |-> [i \in Lines |-> LineVat(lines, i, bill, due, takeaway)],
                      payment |-> payment, mode |-> mode,
                      lanes |-> Cardinality({n \in {1, 2, 3} : <<discount, member, welcome>>[n] > 0}),
                      shown |-> shown,
                      alone |-> member = 0 /\ welcome = 0]
    /\ UNCHANGED <<basket, discount, agreed>>
-----------------------------------------------------------------------------
Edited == agreed' = 0 /\ UNCHANGED <<discount, sale>>

(* addToCart of either page: one more of it on the first line it has, a treat's too. *)
Add(p, known) ==
    /\ sale = NoSale
    /\ LET of == {i \in Lines : basket[i].product = p}
       IN IF of = {}
          THEN Len(basket) < MaxLines /\ basket' = Append(basket, NewLine(p, FALSE, known))
          ELSE /\ basket[Min(of)].qty < MaxQty
               /\ basket' = [basket EXCEPT ![Min(of)].qty = @ + 1]
    /\ Edited

Scan(p) == Add(p, TRUE)
Search(p) == Add(p, FALSE)

(* decreaseQuantity, removeFromCart *)
Decrease(i) ==
    /\ sale = NoSale
    /\ basket' = IF basket[i].qty > 1 THEN [basket EXCEPT ![i].qty = @ - 1] ELSE RemoveAt(basket, i)
    /\ Edited

(* addChangeProduct: a treat, on the house. *)
Treat(p) ==
    /\ sale = NoSale /\ Len(basket) < MaxLines
    /\ basket' = Append(basket, NewLine(p, TRUE, FALSE))
    /\ Edited

(* validateDiscount, applyDiscount *)
Discount(d) ==
    /\ sale = NoSale
    /\ discount' = Lesser(d, Cap) /\ agreed' = 0
    /\ UNCHANGED <<basket, sale>>

(* calculateDiscountFromTarget: the percentage that makes it t, if there is one. *)
Target(t) ==
    /\ sale = NoSale
    /\ \E eligible \in {ShownEligible}, off \in {ShownSubtotal - t} :
          LET needed == HalfUp(10000 * off, eligible)
              possible == off > 0 /\ off <= eligible
          IN /\ discount' = IF ~possible \/ (needed <= Cap /\ needed >= 10000) THEN 0
                            ELSE Lesser(needed, Cap)
             /\ agreed' = IF possible /\ needed <= Cap /\ needed < 10000 THEN t ELSE 0
    /\ UNCHANGED <<basket, sale>>

Next ==
    \/ \E p \in Shelf : Scan(p) \/ Search(p) \/ Treat(p)
    \/ \E i \in Lines : Decrease(i)
    \/ \E d \in Discounts : Discount(d)
    \/ \E t \in Targets : Target(t)
    \/ \E m \in Tiers, w \in Welcomes, y \in {"cash", "card"}, k \in Takeaways, o \in Modes,
          n \in Notes : Ring(m, w, y, k, o, n)

Spec == Init /\ [][Next]_vars
-----------------------------------------------------------------------------
(* The basket is within its bounds, and a sale has a line for each of its lines. *)
TypeOK ==
    /\ Len(basket) <= MaxLines
    /\ \A i \in Lines : basket[i] \in [product : Shelf, qty : 1 .. MaxQty, treat : BOOLEAN, known : BOOLEAN]
    /\ discount \in 0 .. Cap /\ agreed \in {0} \cup Targets
    /\ sale # NoSale => sale.due \in Nat /\ sale.change \in Nat /\ DOMAIN sale.lines = Lines

Apart(m, n) == IF m < n THEN n - m ELSE m - n

(* A sale adds up: lines multiply out and are never dearer than the shelf, those of one
   deal sum up to what the deal costs, no discount touches what may have none, cash is in
   coins, and the lines contain the VAT of what was paid, to half a cent each.
   (line_money, allocate_pool, create_sale, round_total, split_vat.) *)
BillAddsUp == sale # NoSale =>
    LET total(i) == sale.lines[i].total
        restricted == SumOver(total, {i \in Lines : Promo(i)})
        vat == SumOver(LAMBDA i : sale.vat[i], Lines)
    IN /\ \A i \in Lines :
             /\ total(i) = sale.lines[i].unit * basket[i].qty - sale.lines[i].off
             /\ total(i) \in 0 .. basket[i].product.price * basket[i].qty
             /\ Pooled(basket, i) =>
                   SumOver(total, PoolOf(basket, i)) =
                       Packs(basket[i].product.tiers, basket[i].product.price,
                             Pieces(basket, PoolOf(basket, i)))
       /\ sale.bill.total \in restricted .. sale.bill.subtotal
       /\ sale.payment = "card" => sale.due = sale.bill.total
       /\ sale.payment = "cash" =>
             /\ Step > 0 => sale.due % Step = 0
             /\ IF sale.mode = "down" THEN sale.due <= sale.bill.total /\ sale.due + Step > sale.bill.total
                ELSE 2 * Apart(sale.due, sale.bill.total) <= Step
       /\ vat <= sale.due
       /\ (\A i \in Lines : basket[i].product.class # "cafe") =>
             2 * Apart(vat, ContainedVat(sale.due, 1, Standard)) <= Len(basket) + 1

(* The baskets page and server see alike: no tobacco or alcohol from the search page, no
   ladder above the price. *)
Alike == \A i \in Lines :
    /\ Promo(i) => basket[i].known \/ basket[i].treat
    /\ basket[i].product.mode = "per_unit" =>
          \A t \in basket[i].product.tiers : ~Misread(t, basket[i].product.price)

(* For such a basket, rounded to the nearest coin: without a discount the sale charges what
   the page shows, with discounts it is off by a cent per two of them (in cash by a coin);
   and a total agreed on below 100 francs is charged to the cent.
   (create_sale: "the EXACT formula the till displays, so charged == shown".) *)
ChargedAsShown == sale # NoSale /\ Alike /\ sale.mode = "nearest" =>
    /\ sale.lanes = 0 => sale.due = sale.shown
    /\ sale.payment = "card" => 2 * Apart(sale.due, sale.shown) <= sale.lanes + 1
    /\ sale.payment = "cash" => Apart(sale.due, sale.shown) <= Step
    /\ agreed > 0 /\ sale.alone /\ sale.payment = "card" /\ ShownEligible < 10000 =>
          sale.due = agreed /\ sale.shown = agreed
=============================================================================
