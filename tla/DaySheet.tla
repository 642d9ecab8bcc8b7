------------------------------ MODULE DaySheet ------------------------------
(***************************************************************************)
(* What the reports say of the sales of a day: the day sheet, its file for *)
(* the accounting, and what was sold (get_daily_summary,                   *)
(* get_daily_summary_csv, get_product_sales and its two drill-downs in     *)
(* routes/pos_router.py), over sales that are rung and refunded.           *)
(*                                                                         *)
(* The reports only read: they are operators on the sales.  A tick of the  *)
(* clock is a part of a day, which begins Ahead ticks earlier in the shop  *)
(* than by the clock of the server.  Money is whole cents.                 *)
(***************************************************************************)
EXTENDS Pricing

CONSTANTS Sales,       \* bound: what is rung
          Baskets,     \* bound: what is in a sale, tuples of lines
          Discounts,   \* bound: hundredths of a percent off a basket
          Refunds,     \* bound: what is given back
          Methods,     \* PaymentMethod
          Buttons,     \* the departments of today's configuration
          Category,    \* of each product, NoCategory for none
          LastTick,    \* bound: the last tick of the clock
          TicksPerDay, Ahead,
          Step,        \* the smallest coin
          Standard, Reduced, \* the table of rates of VAT, today
          NoProduct, NoCode, NoCategory

(* A line of a sale; a treat costs nothing. *)
WellLine(l) ==
    /\ {l.total, l.rate, l.cost, l.qty} \subseteq Nat /\ l.treat \in BOOLEAN
    /\ l.treat => l.total = 0
    /\ l.product \in DOMAIN Category \cup {NoProduct}

WellBasket(lines) == IsFiniteSet(DOMAIN lines) /\ \A i \in DOMAIN lines : WellLine(lines[i])

(* What the bounds have to satisfy: Desks assumes it of its instances. *)
DaySheetAssumption ==
    /\ IsFiniteSet(Sales) /\ IsFiniteSet(Methods) /\ IsFiniteSet(Buttons) /\ IsFiniteSet(DOMAIN Category)
    /\ LastTick \in Nat /\ TicksPerDay \in Nat \ {0} /\ Ahead \in 0 .. TicksPerDay
    /\ "cash" \in Methods /\ Discounts \subseteq 0 .. 10000 /\ Step \in Nat /\ Refunds \subseteq Nat
    /\ {Standard, Reduced} \subseteq Nat /\ Standard # Reduced
    /\ NoProduct \notin DOMAIN Category /\ NoCode \notin Buttons
    /\ \A lines \in Baskets : WellBasket(lines)

VARIABLES now,  \* the clock of the server
          rung, \* the sales: TransactionModel with its lines
          kept  \* history: what the shop kept of each

vars == <<now, rung, kept>>

NoSale == [status |-> "none"]

Init == now = 0 /\ rung = [s \in Sales |-> NoSale] /\ kept = [s \in Sales |-> 0]

(* split_vat: what line i is of the total, times the subtotal, and the VAT in it. *)
VatIn(lines, i, total, subtotal) ==
    IF subtotal > 0 THEN ContainedVat(lines[i].total * total, subtotal, lines[i].rate)
    ELSE ContainedVat(lines[i].total, 1, lines[i].rate)
-----------------------------------------------------------------------------
(* create_sale, from the lines on: the lines get the VAT of what was paid. *)
Ring(s, lines, off, method) ==
    LET subtotal == SumFunction([i \in DOMAIN lines |-> lines[i].total])
        bill == subtotal - HalfUp(subtotal * off, 10000)
        total == IF method = "cash" THEN RoundTotal(bill, Step, "nearest") ELSE bill
        vats == [i \in DOMAIN lines |-> VatIn(lines, i, total, subtotal)]
    IN /\ rung[s] = NoSale
       /\ rung' = [rung EXCEPT ![s] =
              [status |-> "completed", at |-> now, method |-> method, lines |-> lines, vats |-> vats,
               subtotal |-> subtotal, total |-> total, adj |-> total - bill,
               tax |-> SumFunction(vats), whole |-> TRUE]]
       /\ kept' = [kept EXCEPT ![s] = total]
       /\ UNCHANGED now

(* Mutant: the whole sale is reversed, whatever was given back. *)
ReversedWhole(s, amount) == [rung[s] EXCEPT !.status = "refunded"]

(* A sale of which a part was given back stays, at what was kept; the lines stay as they
   were.  Nothing given back, or all of it, reverses the sale. *)
Reversed(s, amount) ==
    LET net == rung[s].total - amount
        tax == ContainedVat(net, 1, Standard)
    IN IF amount \in 1 .. rung[s].total - 1
       THEN [rung[s] EXCEPT !.total = net, !.tax = tax, !.subtotal = net - tax, !.whole = FALSE]
       ELSE [rung[s] EXCEPT !.status = "refunded"]

(* refund_transaction: without an amount, or with 0, everything is given back. *)
Refund(s, asked) ==
    /\ rung[s].status = "completed"
    /\ asked <= rung[s].total
    /\ LET amount == IF asked = 0 THEN rung[s].total ELSE asked
       IN /\ rung' = [rung EXCEPT ![s] = Reversed(s, amount)]
          /\ kept' = [kept EXCEPT ![s] = @ - amount]
    /\ UNCHANGED now

Tick == now < LastTick /\ now' = now + 1 /\ UNCHANGED <<rung, kept>>

Next ==
    \/ Tick
    \/ \E s \in Sales : \/ \E l \in Baskets, d \in Discounts, m \in Methods : Ring(s, l, d, m)
                        \/ \E r \in Refunds : Refund(s, r)

Spec == Init /\ [][Next]_vars
-----------------------------------------------------------------------------
(* The days of the shop, and the ticks from the start of one to the end of another. *)
ShopDay(t) == (t + Ahead) \div TicksPerDay
Days == ShopDay(0) .. ShopDay(LastTick)
Window(from, to) == from * TicksPerDay - Ahead .. (to + 1) * TicksPerDay - Ahead - 1

(* The sales a report is about, and what they add up to. *)
Reported(from, to) == {s \in Sales : rung[s].status = "completed" /\ rung[s].at \in Window(from, to)}
Sheet(d) == Reported(d, d)

TotalSales(d) == SumFunction([s \in Sheet(d) |-> rung[s].total])
MethodTotal(d, m) == SumFunction([s \in {t \in Sheet(d) : rung[t].method = m} |-> rung[s].total])
VatTotal(d) == SumFunction([s \in Sheet(d) |-> rung[s].tax])
RoundingTotal(d) == SumFunction([s \in Sheet(d) |-> rung[s].adj])

(* The lines of the sales in S, and those of them that are sold, or given away. *)
LinesOf(S) == UNION {{s} \X DOMAIN rung[s].lines : s \in S}
Line(x) == rung[x[1]].lines[x[2]]
SoldOf(S) == {x \in LinesOf(S) : ~Line(x).treat}

(* What the lines in X cost the customer, and what treats cost the shop. *)
Revenue(X) == SumFunction([x \in X |-> Line(x).total])
GiveawayCost(d) ==
    SumFunction([x \in {y \in LinesOf(Sheet(d)) : Line(y).treat} |-> Line(x).cost * Line(x).qty])

(* The streams of turnover: a line of a rate the table does not have is in the first. *)
InStream(s, r) ==
    LET lines == rung[s].lines
    IN {i \in DOMAIN lines : r = IF lines[i].rate = Reduced THEN Reduced ELSE Standard}
StreamTurnover(s, r) ==
    LET gross == SumFunction([i \in InStream(s, r) |-> rung[s].lines[i].total])
    IN IF rung[s].subtotal > 0 THEN HalfUp(gross * rung[s].total, rung[s].subtotal) ELSE gross
StreamVat(s, r) ==
    SumFunction([i \in InStream(s, r) |-> VatIn(rung[s].lines, i, rung[s].total, rung[s].subtotal)])
Turnover(d, r) == SumFunction([s \in Sheet(d) |-> StreamTurnover(s, r)])
VatOf(d, r) == SumFunction([s \in Sheet(d) |-> StreamVat(s, r)])

(* Every button has its row, and so has every code that took money. *)
WithCode(d, c) == {x \in SoldOf(Sheet(d)) : Line(x).code = c}
DepartmentRows(d) == Buttons \cup ({Line(x).code : x \in SoldOf(Sheet(d))} \ {NoCode})
DepartmentRevenue(d) == SumFunction([c \in DepartmentRows(d) |-> Revenue(WithCode(d, c))])
-----------------------------------------------------------------------------
AtLeast0(n) == Max({n, 0})

(* get_daily_summary_csv: a line per method that took money, cash without its rounding,
   which has a line of its own, as have the treats. *)
CsvLine(d, m) == MethodTotal(d, m) - (IF m = "cash" THEN RoundingTotal(d) ELSE 0)
CsvIncome(d) == SumFunction([m \in Methods |-> AtLeast0(CsvLine(d, m))]) + AtLeast0(RoundingTotal(d))
CsvExpenses(d) == AtLeast0(-RoundingTotal(d)) + GiveawayCost(d)

(* get_product_sales: rows by product, or what stands for one, and its category. *)
ItemsSold(from, to) == SoldOf(Reported(from, to))
CategoryOf(l) == IF l.product = NoProduct THEN NoCategory ELSE Category[l.product]
CategoryRevenue(from, to, c) == Revenue({x \in ItemsSold(from, to) : CategoryOf(Line(x)) = c})
ItemsVat(from, to) == SumFunction([x \in ItemsSold(from, to) |-> rung[x[1]].vats[x[2]]])

(* get_category_sales_detail, get_product_sales_detail: only of what has a product. *)
CategoryDrill(from, to, c) ==
    Revenue({x \in ItemsSold(from, to) : /\ Line(x).product # NoProduct
                                         /\ Category[Line(x).product] = c /\ c # NoCategory})
ProductDrill(from, to, p) == Revenue({x \in ItemsSold(from, to) : Line(x).product = p})
-----------------------------------------------------------------------------
(* The columns of a sale hold what they may hold. *)
TypeOK ==
    /\ now \in 0 .. LastTick /\ kept \in [Sales -> Nat]
    /\ \A s \in Sales : rung[s] # NoSale =>
          /\ rung[s].status \in {"completed", "refunded"} /\ rung[s].at \in 0 .. now
          /\ {rung[s].total, rung[s].tax, rung[s].subtotal} \subseteq Nat

Apart(m, n) == Max({m - n, n - m})

(* The parts of what a sheet promises: what was kept of what was rung on the day, by method in the file; the
   streams; the lines that were sold; and a period that starts on the day. *)
FileAddsUp(d) ==
    /\ TotalSales(d) =
          SumFunctionOnSet(kept, {s \in Sales : rung[s] # NoSale /\ ShopDay(rung[s].at) = d})
    /\ MethodTotal(d, "cash") >= RoundingTotal(d) =>
          CsvIncome(d) - CsvExpenses(d) = TotalSales(d) - GiveawayCost(d)

StreamsAddUp(d) ==
    /\ VatOf(d, Standard) + VatOf(d, Reduced) = VatTotal(d)
    /\ ItemsVat(d, d) = VatTotal(d)
    /\ Apart(Turnover(d, Standard) + Turnover(d, Reduced), TotalSales(d)) <= Cardinality(Sheet(d))

DepartmentsAddUp(d) ==
    DepartmentRevenue(d) + Revenue(WithCode(d, NoCode)) = Revenue(ItemsSold(d, d))

PeriodAddsUp(d, e) ==
    /\ \A c \in {Category[p] : p \in DOMAIN Category} \ {NoCategory} :
          /\ CategoryDrill(d, e, c) = CategoryRevenue(d, e, c)
          /\ CategoryDrill(d, e, c) =
                SumFunction([p \in {q \in DOMAIN Category : Category[q] = c} |-> ProductDrill(d, e, p)])
    /\ Revenue(ItemsSold(d, e)) = SumFunction([f \in d .. e |-> Revenue(ItemsSold(f, f))])

(* Whatever was given back, and when: the sheet of a shop's day states what was kept of
   what was rung on it, by method and in the file, where the rounding of cash is named once
   ("the two still sum to the drawer"); as long as nothing was given back in part, the
   streams, the lines and the receipts of a day contain one and the same VAT, and the
   streams are the takings, to a cent a sale; buttons and catalog have every line that was
   sold, those of a retired button too; and a drill-down shows what it was opened from.
   (create_sale, refund_transaction, get_daily_summary, get_daily_summary_csv, split_vat,
   get_product_sales.) *)
SheetAddsUp == \A d \in Days :
    /\ FileAddsUp(d)
    /\ (\A s \in Sheet(d) : rung[s].whole) => StreamsAddUp(d)
    /\ DepartmentsAddUp(d)
    /\ \A e \in d .. ShopDay(LastTick) : PeriodAddsUp(d, e)
=============================================================================
