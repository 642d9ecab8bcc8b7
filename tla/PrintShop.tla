------------------------------ MODULE PrintShop ------------------------------
(***************************************************************************)
(* Orders, invoices and customer statistics of the print shop              *)
(* (routes/isotto_router.py).                                              *)
(*                                                                         *)
(* One customer.  The net sum and VAT of an invoice are its total.  The    *)
(* totals, deposits and payments are small integers; an amount of 0 stands *)
(* for a payment without an amount, which is treated the same.             *)
(***************************************************************************)
EXTENDS Integers, FiniteSets, FiniteSetsExt, Rows

CONSTANTS Handlers,  \* requests in flight
          Orders,    \* bound: rows of isotto_orders
          Invoices,  \* bound: rows of isotto_invoices
          MaxTotal,  \* bound: prices, totals, deposits and payments
          MaxDone,   \* bound: completions counted for the customer
          MaxPaid    \* bound: what is paid on one invoice

(* What the bounds have to satisfy: Desks assumes it of its instances. *)
PrintShopAssumption == MaxTotal \in Nat \ {0} /\ {MaxDone, MaxPaid} \subseteq Nat /\ Orders # {}

VARIABLES order,    \* isotto_orders
          stats,    \* order_count and total_spend of the customer
          invoice,  \* isotto_invoices
          received, \* history: what customers paid on each invoice
          h         \* the handlers

vars == <<order, stats, invoice, received, h>>

Amounts == 0 .. MaxTotal
Idle == [op |-> "none"]
OrderStatus == {"quoted", "approved", "in_production", "quality_check", "ready", "picked_up",
                "invoiced", "cancelled"}
NoOrder == [status |-> "unused", price |-> 0]
NoInvoice == [status |-> "unused", of |-> CHOOSE o \in Orders : TRUE, total |-> 0,
              deposit |-> 0, due |-> 0]

Init == /\ order = [o \in Orders |-> NoOrder]
        /\ stats = [count |-> 0, spend |-> 0]
        /\ invoice = [i \in Invoices |-> NoInvoice]
        /\ received = [i \in Invoices |-> 0]
        /\ h = [p \in Handlers |-> Idle]

(* A handler reads an order, or an invoice. *)
LoadOrder(p, op, o, statuses) ==
    /\ h[p] = Idle
    /\ order[o].status \in statuses
    /\ h' = [h EXCEPT ![p] = [op |-> op, id |-> o, seen |-> order[o]]]
    /\ UNCHANGED <<order, stats, invoice, received>>

LoadInvoice(p, op, i) ==
    /\ h[p] = Idle
    /\ invoice[i].status # "unused"
    /\ h' = [h EXCEPT ![p] = [op |-> op, id |-> i, seen |-> invoice[i]]]
    /\ UNCHANGED <<order, stats, invoice, received>>

SaveOrder(p, new) == order' = [order EXCEPT ![h[p].id] = Flushed(@, h[p].seen, new)]
SaveInvoice(p, new) == invoice' = [invoice EXCEPT ![h[p].id] = Flushed(@, h[p].seen, new)]
Finish(p, op) == h[p].op = op /\ h' = [h EXCEPT ![p] = Idle]
-----------------------------------------------------------------------------
(* create_order; two that draw the same number conflict, and one rolls back. *)
CreateOrder(p, o, n) ==
    /\ h[p] = Idle
    /\ order[o].status = "unused"
    /\ order' = [order EXCEPT ![o] = [status |-> "quoted", price |-> n]]
    /\ UNCHANGED <<stats, invoice, received, h>>

(* update_order: of the columns here, only the price. *)
UpdateLoad(p, o) == LoadOrder(p, "update", o, OrderStatus)

UpdateCommit(p, n) ==
    /\ Finish(p, "update")
    /\ SaveOrder(p, [h[p].seen EXCEPT !.price = n])
    /\ UNCHANGED <<stats, invoice, received>>

(* update_order_status: from any status to any other. *)
StatusLoad(p, o) == LoadOrder(p, "status", o, OrderStatus)

StatusCommit(p, s) ==
    /\ Finish(p, "status")
    /\ SaveOrder(p, [h[p].seen EXCEPT !.status = s])
    /\ UNCHANGED <<stats, invoice, received>>

ApproveLoad(p, o) == LoadOrder(p, "approve", o, {"quoted"})

ApproveCommit(p) ==
    /\ Finish(p, "approve")
    /\ SaveOrder(p, [h[p].seen EXCEPT !.status = "approved"])
    /\ UNCHANGED <<stats, invoice, received>>

(* complete_order: the order... *)
CompleteLoad(p, o) == LoadOrder(p, "complete", o, {"in_production", "quality_check", "approved"})

(* ...and, a query later, its customer. *)
CustomerLoad(p) ==
    /\ h[p].op = "complete"
    /\ h' = [h EXCEPT ![p] = [op |-> "count", id |-> h[p].id, seen |-> h[p].seen, was |-> stats]]
    /\ UNCHANGED <<order, stats, invoice, received>>

CompleteCommit(p) ==
    /\ Finish(p, "count")
    /\ h[p].was.count < MaxDone
    /\ SaveOrder(p, [h[p].seen EXCEPT !.status = "ready"])
    /\ stats' = Flushed(stats, h[p].was, [count |-> h[p].was.count + 1,
                                          spend |-> h[p].was.spend + h[p].seen.price])
    /\ UNCHANGED <<invoice, received>>
-----------------------------------------------------------------------------
(* create_invoice: as many for an order as are asked for. *)
InvoiceLoad(p, o) == LoadOrder(p, "invoice", o, {"ready", "picked_up", "invoiced"})

InvoiceCommit(p, i, total, deposit) ==
    /\ Finish(p, "invoice")
    /\ invoice[i].status = "unused"
    /\ invoice' = [invoice EXCEPT ![i] = [status |-> "pending", of |-> h[p].id, total |-> total,
                                          deposit |-> deposit, due |-> total - deposit]]
    /\ SaveOrder(p, [h[p].seen EXCEPT !.status = "invoiced"])
    /\ UNCHANGED <<stats, received>>

DepositLoad(p, i) == LoadInvoice(p, "deposit", i)

(* Mutant: another deposit is taken off what is due already. *)
DepositCommitAgain(p, deposit) ==
    /\ Finish(p, "deposit")
    /\ SaveInvoice(p, [h[p].seen EXCEPT !.deposit = deposit, !.due = h[p].seen.due - deposit])
    /\ UNCHANGED <<order, stats, received>>

(* update_invoice: what is due starts again from the total. *)
DepositCommit(p, deposit) ==
    /\ Finish(p, "deposit")
    /\ SaveInvoice(p, [h[p].seen EXCEPT !.deposit = deposit, !.due = h[p].seen.total - deposit])
    /\ UNCHANGED <<order, stats, received>>

(* update_invoice, with a status: set by hand. *)
SetStatus(p, s) ==
    /\ Finish(p, "deposit")
    /\ SaveInvoice(p, [h[p].seen EXCEPT !.status = s])
    /\ UNCHANGED <<order, stats, received>>

PaymentLoad(p, i) == LoadInvoice(p, "payment", i)

(* Money changes hands. *)
Receive(i, n) == /\ received[i] + n <= MaxPaid
                 /\ received' = [received EXCEPT ![i] = @ + n]

(* record_payment: part of what is due... *)
PayPart(p, n) ==
    /\ Finish(p, "payment")
    /\ 0 < n /\ n < h[p].seen.due
    /\ SaveInvoice(p, [h[p].seen EXCEPT !.status = "partial", !.due = @ - n])
    /\ Receive(h[p].id, n)
    /\ UNCHANGED <<order, stats>>

(* ...or all of it. *)
PayAll(p, n) ==
    /\ Finish(p, "payment")
    /\ n = 0 \/ n >= h[p].seen.due
    /\ SaveInvoice(p, [h[p].seen EXCEPT !.status = "paid", !.due = 0])
    /\ Receive(h[p].id, IF n = 0 THEN Max({0, h[p].seen.due}) ELSE n)
    /\ UNCHANGED <<order, stats>>

(* An error, a conflict or a crash. *)
Abort(p) ==
    /\ h[p] # Idle
    /\ h' = [h EXCEPT ![p] = Idle]
    /\ UNCHANGED <<order, stats, invoice, received>>

Next ==
    \E p \in Handlers :
        \/ \E o \in Orders :
              \/ UpdateLoad(p, o) \/ StatusLoad(p, o) \/ ApproveLoad(p, o) \/ CompleteLoad(p, o)
              \/ InvoiceLoad(p, o)
              \/ \E n \in Amounts : CreateOrder(p, o, n)
        \/ \E n \in Amounts : \/ UpdateCommit(p, n) \/ DepositCommit(p, n)
                              \/ PayPart(p, n) \/ PayAll(p, n)
        \/ \E s \in OrderStatus : StatusCommit(p, s)
        \/ \E s \in {"pending", "deposit_paid", "partial", "paid", "overdue"} : SetStatus(p, s)
        \/ ApproveCommit(p) \/ CustomerLoad(p) \/ CompleteCommit(p)
        \/ \E i \in Invoices : \/ DepositLoad(p, i) \/ PaymentLoad(p, i)
                               \/ \E n, d \in Amounts : InvoiceCommit(p, i, n, d)
        \/ Abort(p)

Spec == Init /\ [][Next]_vars
-----------------------------------------------------------------------------
OrderRows == [status : OrderStatus \cup {"unused"}, price : Amounts]
InvoiceRows == [status : {"unused", "pending", "deposit_paid", "partial", "paid", "overdue"},
                of : Orders, total : Amounts, deposit : Amounts, due : -MaxTotal .. MaxTotal]
Sums == [count : Nat, spend : Nat]
HandlerStates ==
    {Idle}
    \cup [op : {"update", "status", "approve", "complete", "invoice"}, id : Orders, seen : OrderRows]
    \cup [op : {"count"}, id : Orders, seen : OrderRows, was : Sums]
    \cup [op : {"deposit", "payment"}, id : Invoices, seen : InvoiceRows]

(* Every column and handler holds what it may hold. *)
TypeOK ==
    /\ order \in [Orders -> OrderRows]
    /\ stats \in Sums
    /\ invoice \in [Invoices -> InvoiceRows]
    /\ received \in [Invoices -> Nat]
    /\ h \in [Handlers -> HandlerStates]

(* One handler: no sequence of partial and full payments and changed deposits lets
   an invoice ask for less than what is still missing.  It may ask for more: a
   changed deposit forgets the payments.  (record_payment, update_invoice.) *)
DueCoversRest ==
    \A i \in Invoices : invoice[i].due >= invoice[i].total - invoice[i].deposit - received[i]
=============================================================================
