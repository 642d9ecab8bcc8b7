------------------------------- MODULE CashBox -------------------------------
(***************************************************************************)
(* The shop's one cash box: counting it open, paid-in and paid-out,        *)
(* reconciling or force-closing it, and the cash sales and refunds that    *)
(* move the money in between.                                              *)
(*                                                                         *)
(* Handlers interleave at their awaits.  An UPDATE writes only the columns *)
(* the handler changed against what it had loaded, with values computed    *)
(* from what it had loaded; no row is locked.                              *)
(***************************************************************************)
EXTENDS Integers, FiniteSets, Sequences, FiniteSetsExt

CONSTANTS Reqs,       \* slots for handlers in flight
          Openers,    \* the slots in which POST /shift/open may run
          Methods,    \* payment methods of sales, among "cash" and "card"
          Baseline,   \* what is in the box at first = store_settings.cash_box_float
          SaleTotal,  \* what a sale costs
          MaxShifts, MaxSales, MaxMoves, MaxRefunds, MaxClock  \* bounds

ASSUME CashAssumption == /\ IsFiniteSet(Reqs) /\ Openers \subseteq Reqs
                         /\ Methods \subseteq {"cash", "card"}
                         /\ Baseline \in Nat /\ SaleTotal \in Nat \ {0}
                         /\ {MaxShifts, MaxSales, MaxMoves, MaxRefunds, MaxClock} \subseteq Nat

VARIABLES shifts,  \* rows of cash_shifts, in the order of their insert
          sales,   \* transactions: a function from 1 .. n to rows
          moves,   \* rows of cash_movements
          drawer,  \* the notes and coins in the box
          req,     \* handlers in flight
          counts,  \* history: <<shift, figure>> somebody reconciled at
          given    \* history: cash handed back per sale

rows == <<shifts, sales, moves>>
vars == <<rows, drawer, req, counts, given>>

Opened(n, e, p, at) ==
    [status |-> "open", opened |-> at, closed |-> 0, float |-> n, before |-> e,
     prev |-> p, paidIn |-> 0, paidOut |-> 0, cash |-> 0, refunds |-> 0,
     expected |-> 0, counted |-> 0, variance |-> 0, verified |-> TRUE, forced |-> FALSE]

Idle == [pc |-> "idle", shift |-> 0, row |-> Opened(0, 0, 0, 0), sale |-> 0, amount |-> 0,
         kind |-> "none", counted |-> 0, at |-> 0, cash |-> 0, refunds |-> 0]

Init == /\ shifts = <<>>
        /\ sales = <<>>
        /\ moves = {}
        /\ drawer = Baseline
        /\ req = [r \in Reqs |-> Idle]
        /\ counts = {}
        /\ given = <<>>

(* The server's clock, to the order of the timestamps still around. *)
Stamps == {0} \cup {shifts[i].opened : i \in DOMAIN shifts}
              \cup {shifts[i].closed : i \in DOMAIN shifts}
              \cup {sales[i].completed : i \in DOMAIN sales}
              \cup {sales[i].updated : i \in DOMAIN sales}
              \cup {req[r].at : r \in Reqs}
Now == Max(Stamps) + 1

WithStatus(st) == {i \in DOMAIN shifts : shifts[i].status = st}

(* Mutant: the status is not asked for. *)
LatestTill == Len(shifts)

(* _open_till: the open box, the oldest if there should be several; 0 = none. *)
OpenTill ==
    IF WithStatus("open") = {} THEN 0
    ELSE CHOOSE i \in WithStatus("open") :
            \A j \in WithStatus("open") : shifts[i].opened <= shifts[j].opened

(* _last_reconciled_till: the box closed last; 0 = none. *)
LastReconciled ==
    IF WithStatus("closed") = {} THEN 0
    ELSE CHOOSE i \in WithStatus("closed") :
            \A j \in WithStatus("closed") : shifts[i].closed >= shifts[j].closed
-----------------------------------------------------------------------------
(* POST /shift/open.  The count is taken blind and sent with the request; the
   expected figure is last night's count, or the baseline on day one. *)
OpenCheck(r) ==
    /\ r \in Openers
    /\ req[r].pc = "idle"
    /\ OpenTill = 0
    /\ Len(shifts) < MaxShifts
    /\ req' = [req EXCEPT ![r] = [Idle EXCEPT !.pc = "open.expect", !.counted = drawer]]
    /\ UNCHANGED <<rows, drawer, counts, given>>

(* Mutant: tomorrow expects what today expected, not what was counted. *)
OpenExpectsExpected(r) ==
    /\ req[r].pc = "open.expect"
    /\ req' = [req EXCEPT ![r] = [req[r] EXCEPT
          !.pc = "open.commit",
          !.shift = LastReconciled,
          !.amount = IF LastReconciled = 0 THEN Baseline ELSE shifts[LastReconciled].expected]]
    /\ UNCHANGED <<rows, drawer, counts, given>>

OpenExpect(r) ==
    /\ req[r].pc = "open.expect"
    /\ req' = [req EXCEPT ![r] = [req[r] EXCEPT
          !.pc = "open.commit",
          !.shift = LastReconciled,
          !.amount = IF LastReconciled = 0 THEN Baseline ELSE shifts[LastReconciled].counted]]
    /\ UNCHANGED <<rows, drawer, counts, given>>

OpenCommit(r) ==
    /\ req[r].pc = "open.commit"
    /\ Now <= MaxClock
    /\ shifts' = Append(shifts, Opened(req[r].counted, req[r].amount, req[r].shift, Now))
    /\ req' = [req EXCEPT ![r] = Idle]
    /\ UNCHANGED <<sales, moves, drawer, counts, given>>
-----------------------------------------------------------------------------
(* POST /shift/paid: one movement of one unit, and the total on the shift's
   row, computed from the row as loaded. *)
PaidRead(r, k) ==
    /\ req[r].pc = "idle"
    /\ OpenTill # 0
    /\ Cardinality(moves) < MaxMoves
    /\ req' = [req EXCEPT ![r] = [Idle EXCEPT
          !.pc = "paid.commit", !.shift = OpenTill, !.row = shifts[OpenTill], !.kind = k]]
    /\ UNCHANGED <<rows, drawer, counts, given>>

(* Mutants: the whole loaded row is written; every movement is a paid-in. *)
CreditedWhole(row, loaded, k) ==
    IF k = "in" THEN [loaded EXCEPT !.paidIn = @ + 1] ELSE [loaded EXCEPT !.paidOut = @ + 1]
CreditedIn(row, loaded, k) == [row EXCEPT !.paidIn = loaded.paidIn + 1]

Credited(row, loaded, k) == IF k = "in" THEN [row EXCEPT !.paidIn = loaded.paidIn + 1]
                            ELSE [row EXCEPT !.paidOut = loaded.paidOut + 1]

PaidCommit(r) ==
    LET i == req[r].shift
        k == req[r].kind
    IN /\ req[r].pc = "paid.commit"
       /\ moves' = moves \cup {[id |-> Cardinality(moves) + 1, shift |-> i, kind |-> k]}
       /\ shifts' = [shifts EXCEPT ![i] = Credited(shifts[i], req[r].row, k)]
       /\ drawer' = IF k = "in" THEN drawer + 1 ELSE drawer - 1
       /\ req' = [req EXCEPT ![r] = Idle]
       /\ UNCHANGED <<sales, counts, given>>
-----------------------------------------------------------------------------
(* POST /shift/close and /shift/force-close: load the row, take the time, sum
   everybody's takings since the box was opened, write the closing columns. *)
CloseRead(r, k) ==
    /\ req[r].pc = "idle"
    /\ OpenTill # 0
    /\ Now <= MaxClock
    /\ req' = [req EXCEPT ![r] = [Idle EXCEPT
          !.pc = "close.sum", !.shift = OpenTill, !.row = shifts[OpenTill], !.kind = k,
          !.counted = drawer, !.at = Now]]
    /\ UNCHANGED <<rows, drawer, counts, given>>

Window(from, to) == {i \in DOMAIN sales : from <= sales[i].completed /\ sales[i].completed <= to}
TotalOf(S) == SumFunctionOnSet([i \in S |-> sales[i].total], S)
CashWith(st, S) == {i \in S : sales[i].status = st /\ sales[i].method = "cash"}

CloseSum(r) ==
    LET w == Window(req[r].row.opened, req[r].at) IN
    /\ req[r].pc = "close.sum"
    /\ req' = [req EXCEPT ![r] = [req[r] EXCEPT
          !.pc = "close.commit",
          !.cash = TotalOf(CashWith("completed", w)),
          !.refunds = TotalOf(CashWith("refunded", w))]]
    /\ UNCHANGED <<rows, drawer, counts, given>>

(* Mutant: what was paid out is still expected. *)
ExpectedPaidOut(row, cash, refunds) == row.float + cash + row.paidIn + row.paidOut - refunds

(* expected_cash: what should physically be in the drawer. *)
ExpectedCash(row, cash, refunds) == row.float + cash + row.paidIn - row.paidOut - refunds

(* close_result: over is positive, short is negative. *)
Variance(counted, expected) == counted - expected

(* Mutant: a forced close does not say that nobody counted. *)
VerifiedAnyway(row, kind) == row.verified

(* counted_verified is TRUE by default: the close that sets it TRUE changes
   nothing against what it loaded, and so writes nothing there. *)
Verified(row, kind) == IF kind = "count" THEN row.verified ELSE FALSE

ClosingRow(row, h) ==
    LET e == ExpectedCash(h.row, h.cash, h.refunds)
        n == IF h.kind = "count" THEN h.counted ELSE e
    IN [row EXCEPT !.status = "closed", !.closed = h.at, !.cash = h.cash,
                   !.refunds = h.refunds, !.expected = e, !.counted = n,
                   !.variance = Variance(n, e), !.verified = Verified(row, h.kind),
                   !.forced = IF h.kind = "count" THEN @ ELSE TRUE]

CloseCommit(r) ==
    LET h == req[r]
    IN /\ h.pc = "close.commit"
       /\ shifts' = [shifts EXCEPT ![h.shift] = ClosingRow(shifts[h.shift], h)]
       /\ counts' = IF h.kind = "count" THEN counts \cup {<<h.shift, h.counted>>}
                    ELSE counts
       /\ req' = [req EXCEPT ![r] = Idle]
       /\ UNCHANGED <<sales, moves, drawer, given>>
-----------------------------------------------------------------------------
(* create_sale and checkout: a cash sale needs an open box at its gate, is
   stamped, and is there for others at its commit. *)
SaleGate(r, m) ==
    /\ req[r].pc = "idle"
    /\ m = "cash" => OpenTill # 0
    /\ Len(sales) < MaxSales
    /\ req' = [req EXCEPT ![r] = [Idle EXCEPT !.pc = "sale.stamp", !.kind = m]]
    /\ UNCHANGED <<rows, drawer, counts, given>>

SaleStamp(r) ==
    /\ req[r].pc = "sale.stamp"
    /\ Now <= MaxClock
    /\ req' = [req EXCEPT ![r] = [req[r] EXCEPT !.pc = "sale.commit", !.at = Now]]
    /\ UNCHANGED <<rows, drawer, counts, given>>

SaleCommit(r) ==
    /\ req[r].pc = "sale.commit"
    /\ sales' = Append(sales, [method |-> req[r].kind, status |-> "completed",
                               total |-> SaleTotal, completed |-> req[r].at, updated |-> 0])
    /\ given' = Append(given, 0)
    /\ drawer' = IF req[r].kind = "cash" THEN drawer + SaleTotal ELSE drawer
    /\ req' = [req EXCEPT ![r] = Idle]
    /\ UNCHANGED <<shifts, moves, counts>>

(* Mutant: nobody compares the amount with the total. *)
RefundAny(r, i, n) ==
    /\ req[r].pc = "idle"
    /\ sales[i].status = "completed"
    /\ Cardinality({j \in DOMAIN sales : sales[j].updated # 0}) < MaxRefunds
    /\ Now <= MaxClock
    /\ req' = [req EXCEPT ![r] = [Idle EXCEPT
          !.pc = "refund.commit", !.sale = i, !.amount = n, !.counted = sales[i].total,
          !.at = Now]]
    /\ UNCHANGED <<rows, drawer, counts, given>>

(* refund_transaction: cash back, whatever the sale was paid with.  A part
   leaves the sale COMPLETED at its net value, the whole makes it REFUNDED. *)
RefundRead(r, i, n) ==
    /\ req[r].pc = "idle"
    /\ sales[i].status = "completed"
    /\ n <= sales[i].total
    /\ Cardinality({j \in DOMAIN sales : sales[j].updated # 0}) < MaxRefunds
    /\ Now <= MaxClock
    /\ req' = [req EXCEPT ![r] = [Idle EXCEPT
          !.pc = "refund.commit", !.sale = i, !.amount = n, !.counted = sales[i].total,
          !.at = Now]]
    /\ UNCHANGED <<rows, drawer, counts, given>>

(* Mutant: what is refunded in full stays a completed sale of nothing. *)
RefundedToZero(sale, net, at) == IF net >= 0 THEN [sale EXCEPT !.total = net, !.updated = at]
                                 ELSE [sale EXCEPT !.status = "refunded", !.updated = at]

Refunded(sale, net, at) == IF net > 0 THEN [sale EXCEPT !.total = net, !.updated = at]
                           ELSE [sale EXCEPT !.status = "refunded", !.updated = at]

RefundCommit(r) ==
    LET h == req[r]
    IN /\ h.pc = "refund.commit"
       /\ sales' = [sales EXCEPT ![h.sale] =
             Refunded(sales[h.sale], h.counted - h.amount, h.at)]
       /\ given' = [given EXCEPT ![h.sale] = @ + h.amount]
       /\ drawer' = drawer - h.amount
       /\ req' = [req EXCEPT ![r] = Idle]
       /\ UNCHANGED <<shifts, moves, counts>>
-----------------------------------------------------------------------------
(* A 4xx (no note, count not confirmed, tender too small), a lost connection
   or a restart: the handler ends and nothing was written. *)
Refuse(r) ==
    /\ req[r].pc # "idle"
    /\ req' = [req EXCEPT ![r] = Idle]
    /\ UNCHANGED <<rows, drawer, counts, given>>

Next == \E r \in Reqs :
    \/ OpenCheck(r) \/ OpenExpect(r) \/ OpenCommit(r)
    \/ (\E k \in {"in", "out"} : PaidRead(r, k)) \/ PaidCommit(r)
    \/ (\E k \in {"count", "force"} : CloseRead(r, k)) \/ CloseSum(r) \/ CloseCommit(r)
    \/ (\E m \in Methods : SaleGate(r, m)) \/ SaleStamp(r) \/ SaleCommit(r)
    \/ (\E i \in DOMAIN sales, n \in 1 .. SaleTotal : RefundRead(r, i, n)) \/ RefundCommit(r)
    \/ Refuse(r)

Spec == Init /\ [][Next]_vars
-----------------------------------------------------------------------------
Shift == [status : {"open", "closed"}, opened : Nat, closed : Nat, float : Int, before : Int,
          prev : Nat, paidIn : Nat, paidOut : Nat, cash : Nat, refunds : Nat,
          expected : Int, counted : Int, variance : Int, verified : BOOLEAN, forced : BOOLEAN]

TypeOK ==
    /\ shifts \in Seq(Shift)
    /\ sales \in Seq([method : Methods, status : {"completed", "refunded"},
                      total : 1 .. SaleTotal, completed : Nat, updated : Nat])
    /\ moves \subseteq [id : Nat, shift : DOMAIN shifts, kind : {"in", "out"}]
    /\ drawer \in Int
    /\ DOMAIN req = Reqs
    /\ \A r \in Reqs : req[r].shift \in 0 .. Len(shifts) /\ req[r].row \in Shift
    /\ counts \subseteq (DOMAIN shifts) \X Int
    /\ given \in Seq(Nat) /\ Len(given) = Len(sales)

Closed(i) == shifts[i].status = "closed"

(* A closed box is closed for good, although a paid-in that loaded it open may
   still write to its row, and two people may close it at once.
   (shift_paid_in_out, close_cash_shift, force_close_cash_box.) *)
ClosedForGood ==
    [][\A i \in DOMAIN shifts : Closed(i) => Closed(i)' /\ shifts'[i].float = shifts[i].float]_vars

(* The closing figures of a row are those of one closer, never a mixture, and
   counted_verified says that somebody counted exactly this figure in this box:
   also when a count and a forced close of the same box cross. *)
CloseIsWhole ==
    \A i \in DOMAIN shifts : Closed(i) =>
        /\ shifts[i].variance = shifts[i].counted - shifts[i].expected
        /\ shifts[i].verified => <<i, shifts[i].counted>> \in counts /\ ~shifts[i].forced

Moved(i, k) == Cardinality({v \in moves : v.shift = i /\ v.kind = k})

(* Paid totals may lose a movement to a race, but never invent one. *)
PaidWithinMovements ==
    \A i \in DOMAIN shifts : /\ shifts[i].paidIn <= Moved(i, "in")
                             /\ shifts[i].paidOut <= Moved(i, "out")

-----------------------------------------------------------------------------
(* What the sources promise.  With one handler at a time it holds. *)

InWindow(at, i) == shifts[i].opened <= at /\ (Closed(i) => at <= shifts[i].closed)

(* A cash sale "MUST belong to an OPEN cash shift". *)
CashSaleAssigned ==
    \A s \in DOMAIN sales : sales[s].method = "cash"
        => \E i \in DOMAIN shifts : InWindow(sales[s].completed, i)

(* The figures add up: expected_cash is "float + cash_sales + paid_in - paid_out -
   cash_refunds", paid_in_total the "Sum of non-sale cash brought in", paid_out_total
   the sum taken out, and a refund "cannot exceed transaction total". *)
FiguresAddUp ==
    /\ \A i \in DOMAIN shifts :
          /\ Closed(i) => shifts[i].expected = ExpectedCash(shifts[i], shifts[i].cash, shifts[i].refunds)
          /\ shifts[i].paidIn = Moved(i, "in") /\ shifts[i].paidOut = Moved(i, "out")
    /\ \A i \in DOMAIN given : given[i] <= SaleTotal

(* The boxes are in line: "THE open cash box for this shop - there is at most one",
   and previous_shift_id is "the shift whose counted_cash became this one's expected -
   the slope, walkable". *)
BoxesInLine ==
    /\ Cardinality(WithStatus("open")) <= 1
    /\ \A i \in DOMAIN shifts : shifts[i].prev # 0
          => /\ Closed(shifts[i].prev)
             /\ shifts[shifts[i].prev].counted = shifts[i].before

(* A refund the drawer arithmetic can follow: part of a cash sale, given back
   while the box it went into was open. *)
Traceable(s) ==
    \/ sales[s].updated = 0
    \/ /\ sales[s].method = "cash" /\ sales[s].status = "completed"
       /\ \E i \in DOMAIN shifts : InWindow(sales[s].completed, i) /\ InWindow(sales[s].updated, i)

(* A box somebody counted shows no variance: what the code expects is what is
   physically there, as long as every refund is one it can trace. *)
CountMatchesExpected ==
    (\A s \in DOMAIN sales : Traceable(s))
    => \A i \in DOMAIN shifts : Closed(i) => shifts[i].variance = 0

(* expected_cash is "what should physically be in the drawer at close". *)
ExpectedIsDrawer == \A i \in DOMAIN shifts : Closed(i) => shifts[i].variance = 0
=============================================================================
