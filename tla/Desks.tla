-------------------------------- MODULE Desks --------------------------------
(***************************************************************************)
(* Small instances of the modules of the shop's desks, checked together.   *)
(* The desks share no row: a behaviour is one of one instance, which       *)
(* `desk` names; the variables of the others are Off.  An instance has one *)
(* handler in flight (h0), for what a desk promises then, or two (h1, h2), *)
(* for what is left of it when they interleave.  An empty set of rows or a *)
(* bound of zero leaves a part of a desk out.                              *)
(*                                                                         *)
(* What Desks_proofs proves for any rows and bounds has them as constants  *)
(* of this module; the cfg gives them small ones.                          *)
(***************************************************************************)
EXTENDS Integers, FiniteSets, TLC

CONSTANTS h0, h1, h2, \* requests in flight
          r1, r2, r3, \* rows, of whichever table
          Coin, MaxPrice, MaxLines,                   \* Till
          MaxTicket, MaxInputs, Limit,                \* Board
          Products, Codes, Minted, NoCode, NoProduct, \* Labels
          Ops, Quotes, POs, MaxDeposit, MaxHours,     \* Parts
          Bookings, Appointments, LastDay,            \* Resources and Calendar
          People, Sessions, Nobody,                   \* Register
          Names, Subs, SeedRow, SeedName, SeedSub, Fresh, Emps, Sales, None, \* Staff
          Baskets, Gifts, MaxCut                      \* Cards

VARIABLES desk,
          entry, run, payslips, signed,           \* Payroll
          order, stats, invoice, received,        \* PrintShop, and Workshop's received
          job, quote, po, logged, byHand,         \* Workshop
          booking, appt, moved,                   \* Bookings
          member, ledger,                         \* Members, and Cart's member
          txn, lines, evidence,                   \* Cart
          ticket, closing, batch,                 \* Tickets
          basket, discount, agreed, sale,         \* Counter
          product, alias,                         \* Barcodes
          stock, moves,                           \* Receiving, and Supply's stock
          item, supply, booked, most, loose,      \* Supply
          session,                                \* Shifts
          account, issued, user, emp, sold,       \* Logins
          now, rung, kept,                        \* DaySheet
          bills, payments, captured, cut,         \* Terminal
          h                                       \* the handlers

One == {h0}
Two == {h1, h2}
Ab == {r1, r2}

(* The handlers of a race, and the rows, are interchangeable. *)
Interchangeable == Permutations(Two) \cup Permutations(Ab)
-----------------------------------------------------------------------------
PaySerial == INSTANCE Payroll WITH Handlers <- One, Employees <- {"pam", "ralph"},
    Days <- {1, 2}, Entries <- Ab, Runs <- {"may"}, MaxHours <- 2, MaxPaid <- 2
PayRace == INSTANCE Payroll WITH Handlers <- Two, Employees <- {"pam"},
    Days <- {1}, Entries <- Ab, Runs <- {"may"}, MaxHours <- 1, MaxPaid <- 2

OrderDesk == INSTANCE PrintShop WITH Handlers <- One, Orders <- {r1}, Invoices <- {r2},
    MaxTotal <- 2, MaxDone <- 1, MaxPaid <- 2

Quoting == INSTANCE Workshop WITH Handlers <- One, Quotes <- Ab, POs <- {},
    MaxDeposit <- 2, MaxHours <- 0,
    Ops <- {"status", "approve", "accept", "deposit", "edit_quote", "send", "reject"}
Floor == INSTANCE Workshop WITH Handlers <- One, Quotes <- {}, POs <- {},
    MaxDeposit <- 0, MaxHours <- 2,
    Ops <- {"update", "status", "complete", "submit", "pass", "fail", "check_in", "check_out",
            "invoice", "log", "wait", "resume"}
Parts == INSTANCE Workshop WITH Handlers <- One
JobRace == INSTANCE Workshop WITH Handlers <- Two, Quotes <- {}, POs <- {},
    MaxDeposit <- 2, MaxHours <- 2, Ops <- {"deposit", "log"}

Resources == INSTANCE Bookings WITH Handlers <- One, Appointments <- {}
Calendar == INSTANCE Bookings WITH Handlers <- One, Bookings <- {}

Club == INSTANCE Members WITH Handlers <- One, Persons <- Ab, Fields <- {"email"},
    MaxCredits <- 3
ClubRace == INSTANCE Members WITH Handlers <- Two, Persons <- Ab, Fields <- {},
    MaxCredits <- 2

Till == INSTANCE Cart WITH Handlers <- One
TillRace == INSTANCE Cart WITH Handlers <- Two, Coin <- 2, MaxPrice <- 1, MaxLines <- 2

Board == INSTANCE Tickets WITH Batches <- One

(* Two baskets: one of everything a discount treats differently, and one of a deal of three
   products with two packs. *)
Product(id, price, tiers, mode, class) ==
    [id |-> id, price |-> price, tiers |-> tiers, mode |-> mode, class |-> class]
Mixed == {Product("papers", 210, {[min |-> 2, up |-> 350]}, "bundle", "plain"),
          Product("lighter", 330, {[min |-> 1, up |-> 330], [min |-> 2, up |-> 300]}, "per_unit", "plain"),
          Product("tobacco", 410, {}, "per_unit", "promo"),
          Product("coffee", 450, {}, "per_unit", "cafe")}
Deal == {Product(id, 200, {[min |-> 3, up |-> 500], [min |-> 5, up |-> 800]}, "bundle", "plain") :
         id \in {"raw", "ocb", "slim"}}

Lanes == INSTANCE Counter WITH Shelf <- Mixed, MaxLines <- 2, MaxQty <- 2,
    Discounts <- {500}, Targets <- {700}, Cap <- 1500, Tiers <- {0, 500}, Welcomes <- {0, 1000},
    Step <- 5, Modes <- {"nearest"}, Notes <- {5000}, Takeaways <- {TRUE},
    Standard <- 81, Reduced <- 26
Packets == INSTANCE Counter WITH Shelf <- Deal, MaxLines <- 3, MaxQty <- 2,
    Discounts <- {}, Targets <- {}, Cap <- 1500, Tiers <- {0}, Welcomes <- {0},
    Step <- 5, Modes <- {"down"}, Notes <- {5000}, Takeaways <- {FALSE},
    Standard <- 81, Reduced <- 26

Labels == INSTANCE Barcodes

BackDoor == INSTANCE Receiving WITH Handlers <- One, Goods <- Ab, MaxBatch <- 2, MaxStock <- 3
BackDoors == INSTANCE Receiving WITH Handlers <- Two, Goods <- {r1}, MaxBatch <- 2, MaxStock <- 3

Blanks == INSTANCE Supply WITH Handlers <- One, Variants <- {"red", "blue"}, Coded <- {"red"},
    Orders <- Ab, Items <- Ab, POs <- Ab, MaxStock <- 2,
    Ops <- {"item", "generate", "po_status", "receive"}
Stocktake == INSTANCE Supply WITH Handlers <- One, Variants <- {"red"}, Coded <- {"red"},
    Orders <- {r1}, Items <- {r1}, POs <- {r2}, MaxStock <- 2,
    Ops <- {"count", "receive", "item", "edit_item", "generate", "create", "edit", "po_status"}
Deliveries == INSTANCE Supply WITH Handlers <- Two, Variants <- {"red"}, Coded <- {"red"},
    Orders <- {}, Items <- {}, POs <- Ab, MaxStock <- 2,
    Ops <- {"count", "receive", "create", "po_status"}

Register == INSTANCE Shifts WITH Handlers <- One
RegisterRace == INSTANCE Shifts WITH Handlers <- Two, People <- {"pam"}

Staff == INSTANCE Logins WITH Handlers <- One
StaffRace == INSTANCE Logins WITH Handlers <- Two, Emps <- {r1}

(* A basket with a rate each and a treat, and one of a button that is no more, at a rate
   that is no more. *)
SoldLine(id, code, total, rate) ==
    [product |-> id, code |-> code, total |-> total, qty |-> 1, rate |-> rate, treat |-> FALSE,
     cost |-> 100]
Visit == <<SoldLine("coffee", "none", 433, 26), SoldLine("papers", "none", 210, 81),
           [SoldLine("papers", "none", 0, 81) EXCEPT !.treat = TRUE]>>
Odds == <<SoldLine("nothing", "retired", 301, 77), SoldLine("nothing", "grinders", 1, 81)>>
Shelved == [p \in {"coffee", "papers"} |-> IF p = "coffee" THEN "bar" ELSE "none"]

Reports == INSTANCE DaySheet WITH Sales <- Ab, Baskets <- {Visit, Odds}, Discounts <- {0, 750},
    Refunds <- {0, 299}, Methods <- {"cash", "visa"}, Buttons <- {"grinders"}, Category <- Shelved,
    LastTick <- 2, TicksPerDay <- 2, Ahead <- 1, Step <- 5, Standard <- 81, Reduced <- 26,
    NoProduct <- "nothing", NoCode <- "none", NoCategory <- "none"

Cards == INSTANCE Terminal WITH Handlers <- Two,
    Total <- [k \in Baskets |-> IF k \in Gifts THEN 0 ELSE 310]

ASSUME InstancesAssumption ==
    /\ PaySerial!PayrollAssumption /\ PayRace!PayrollAssumption
    /\ OrderDesk!PrintShopAssumption
    /\ Quoting!WorkshopAssumption /\ Floor!WorkshopAssumption /\ Parts!WorkshopAssumption /\ JobRace!WorkshopAssumption
    /\ Resources!BookingsAssumption /\ Calendar!BookingsAssumption
    /\ Club!MembersAssumption /\ ClubRace!MembersAssumption
    /\ Till!CartAssumption /\ TillRace!CartAssumption
    /\ Board!TicketsAssumption
    /\ Lanes!CounterAssumption /\ Packets!CounterAssumption
    /\ Labels!BarcodesAssumption
    /\ BackDoor!ReceivingAssumption /\ BackDoors!ReceivingAssumption
    /\ Blanks!SupplyAssumption /\ Stocktake!SupplyAssumption /\ Deliveries!SupplyAssumption
    /\ Register!ShiftsAssumption /\ RegisterRace!ShiftsAssumption
    /\ Staff!LoginsAssumption /\ StaffRace!LoginsAssumption
    /\ Reports!DaySheetAssumption
    /\ Cards!TerminalAssumption
-----------------------------------------------------------------------------
Off == "off"

pay == <<entry, run, payslips, signed>>
orders == <<order, stats, invoice>>
floor == <<job, quote, po, logged, byHand>>
calendar == <<booking, appt, moved>>
till == <<txn, lines, evidence>>
board == <<ticket, closing, batch>>
counter == <<basket, discount, agreed, sale>>
labels == <<product, alias>>
stores == <<item, supply, booked, most, loose>>
people == <<account, issued, user, emp, sold>>
sheets == <<now, rung, kept>>
slips == <<bills, payments, captured, cut>>

Pays == {"PaySerial", "PayRace"}
OrderDesks == {"OrderDesk"}
Jobs == {"Quoting", "Floor", "Parts", "JobRace"}
Calendars == {"Resources", "Calendar"}
Clubs == {"Club", "ClubRace"}
Tills == {"Till", "TillRace"}
Boards == {"Board"}
Counters == {"Lanes", "Packets"}
Shelves == {"Labels"}
Doors == {"BackDoor", "BackDoors"}
Stores == {"Blanks", "Stocktake", "Deliveries"}
Registers == {"Register", "RegisterRace"}
Staffs == {"Staff", "StaffRace"}
Offices == {"Reports"}
CardTills == {"Cards"}
Desk == UNION {Pays, OrderDesks, Jobs, Calendars, Clubs, Tills, Boards, Counters, Shelves, Doors,
               Stores, Registers, Staffs, Offices, CardTills}

Init ==
    /\ desk \in Desk
    /\ desk \notin Pays => entry = Off /\ run = Off /\ payslips = Off /\ signed = Off
    /\ desk \notin OrderDesks => order = Off /\ stats = Off /\ invoice = Off
    /\ desk \notin Jobs => job = Off /\ quote = Off /\ po = Off /\ logged = Off /\ byHand = Off
    /\ desk \notin OrderDesks \cup Jobs => received = Off
    /\ desk \notin Calendars => booking = Off /\ appt = Off /\ moved = Off
    /\ desk \notin Clubs => ledger = Off
    /\ desk \notin Tills => txn = Off /\ lines = Off /\ evidence = Off
    /\ desk \notin Clubs \cup Tills => member = Off
    /\ desk \notin Boards => ticket = Off /\ closing = Off /\ batch = Off
    /\ desk \notin Counters => basket = Off /\ discount = Off /\ agreed = Off /\ sale = Off
    /\ desk \notin Shelves => product = Off /\ alias = Off
    /\ desk \notin Doors => moves = Off
    /\ desk \notin Stores => item = Off /\ supply = Off /\ booked = Off /\ most = Off /\ loose = Off
    /\ desk \notin Doors \cup Stores => stock = Off
    /\ desk \notin Registers => session = Off
    /\ desk \notin Staffs => account = Off /\ issued = Off /\ user = Off /\ emp = Off /\ sold = Off
    /\ desk \notin CardTills => bills = Off /\ payments = Off /\ captured = Off /\ cut = Off
    /\ desk \notin Offices => now = Off /\ rung = Off /\ kept = Off
    /\ desk \in Boards \cup Counters \cup Shelves \cup Offices => h = Off
    /\ \/ desk = "PaySerial" /\ PaySerial!Init
       \/ desk = "PayRace" /\ PayRace!Init
       \/ desk = "OrderDesk" /\ OrderDesk!Init
       \/ desk = "Quoting" /\ Quoting!Init
       \/ desk = "Floor" /\ Floor!Init
       \/ desk = "Parts" /\ Parts!Init
       \/ desk = "JobRace" /\ JobRace!Init
       \/ desk = "Resources" /\ Resources!Init
       \/ desk = "Calendar" /\ Calendar!Init
       \/ desk = "Club" /\ Club!Init
       \/ desk = "ClubRace" /\ ClubRace!Init
       \/ desk = "Till" /\ Till!Init
       \/ desk = "TillRace" /\ TillRace!Init
       \/ desk = "Board" /\ Board!Init
       \/ desk = "Lanes" /\ Lanes!Init
       \/ desk = "Packets" /\ Packets!Init
       \/ desk = "Labels" /\ Labels!Init
       \/ desk = "BackDoor" /\ BackDoor!Init
       \/ desk = "BackDoors" /\ BackDoors!Init
       \/ desk = "Blanks" /\ Blanks!Init
       \/ desk = "Stocktake" /\ Stocktake!Init
       \/ desk = "Deliveries" /\ Deliveries!Init
       \/ desk = "Register" /\ Register!Init
       \/ desk = "RegisterRace" /\ RegisterRace!Init
       \/ desk = "Staff" /\ Staff!Init
       \/ desk = "StaffRace" /\ StaffRace!Init
       \/ desk = "Reports" /\ Reports!Init
       \/ desk = "Cards" /\ Cards!Init

PayNext ==
    /\ \/ desk = "PaySerial" /\ PaySerial!Next
       \/ desk = "PayRace" /\ PayRace!Next
    /\ UNCHANGED <<desk, orders, received, floor, calendar, member, ledger, till, board,
                   counter, labels, stock, moves, stores, session, people, sheets, slips>>

OrderNext ==
    /\ desk = "OrderDesk" /\ OrderDesk!Next
    /\ UNCHANGED <<desk, pay, floor, calendar, member, ledger, till, board, counter, labels,
                   stock, moves, stores, session, people, sheets, slips>>

JobNext ==
    /\ \/ desk = "Quoting" /\ Quoting!Next
       \/ desk = "Floor" /\ Floor!Next
       \/ desk = "Parts" /\ Parts!Next
       \/ desk = "JobRace" /\ JobRace!Next
    /\ UNCHANGED <<desk, pay, orders, calendar, member, ledger, till, board, counter, labels,
                   stock, moves, stores, session, people, sheets, slips>>

CalendarNext ==
    /\ \/ desk = "Resources" /\ Resources!Next
       \/ desk = "Calendar" /\ Calendar!Next
    /\ UNCHANGED <<desk, pay, orders, received, floor, member, ledger, till, board, counter,
                   labels, stock, moves, stores, session, people, sheets, slips>>

ClubNext ==
    /\ \/ desk = "Club" /\ Club!Next
       \/ desk = "ClubRace" /\ ClubRace!Next
    /\ UNCHANGED <<desk, pay, orders, received, floor, calendar, till, board, counter, labels,
                   stock, moves, stores, session, people, sheets, slips>>

TillNext ==
    /\ \/ desk = "Till" /\ Till!Next
       \/ desk = "TillRace" /\ TillRace!Next
    /\ UNCHANGED <<desk, pay, orders, received, floor, calendar, ledger, board, counter,
                   labels, stock, moves, stores, session, people, sheets, slips>>

BoardNext ==
    /\ desk = "Board" /\ Board!Next
    /\ UNCHANGED <<desk, pay, orders, received, floor, calendar, member, ledger, till, h,
                   counter, labels, stock, moves, stores, session, people, sheets, slips>>

CounterNext ==
    /\ \/ desk = "Lanes" /\ Lanes!Next
       \/ desk = "Packets" /\ Packets!Next
    /\ UNCHANGED <<desk, pay, orders, received, floor, calendar, member, ledger, till, board,
                   labels, h, stock, moves, stores, session, people, sheets, slips>>

LabelsNext ==
    /\ desk = "Labels" /\ Labels!Next
    /\ UNCHANGED <<desk, pay, orders, received, floor, calendar, member, ledger, till, board,
                   counter, h, stock, moves, stores, session, people, sheets, slips>>

DoorNext ==
    /\ \/ desk = "BackDoor" /\ BackDoor!Next
       \/ desk = "BackDoors" /\ BackDoors!Next
    /\ UNCHANGED <<desk, pay, orders, received, floor, calendar, member, ledger, till, board, counter, labels,
                   stores, session, people, sheets, slips>>

StoreNext ==
    /\ \/ desk = "Blanks" /\ Blanks!Next
       \/ desk = "Stocktake" /\ Stocktake!Next
       \/ desk = "Deliveries" /\ Deliveries!Next
    /\ UNCHANGED <<desk, pay, orders, received, floor, calendar, member, ledger, till, board, counter, labels,
                   moves, session, people, sheets, slips>>

ShiftNext ==
    /\ \/ desk = "Register" /\ Register!Next
       \/ desk = "RegisterRace" /\ RegisterRace!Next
    /\ UNCHANGED <<desk, pay, orders, received, floor, calendar, member, ledger, till, board, counter, labels,
                   stock, moves, stores, people, sheets, slips>>

StaffNext ==
    /\ \/ desk = "Staff" /\ Staff!Next
       \/ desk = "StaffRace" /\ StaffRace!Next
    /\ UNCHANGED <<desk, pay, orders, received, floor, calendar, member, ledger, till, board, counter, labels,
                   stock, moves, stores, session, sheets, slips>>

OfficeNext ==
    /\ desk = "Reports" /\ Reports!Next
    /\ UNCHANGED <<desk, pay, orders, received, floor, calendar, member, ledger, till, board, counter, labels,
                   stock, moves, stores, session, people, slips, h>>

CardNext ==
    /\ desk = "Cards" /\ Cards!Next
    /\ UNCHANGED <<desk, pay, orders, received, floor, calendar, member, ledger, till, board, counter, labels,
                   stock, moves, stores, session, people, sheets>>

Next == PayNext \/ OrderNext \/ JobNext \/ CalendarNext \/ ClubNext \/ TillNext \/ BoardNext
        \/ CounterNext \/ LabelsNext \/ DoorNext \/ StoreNext \/ ShiftNext \/ StaffNext
        \/ OfficeNext \/ CardNext

vars == <<desk, pay, orders, received, floor, calendar, member, ledger, till, board, counter, labels,
          stock, moves, stores, session, people, sheets, slips, h>>

Spec == Init /\ [][Next]_vars
-----------------------------------------------------------------------------
(* Every column and handler of the desk holds what it may hold. *)
TypeOK ==
    /\ desk \in Desk
    /\ desk = "PaySerial" => PaySerial!TypeOK
    /\ desk = "PayRace" => PayRace!TypeOK
    /\ desk = "OrderDesk" => OrderDesk!TypeOK
    /\ desk = "Quoting" => Quoting!TypeOK
    /\ desk = "Floor" => Floor!TypeOK
    /\ desk = "Parts" => Parts!TypeOK
    /\ desk = "JobRace" => JobRace!TypeOK
    /\ desk = "Resources" => Resources!TypeOK
    /\ desk = "Calendar" => Calendar!TypeOK
    /\ desk = "Club" => Club!TypeOK
    /\ desk = "ClubRace" => ClubRace!TypeOK
    /\ desk = "Till" => Till!TypeOK
    /\ desk = "TillRace" => TillRace!TypeOK
    /\ desk = "Board" => Board!TypeOK
    /\ desk = "Lanes" => Lanes!TypeOK
    /\ desk = "Packets" => Packets!TypeOK
    /\ desk = "Labels" => Labels!TypeOK
    /\ desk = "BackDoor" => BackDoor!TypeOK
    /\ desk = "BackDoors" => BackDoors!TypeOK
    /\ desk = "Blanks" => Blanks!TypeOK
    /\ desk = "Stocktake" => Stocktake!TypeOK
    /\ desk = "Deliveries" => Deliveries!TypeOK
    /\ desk = "Register" => Register!TypeOK
    /\ desk = "RegisterRace" => RegisterRace!TypeOK
    /\ desk = "Staff" => Staff!TypeOK
    /\ desk = "StaffRace" => StaffRace!TypeOK
    /\ desk = "Reports" => Reports!TypeOK
    /\ desk = "Cards" => Cards!TypeOK

(* However handlers interleave, what an overwritten row loses never makes it count more
   than the rows it is a sum of: totals of a payroll run, deposits and hours of a job,
   credits of a member, the price of a cart (of its lines without their deals, and a coin),
   pieces in stock; an entry is only marked paid
   with a payslip of its employee that counts it; and nobody is on shift more often than
   there are starts in flight.  (calculate_all_payslips, _calculate_employee_payslip,
   record_deposit, log_work, add_credits, add_item_to_transaction, checkout_transaction,
   bulk_update_stock, receive_stock, update_po_status, start_shift_session.) *)
NeverMore ==
    /\ desk = "PayRace" => PayRace!TotalsWithinPayslips /\ PayRace!PaidIsOnPayslip
    /\ desk = "JobRace" => JobRace!NeverOverstated
    /\ desk = "ClubRace" => ClubRace!NeverBelowZero
    /\ desk = "TillRace" => TillRace!NeverOvercharged
    /\ desk = "BackDoors" => BackDoors!NeverUncounted
    /\ desk = "Deliveries" => Deliveries!NeverOverstocked
    /\ desk = "RegisterRace" => RegisterRace!OnShiftPerStart

(* One handler: what payslips pay is what managers signed for the entries that are paid,
   each on one payslip, over crashes, errors and recalculations; the deposit a job requires
   is one that was agreed to, and what it shows as paid is what was handed over; and an
   invoice of the print shop never asks for less than what is missing.
   (update_time_entry, approve_time_entries, _calculate_employee_payslip; accept_quotation,
   record_deposit; record_payment, update_invoice.) *)
PaidAsAgreed ==
    /\ desk = "PaySerial" => PaySerial!PaidAsSigned /\ PaySerial!PaidOnce
    /\ desk = "Quoting" => Quoting!DepositAsAgreed
    /\ desk = "OrderDesk" => OrderDesk!DueCoversRest

(* A sale of the till adds up: its lines are never dearer than the shelf, those of one deal
   cost what the deal costs, no discount touches tobacco or a broken price, cash is in coins
   and the VAT of the lines is the VAT of what was paid.
   (create_sale, allocate_pool, split_vat, round_total.) *)
BillsAddUp ==
    /\ desk = "Lanes" => Lanes!BillAddsUp
    /\ desk = "Packets" => Packets!BillAddsUp

(* What the till shows is what the server charges, to the rounding of the discounts, for
   every basket both see alike.
   (recalculateTotals, payableTotal and calculateDiscountFromTarget against create_sale.) *)
ChargedAsShown ==
    /\ desk = "Lanes" => Lanes!ChargedAsShown
    /\ desk = "Packets" => Packets!ChargedAsShown

(* One handler: parts_on_order is only cleared when no order of the job is pending.
   (update_po_status.) *)
ClearedWhenNonePending == [][desk = "Parts" => Parts!ClearedStep]_vars

(* Whatever codes are bound, promoted and merged, a code that scans to a product goes on to,
   or scans to what it was merged into.  (add_product_barcode, catalog_merge_products.) *)
KeepsScanning == [][desk = "Labels" => Labels!KeepsScanning]_vars

(* One handler: no day of a resource and no slot of the book has two takers, nobody is on
   shift twice, and nobody is in the books as two persons: what was sold under a login is on
   the one row its reports are asked of, and a login linked to an employee acts for that one.
   With two handlers, that still holds of a login whose account is not made anew; nor does a
   card pay for a basket twice.
   (create_resource_booking, create_appointment, start_shift_session; _resolve_cashier_uid,
   get_employee_from_token, provision_login; create_sale, _capture_terminal_sim.) *)
NothingTwice ==
    /\ desk = "Resources" => Resources!NoDoubleBooking
    /\ desk = "Calendar" => Calendar!NoDoubleBooking
    /\ desk = "Register" => Register!OnShiftOnce
    /\ desk = "Staff" => Staff!SalesOnOneRow /\ Staff!ActsForLinked
    /\ desk = "StaffRace" => StaffRace!SettledStay
    /\ desk = "Cards" => Cards!PaidOnce

(* One handler: a member's balance is the sum of the ledger, and the totals its sides; the
   stock of a product is what its movements say, and that of a blank what was counted and
   received; and until somebody changes one of them by hand, the stock and the open purchase
   orders of the print shop cover what waits of each order, of products that have a code.  And
   the sheet of a day adds up to what was kept of its sales, by method, stream, department and
   product, and in the file.
   (create_customer, update_customer, add_credits; receive_stock; bulk_update_stock,
   update_po_status, generate_po_from_order; refund_transaction, get_daily_summary,
   get_daily_summary_csv, get_product_sales.) *)
BooksBalance ==
    /\ desk = "Club" => Club!LedgerIsBalance
    /\ desk = "BackDoor" => BackDoor!StockIsMoves
    /\ desk = "Blanks" => Blanks!StockIsBooked /\ Blanks!WaitingIsCovered
    /\ desk = "Stocktake" => Stocktake!StockIsBooked /\ Stocktake!WaitingIsCovered
    /\ desk = "Reports" => Reports!SheetAddsUp

(* One handler: a cart is charged what its lines cost without their deals, less discounts and
   plus less than a coin; it is reaped empty, and sold with a ground for every line of a product
   that needs one.  (add_item_to_transaction, checkout_transaction,
   reap_stale_open_carts.) *)
SoldAsFilled == desk = "Till" => Till!SoldAsFilled

(* One request to triage at a time: a ticket is triaged as often as it gave reasons to.
   (triage_pending_feedback.) *)
TriagedOnce == desk = "Board" => Board!TriagedOnce
=============================================================================
