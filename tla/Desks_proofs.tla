----------------------------- MODULE Desks_proofs -----------------------------
(***************************************************************************)
(* What EachDesk_proofs and EachBook_proofs prove of a module, for any     *)
(* rows and handlers, taken to the desks of it that Desks runs.            *)
(*                                                                         *)
(* A behaviour of Desks is one of the instance that `desk` names. Of a     *)
(* desk with one request at a time Handlers is {h0}, of one with two it is *)
(* {h1, h2}, so that what is left to assume is what Desks assumes of its   *)
(* constants (InstancesAssumption, which TLC evaluates).                   *)
(*                                                                         *)
(* P and B have the proofs with the constants of Desks. Where Desks gives  *)
(* a second desk of a module constants of its own, so does an instance of  *)
(* the proofs: PCalendar those of the appointments and the quotations,     *)
(* BStocktake those of the stocktake, PRace and BRace those of two         *)
(* handlers. Payroll's `entry` is `timesheet` in EachBook_proofs, where an *)
(* entry is one of a ledger. The instances and those of Desks are copies   *)
(* of one module: SameX unfolds both to the same formulas. DeskInv is then *)
(* the invariant of the desk that is open, and each property of Desks      *)
(* follows from it.                                                        *)
(***************************************************************************)
EXTENDS Desks, TLAPS

P == INSTANCE EachDesk_proofs WITH Handlers <- One, Appointments <- {}
PCalendar == INSTANCE EachDesk_proofs WITH Handlers <- One, Bookings <- {},
    Quotes <- Ab, POs <- {}, MaxDeposit <- 2, MaxHours <- 0,
    Ops <- {"status", "approve", "accept", "deposit", "edit_quote", "send", "reject"}
PRace == INSTANCE EachDesk_proofs WITH Handlers <- Two, Emps <- {r1}, People <- {"pam"},
    Quotes <- {}, POs <- {}, MaxDeposit <- 2, MaxHours <- 2, Ops <- {"deposit", "log"}

B == INSTANCE EachBook_proofs WITH Handlers <- One, timesheet <- entry, Total <- [k \in Baskets |-> IF k \in Gifts THEN 0 ELSE 310],
    Persons <- Ab, Fields <- {"email"}, MaxCredits <- 3,
    Goods <- Ab, MaxBatch <- 2, MaxStock <- 3,
    Employees <- {"pam", "ralph"}, Days <- {1, 2}, Entries <- Ab, Runs <- {"may"},
    MaxWorked <- 2, MaxSlips <- 2,
    Variants <- {"red", "blue"}, Coded <- {"red"}, Clients <- Ab, Items <- Ab, Restocks <- Ab,
    MaxPieces <- 2, StoreOps <- {"item", "generate", "po_status", "receive"},
    Orders <- {r1}, Invoices <- {r2}, MaxTotal <- 2, MaxDone <- 1, MaxPaid <- 2,
    Sales <- Ab, Filled <- {Visit, Odds}, Discounts <- {0, 750}, Refunds <- {0, 299},
    Methods <- {"cash", "visa"}, Buttons <- {"grinders"}, Category <- Shelved,
    LastTick <- 2, TicksPerDay <- 2, Ahead <- 1, Step <- 5, Standard <- 81, Reduced <- 26,
    NoProduct <- "nothing", NoCode <- "none", NoCategory <- "none"
BStocktake == INSTANCE EachBook_proofs WITH Handlers <- One, timesheet <- entry, Total <- [k \in Baskets |-> IF k \in Gifts THEN 0 ELSE 310],
    Persons <- Ab, Fields <- {"email"}, MaxCredits <- 3,
    Goods <- Ab, MaxBatch <- 2, MaxStock <- 3,
    Employees <- {"pam", "ralph"}, Days <- {1, 2}, Entries <- Ab, Runs <- {"may"},
    MaxWorked <- 2, MaxSlips <- 2,
    Variants <- {"red"}, Coded <- {"red"}, Clients <- {r1}, Items <- {r1}, Restocks <- {r2},
    MaxPieces <- 2,
    StoreOps <- {"count", "receive", "item", "edit_item", "generate", "create", "edit", "po_status"},
    Orders <- {r1}, Invoices <- {r2}, MaxTotal <- 2, MaxDone <- 1, MaxPaid <- 2,
    Sales <- Ab, Filled <- {Visit, Odds}, Discounts <- {0, 750}, Refunds <- {0, 299},
    Methods <- {"cash", "visa"}, Buttons <- {"grinders"}, Category <- Shelved,
    LastTick <- 2, TicksPerDay <- 2, Ahead <- 1, Step <- 5, Standard <- 81, Reduced <- 26,
    NoProduct <- "nothing", NoCode <- "none", NoCategory <- "none"
BRace == INSTANCE EachBook_proofs WITH Handlers <- Two, timesheet <- entry, Total <- [k \in Baskets |-> IF k \in Gifts THEN 0 ELSE 310],
    Coin <- 2, MaxPrice <- 1, MaxLines <- 2,
    Persons <- Ab, Fields <- {}, MaxCredits <- 2,
    Goods <- {r1}, MaxBatch <- 2, MaxStock <- 3,
    Employees <- {"pam"}, Days <- {1}, Entries <- Ab, Runs <- {"may"},
    MaxWorked <- 1, MaxSlips <- 2,
    Variants <- {"red"}, Coded <- {"red"}, Clients <- {}, Items <- {}, Restocks <- Ab,
    MaxPieces <- 2, StoreOps <- {"count", "receive", "create", "po_status"},
    Orders <- {r1}, Invoices <- {r2}, MaxTotal <- 2, MaxDone <- 1, MaxPaid <- 2,
    Sales <- Ab, Filled <- {Visit, Odds}, Discounts <- {0, 750}, Refunds <- {0, 299},
    Methods <- {"cash", "visa"}, Buttons <- {"grinders"}, Category <- Shelved,
    LastTick <- 2, TicksPerDay <- 2, Ahead <- 1, Step <- 5, Standard <- 81, Reduced <- 26,
    NoProduct <- "nothing", NoCode <- "none", NoCategory <- "none"

LEMMA OneRequest == P!OneHandler /\ PCalendar!OneHandler /\ B!OneHandler /\ BStocktake!OneHandler
BY DEF P!OneHandler, PCalendar!OneHandler, B!OneHandler, BStocktake!OneHandler, One
-----------------------------------------------------------------------------
LEMMA SameP ==
    /\ P!Board!TicketsAssumption <=> Board!TicketsAssumption
    /\ P!Board!Init <=> Board!Init
    /\ [P!Board!Next]_(P!Board!vars) <=> [Board!Next]_(Board!vars)
    /\ P!Board!TriagedOnce <=> Board!TriagedOnce
    /\ P!Labels!BarcodesAssumption <=> Labels!BarcodesAssumption
    /\ P!Labels!Init <=> Labels!Init
    /\ [P!Labels!Next]_(P!Labels!vars) <=> [Labels!Next]_(Labels!vars)
    /\ P!Labels!KeepsScanning <=> Labels!KeepsScanning
    /\ P!Jobs!WorkshopAssumption <=> Parts!WorkshopAssumption
    /\ P!Jobs!Init <=> Parts!Init
    /\ [P!Jobs!Next]_(P!Jobs!vars) <=> [Parts!Next]_(Parts!vars)
    /\ P!Jobs!ClearedStep <=> Parts!ClearedStep
    /\ P!Calendar!BookingsAssumption <=> Resources!BookingsAssumption
    /\ P!Calendar!Init <=> Resources!Init
    /\ [P!Calendar!Next]_(P!Calendar!vars) <=> [Resources!Next]_(Resources!vars)
    /\ P!Calendar!NoDoubleBooking <=> Resources!NoDoubleBooking
    /\ P!Register!ShiftsAssumption <=> Register!ShiftsAssumption
    /\ P!Register!Init <=> Register!Init
    /\ [P!Register!Next]_(P!Register!vars) <=> [Register!Next]_(Register!vars)
    /\ P!Register!OnShiftOnce <=> Register!OnShiftOnce
    /\ P!Staff!LoginsAssumption <=> Staff!LoginsAssumption
    /\ P!Staff!Init <=> Staff!Init
    /\ [P!Staff!Next]_(P!Staff!vars) <=> [Staff!Next]_(Staff!vars)
    /\ P!Staff!SalesOnOneRow <=> Staff!SalesOnOneRow
    /\ P!Staff!ActsForLinked <=> Staff!ActsForLinked
BY DEF P!Board!TicketsAssumption, Board!TicketsAssumption, P!Board!vars, Board!vars,
       P!Board!Numbers, Board!Numbers, P!Board!Idle, Board!Idle, P!Board!NoTicket, Board!NoTicket,
       P!Board!Init, Board!Init, P!Board!Filed, Board!Filed, P!Board!Held, Board!Held,
       P!Board!File, Board!File, P!Board!Write, Board!Write, P!Board!SetStatus, Board!SetStatus,
       P!Board!Archive, Board!Archive, P!Board!CloseLoad, Board!CloseLoad, P!Board!CloseCommit,
       Board!CloseCommit, P!Board!Reopen, Board!Reopen, P!Board!Note, Board!Note,
       P!Board!Selectable, Board!Selectable, P!Board!Newest, Board!Newest, P!Board!Select,
       Board!Select, P!Board!Context, Board!Context, P!Board!Ask, Board!Ask, P!Board!TriageCommit,
       Board!TriageCommit, P!Board!Abort, Board!Abort, P!Board!Next, Board!Next,
       P!Board!TriagedOnce, Board!TriagedOnce, P!Board!Cardinality, Board!Cardinality,
       P!Board!IsFiniteSet, Board!IsFiniteSet, P!Board!Max, Board!Max,
       P!Labels!BarcodesAssumption, Labels!BarcodesAssumption, P!Labels!vars, Labels!vars,
       P!Labels!NoRow, Labels!NoRow, P!Labels!Retired, Labels!Retired, P!Labels!Init, Labels!Init,
       P!Labels!Exists, Labels!Exists, P!Labels!Owners, Labels!Owners, P!Labels!Unused,
       Labels!Unused, P!Labels!Scans, Labels!Scans, P!Labels!Aliases, Labels!Aliases,
       P!Labels!Create, Labels!Create, P!Labels!Clone, Labels!Clone, P!Labels!Adopt, Labels!Adopt,
       P!Labels!BindGuess, Labels!BindGuess, P!Labels!BindFirst, Labels!BindFirst,
       P!Labels!Promote, Labels!Promote, P!Labels!BindNext, Labels!BindNext, P!Labels!Import,
       Labels!Import, P!Labels!Rewrite, Labels!Rewrite, P!Labels!SetActive, Labels!SetActive,
       P!Labels!Purge, Labels!Purge, P!Labels!Moving, Labels!Moving, P!Labels!NewPrimaries,
       Labels!NewPrimaries, P!Labels!Merge, Labels!Merge, P!Labels!Captured, Labels!Captured,
       P!Labels!Edited, Labels!Edited, P!Labels!Next, Labels!Next, P!Labels!MergedInto,
       Labels!MergedInto, P!Labels!KeepsScanning, Labels!KeepsScanning, P!Jobs!AllOps,
       Parts!AllOps, P!Jobs!WorkshopAssumption, Parts!WorkshopAssumption, P!Jobs!vars, Parts!vars,
       P!Jobs!JobStatus, Parts!JobStatus, P!Jobs!Deposits, Parts!Deposits, P!Jobs!Idle,
       Parts!Idle, P!Jobs!Init, Parts!Init, P!Jobs!Create, Parts!Create, P!Jobs!Ready,
       Parts!Ready, P!Jobs!Load, Parts!Load, P!Jobs!Save, Parts!Save, P!Jobs!Saw, Parts!Saw,
       P!Jobs!JobOnly, Parts!JobOnly, P!Jobs!Assign, Parts!Assign, P!Jobs!SetByHand,
       Parts!SetByHand, P!Jobs!SetStatus, Parts!SetStatus, P!Jobs!Approve, Parts!Approve,
       P!Jobs!Complete, Parts!Complete, P!Jobs!CompleteWith, Parts!CompleteWith, P!Jobs!Submit,
       Parts!Submit, P!Jobs!Pass, Parts!Pass, P!Jobs!Fail, Parts!Fail, P!Jobs!CheckIn,
       Parts!CheckIn, P!Jobs!CheckOut, Parts!CheckOut, P!Jobs!StartWait, Parts!StartWait,
       P!Jobs!EndWait, Parts!EndWait, P!Jobs!Invoice, Parts!Invoice, P!Jobs!LogSum, Parts!LogSum,
       P!Jobs!LogCommit, Parts!LogCommit, P!Jobs!Deposit, Parts!Deposit, P!Jobs!CreateQuote,
       Parts!CreateQuote, P!Jobs!OpenFor, Parts!OpenFor, P!Jobs!QuoteLoad, Parts!QuoteLoad,
       P!Jobs!SaveQuote, Parts!SaveQuote, P!Jobs!QuoteCommit, Parts!QuoteCommit, P!Jobs!AcceptJob,
       Parts!AcceptJob, P!Jobs!AcceptCommit, Parts!AcceptCommit, P!Jobs!Order, Parts!Order,
       P!Jobs!Pending, Parts!Pending, P!Jobs!POLoad, Parts!POLoad, P!Jobs!POCount, Parts!POCount,
       P!Jobs!POJob, Parts!POJob, P!Jobs!SavePO, Parts!SavePO, P!Jobs!POCommit, Parts!POCommit,
       P!Jobs!POReceived, Parts!POReceived, P!Jobs!Abort, Parts!Abort, P!Jobs!Next, Parts!Next,
       P!Jobs!ClearedStep, Parts!ClearedStep, P!Jobs!Flushed, Parts!Flushed,
       P!Calendar!BookingsAssumption, Resources!BookingsAssumption, P!Calendar!vars,
       Resources!vars, P!Calendar!Days, Resources!Days, P!Calendar!NoSlot, Resources!NoSlot,
       P!Calendar!Idle, Resources!Idle, P!Calendar!NoBooking, Resources!NoBooking,
       P!Calendar!NoAppt, Resources!NoAppt, P!Calendar!Init, Resources!Init, P!Calendar!Active,
       Resources!Active, P!Calendar!Over, Resources!Over, P!Calendar!Finish, Resources!Finish,
       P!Calendar!Taken, Resources!Taken, P!Calendar!BookLoad, Resources!BookLoad,
       P!Calendar!BookCommit, Resources!BookCommit, P!Calendar!BookingNext, Resources!BookingNext,
       P!Calendar!BookingLoad, Resources!BookingLoad, P!Calendar!BookingCommit,
       Resources!BookingCommit, P!Calendar!ApptLoad, Resources!ApptLoad, P!Calendar!ApptCommit,
       Resources!ApptCommit, P!Calendar!WalkIn, Resources!WalkIn, P!Calendar!MoveLoad,
       Resources!MoveLoad, P!Calendar!MoveCommit, Resources!MoveCommit, P!Calendar!ApptNext,
       Resources!ApptNext, P!Calendar!StatusLoad, Resources!StatusLoad, P!Calendar!StatusCommit,
       Resources!StatusCommit, P!Calendar!Abort, Resources!Abort, P!Calendar!Next, Resources!Next,
       P!Calendar!NoDoubleBooking, Resources!NoDoubleBooking, P!Calendar!Flushed,
       Resources!Flushed, P!Register!ShiftsAssumption, Register!ShiftsAssumption, P!Register!vars,
       Register!vars, P!Register!Idle, Register!Idle, P!Register!NoSession, Register!NoSession,
       P!Register!Init, Register!Init, P!Register!Active, Register!Active, P!Register!Begin,
       Register!Begin, P!Register!Finish, Register!Finish, P!Register!StartLoad,
       Register!StartLoad, P!Register!StartCommit, Register!StartCommit, P!Register!EndLoad,
       Register!EndLoad, P!Register!ForceLoad, Register!ForceLoad, P!Register!HandoffLoad,
       Register!HandoffLoad, P!Register!EndCommit, Register!EndCommit, P!Register!Abort,
       Register!Abort, P!Register!Next, Register!Next, P!Register!OnShiftOnce,
       Register!OnShiftOnce, P!Register!Cardinality, Register!Cardinality, P!Register!IsFiniteSet,
       Register!IsFiniteSet, P!Staff!LoginsAssumption, Staff!LoginsAssumption, P!Staff!vars,
       Staff!vars, P!Staff!Ids, Staff!Ids, P!Staff!Idle, Staff!Idle, P!Staff!NoUser, Staff!NoUser,
       P!Staff!NoSale, Staff!NoSale, P!Staff!Seeded, Staff!Seeded, P!Staff!Init, Staff!Init,
       P!Staff!Known, Staff!Known, P!Staff!Named, Staff!Named, P!Staff!Keyed, Staff!Keyed,
       P!Staff!LinkedTo, Staff!LinkedTo, P!Staff!Unique, Staff!Unique, P!Staff!Begin, Staff!Begin,
       P!Staff!Finish, Staff!Finish, P!Staff!Account, Staff!Account, P!Staff!Restart,
       Staff!Restart, P!Staff!Resolved, Staff!Resolved, P!Staff!SaleLoad, Staff!SaleLoad,
       P!Staff!Rung, Staff!Rung, P!Staff!SaleCommit, Staff!SaleCommit, P!Staff!FirstSaleCommit,
       Staff!FirstSaleCommit, P!Staff!ByKey, Staff!ByKey, P!Staff!ByName, Staff!ByName,
       P!Staff!HealLoad, Staff!HealLoad, P!Staff!HealCommit, Staff!HealCommit, P!Staff!Unheard,
       Staff!Unheard, P!Staff!LinkLoad, Staff!LinkLoad, P!Staff!LinkCommit, Staff!LinkCommit,
       P!Staff!Unlink, Staff!Unlink, P!Staff!ProvisionLoad, Staff!ProvisionLoad,
       P!Staff!ProvisionCommit, Staff!ProvisionCommit, P!Staff!Abort, Staff!Abort, P!Staff!Next,
       Staff!Next, P!Staff!Current, Staff!Current, P!Staff!OnOneRow, Staff!OnOneRow,
       P!Staff!ActFor, Staff!ActFor, P!Staff!SalesOnOneRow, Staff!SalesOnOneRow,
       P!Staff!ActsForLinked, Staff!ActsForLinked, P!Staff!Flushed, Staff!Flushed

LEMMA SamePCalendar ==
    /\ PCalendar!Jobs!WorkshopAssumption <=> Quoting!WorkshopAssumption
    /\ PCalendar!Jobs!Init <=> Quoting!Init
    /\ [PCalendar!Jobs!Next]_(PCalendar!Jobs!vars) <=> [Quoting!Next]_(Quoting!vars)
    /\ PCalendar!Jobs!DepositAsAgreed <=> Quoting!DepositAsAgreed
    /\ PCalendar!Calendar!BookingsAssumption <=> Calendar!BookingsAssumption
    /\ PCalendar!Calendar!Init <=> Calendar!Init
    /\ [PCalendar!Calendar!Next]_(PCalendar!Calendar!vars) <=> [Calendar!Next]_(Calendar!vars)
    /\ PCalendar!Calendar!NoDoubleBooking <=> Calendar!NoDoubleBooking
BY DEF PCalendar!Jobs!AllOps, Quoting!AllOps, PCalendar!Jobs!WorkshopAssumption,
       Quoting!WorkshopAssumption, PCalendar!Jobs!vars, Quoting!vars, PCalendar!Jobs!JobStatus,
       Quoting!JobStatus, PCalendar!Jobs!Deposits, Quoting!Deposits, PCalendar!Jobs!Idle,
       Quoting!Idle, PCalendar!Jobs!Init, Quoting!Init, PCalendar!Jobs!Create, Quoting!Create,
       PCalendar!Jobs!Ready, Quoting!Ready, PCalendar!Jobs!Load, Quoting!Load,
       PCalendar!Jobs!Save, Quoting!Save, PCalendar!Jobs!Saw, Quoting!Saw, PCalendar!Jobs!JobOnly,
       Quoting!JobOnly, PCalendar!Jobs!Assign, Quoting!Assign, PCalendar!Jobs!SetByHand,
       Quoting!SetByHand, PCalendar!Jobs!SetStatus, Quoting!SetStatus, PCalendar!Jobs!Approve,
       Quoting!Approve, PCalendar!Jobs!Complete, Quoting!Complete, PCalendar!Jobs!CompleteWith,
       Quoting!CompleteWith, PCalendar!Jobs!Submit, Quoting!Submit, PCalendar!Jobs!Pass,
       Quoting!Pass, PCalendar!Jobs!Fail, Quoting!Fail, PCalendar!Jobs!CheckIn, Quoting!CheckIn,
       PCalendar!Jobs!CheckOut, Quoting!CheckOut, PCalendar!Jobs!StartWait, Quoting!StartWait,
       PCalendar!Jobs!EndWait, Quoting!EndWait, PCalendar!Jobs!Invoice, Quoting!Invoice,
       PCalendar!Jobs!LogSum, Quoting!LogSum, PCalendar!Jobs!LogCommit, Quoting!LogCommit,
       PCalendar!Jobs!Deposit, Quoting!Deposit, PCalendar!Jobs!CreateQuote, Quoting!CreateQuote,
       PCalendar!Jobs!OpenFor, Quoting!OpenFor, PCalendar!Jobs!QuoteLoad, Quoting!QuoteLoad,
       PCalendar!Jobs!SaveQuote, Quoting!SaveQuote, PCalendar!Jobs!QuoteCommit,
       Quoting!QuoteCommit, PCalendar!Jobs!AcceptJob, Quoting!AcceptJob,
       PCalendar!Jobs!AcceptCommit, Quoting!AcceptCommit, PCalendar!Jobs!Order, Quoting!Order,
       PCalendar!Jobs!Pending, Quoting!Pending, PCalendar!Jobs!POLoad, Quoting!POLoad,
       PCalendar!Jobs!POCount, Quoting!POCount, PCalendar!Jobs!POJob, Quoting!POJob,
       PCalendar!Jobs!SavePO, Quoting!SavePO, PCalendar!Jobs!POCommit, Quoting!POCommit,
       PCalendar!Jobs!POReceived, Quoting!POReceived, PCalendar!Jobs!Abort, Quoting!Abort,
       PCalendar!Jobs!Next, Quoting!Next, PCalendar!Jobs!DepositAsAgreed, Quoting!DepositAsAgreed,
       PCalendar!Jobs!Flushed, Quoting!Flushed, PCalendar!Calendar!BookingsAssumption,
       Calendar!BookingsAssumption, PCalendar!Calendar!vars, Calendar!vars,
       PCalendar!Calendar!Days, Calendar!Days, PCalendar!Calendar!NoSlot, Calendar!NoSlot,
       PCalendar!Calendar!Idle, Calendar!Idle, PCalendar!Calendar!NoBooking, Calendar!NoBooking,
       PCalendar!Calendar!NoAppt, Calendar!NoAppt, PCalendar!Calendar!Init, Calendar!Init,
       PCalendar!Calendar!Active, Calendar!Active, PCalendar!Calendar!Over, Calendar!Over,
       PCalendar!Calendar!Finish, Calendar!Finish, PCalendar!Calendar!Taken, Calendar!Taken,
       PCalendar!Calendar!BookLoad, Calendar!BookLoad, PCalendar!Calendar!BookCommit,
       Calendar!BookCommit, PCalendar!Calendar!BookingNext, Calendar!BookingNext,
       PCalendar!Calendar!BookingLoad, Calendar!BookingLoad, PCalendar!Calendar!BookingCommit,
       Calendar!BookingCommit, PCalendar!Calendar!ApptLoad, Calendar!ApptLoad,
       PCalendar!Calendar!ApptCommit, Calendar!ApptCommit, PCalendar!Calendar!WalkIn,
       Calendar!WalkIn, PCalendar!Calendar!MoveLoad, Calendar!MoveLoad,
       PCalendar!Calendar!MoveCommit, Calendar!MoveCommit, PCalendar!Calendar!ApptNext,
       Calendar!ApptNext, PCalendar!Calendar!StatusLoad, Calendar!StatusLoad,
       PCalendar!Calendar!StatusCommit, Calendar!StatusCommit, PCalendar!Calendar!Abort,
       Calendar!Abort, PCalendar!Calendar!Next, Calendar!Next, PCalendar!Calendar!NoDoubleBooking,
       Calendar!NoDoubleBooking, PCalendar!Calendar!Flushed, Calendar!Flushed

LEMMA SamePRace ==
    /\ PRace!Jobs!WorkshopAssumption <=> JobRace!WorkshopAssumption
    /\ PRace!Jobs!Init <=> JobRace!Init
    /\ [PRace!Jobs!Next]_(PRace!Jobs!vars) <=> [JobRace!Next]_(JobRace!vars)
    /\ PRace!Jobs!NeverOverstated <=> JobRace!NeverOverstated
    /\ PRace!Register!ShiftsAssumption <=> RegisterRace!ShiftsAssumption
    /\ PRace!Register!Init <=> RegisterRace!Init
    /\ [PRace!Register!Next]_(PRace!Register!vars) <=> [RegisterRace!Next]_(RegisterRace!vars)
    /\ PRace!Register!OnShiftPerStart <=> RegisterRace!OnShiftPerStart
    /\ PRace!Staff!LoginsAssumption <=> StaffRace!LoginsAssumption
    /\ PRace!Staff!Init <=> StaffRace!Init
    /\ [PRace!Staff!Next]_(PRace!Staff!vars) <=> [StaffRace!Next]_(StaffRace!vars)
    /\ PRace!Staff!SettledStay <=> StaffRace!SettledStay
BY DEF PRace!Jobs!AllOps, JobRace!AllOps, PRace!Jobs!WorkshopAssumption,
       JobRace!WorkshopAssumption, PRace!Jobs!vars, JobRace!vars, PRace!Jobs!JobStatus,
       JobRace!JobStatus, PRace!Jobs!Deposits, JobRace!Deposits, PRace!Jobs!Idle, JobRace!Idle,
       PRace!Jobs!Init, JobRace!Init, PRace!Jobs!Create, JobRace!Create, PRace!Jobs!Ready,
       JobRace!Ready, PRace!Jobs!Load, JobRace!Load, PRace!Jobs!Save, JobRace!Save,
       PRace!Jobs!Saw, JobRace!Saw, PRace!Jobs!JobOnly, JobRace!JobOnly, PRace!Jobs!Assign,
       JobRace!Assign, PRace!Jobs!SetByHand, JobRace!SetByHand, PRace!Jobs!SetStatus,
       JobRace!SetStatus, PRace!Jobs!Approve, JobRace!Approve, PRace!Jobs!Complete,
       JobRace!Complete, PRace!Jobs!CompleteWith, JobRace!CompleteWith, PRace!Jobs!Submit,
       JobRace!Submit, PRace!Jobs!Pass, JobRace!Pass, PRace!Jobs!Fail, JobRace!Fail,
       PRace!Jobs!CheckIn, JobRace!CheckIn, PRace!Jobs!CheckOut, JobRace!CheckOut,
       PRace!Jobs!StartWait, JobRace!StartWait, PRace!Jobs!EndWait, JobRace!EndWait,
       PRace!Jobs!Invoice, JobRace!Invoice, PRace!Jobs!LogSum, JobRace!LogSum,
       PRace!Jobs!LogCommit, JobRace!LogCommit, PRace!Jobs!Deposit, JobRace!Deposit,
       PRace!Jobs!CreateQuote, JobRace!CreateQuote, PRace!Jobs!OpenFor, JobRace!OpenFor,
       PRace!Jobs!QuoteLoad, JobRace!QuoteLoad, PRace!Jobs!SaveQuote, JobRace!SaveQuote,
       PRace!Jobs!QuoteCommit, JobRace!QuoteCommit, PRace!Jobs!AcceptJob, JobRace!AcceptJob,
       PRace!Jobs!AcceptCommit, JobRace!AcceptCommit, PRace!Jobs!Order, JobRace!Order,
       PRace!Jobs!Pending, JobRace!Pending, PRace!Jobs!POLoad, JobRace!POLoad, PRace!Jobs!POCount,
       JobRace!POCount, PRace!Jobs!POJob, JobRace!POJob, PRace!Jobs!SavePO, JobRace!SavePO,
       PRace!Jobs!POCommit, JobRace!POCommit, PRace!Jobs!POReceived, JobRace!POReceived,
       PRace!Jobs!Abort, JobRace!Abort, PRace!Jobs!Next, JobRace!Next, PRace!Jobs!NeverOverstated,
       JobRace!NeverOverstated, PRace!Jobs!Flushed, JobRace!Flushed,
       PRace!Register!ShiftsAssumption, RegisterRace!ShiftsAssumption, PRace!Register!vars,
       RegisterRace!vars, PRace!Register!Idle, RegisterRace!Idle, PRace!Register!NoSession,
       RegisterRace!NoSession, PRace!Register!Init, RegisterRace!Init, PRace!Register!Active,
       RegisterRace!Active, PRace!Register!Begin, RegisterRace!Begin, PRace!Register!Finish,
       RegisterRace!Finish, PRace!Register!StartLoad, RegisterRace!StartLoad,
       PRace!Register!StartCommit, RegisterRace!StartCommit, PRace!Register!EndLoad,
       RegisterRace!EndLoad, PRace!Register!ForceLoad, RegisterRace!ForceLoad,
       PRace!Register!HandoffLoad, RegisterRace!HandoffLoad, PRace!Register!EndCommit,
       RegisterRace!EndCommit, PRace!Register!Abort, RegisterRace!Abort, PRace!Register!Next,
       RegisterRace!Next, PRace!Register!OnShiftPerStart, RegisterRace!OnShiftPerStart,
       PRace!Register!Cardinality, RegisterRace!Cardinality, PRace!Register!IsFiniteSet,
       RegisterRace!IsFiniteSet, PRace!Staff!LoginsAssumption, StaffRace!LoginsAssumption,
       PRace!Staff!vars, StaffRace!vars, PRace!Staff!Ids, StaffRace!Ids, PRace!Staff!Idle,
       StaffRace!Idle, PRace!Staff!NoUser, StaffRace!NoUser, PRace!Staff!NoSale, StaffRace!NoSale,
       PRace!Staff!Seeded, StaffRace!Seeded, PRace!Staff!Init, StaffRace!Init, PRace!Staff!Known,
       StaffRace!Known, PRace!Staff!Named, StaffRace!Named, PRace!Staff!Keyed, StaffRace!Keyed,
       PRace!Staff!LinkedTo, StaffRace!LinkedTo, PRace!Staff!Unique, StaffRace!Unique,
       PRace!Staff!Begin, StaffRace!Begin, PRace!Staff!Finish, StaffRace!Finish,
       PRace!Staff!Account, StaffRace!Account, PRace!Staff!Restart, StaffRace!Restart,
       PRace!Staff!Resolved, StaffRace!Resolved, PRace!Staff!SaleLoad, StaffRace!SaleLoad,
       PRace!Staff!Rung, StaffRace!Rung, PRace!Staff!SaleCommit, StaffRace!SaleCommit,
       PRace!Staff!FirstSaleCommit, StaffRace!FirstSaleCommit, PRace!Staff!ByKey, StaffRace!ByKey,
       PRace!Staff!ByName, StaffRace!ByName, PRace!Staff!HealLoad, StaffRace!HealLoad,
       PRace!Staff!HealCommit, StaffRace!HealCommit, PRace!Staff!Unheard, StaffRace!Unheard,
       PRace!Staff!LinkLoad, StaffRace!LinkLoad, PRace!Staff!LinkCommit, StaffRace!LinkCommit,
       PRace!Staff!Unlink, StaffRace!Unlink, PRace!Staff!ProvisionLoad, StaffRace!ProvisionLoad,
       PRace!Staff!ProvisionCommit, StaffRace!ProvisionCommit, PRace!Staff!Abort, StaffRace!Abort,
       PRace!Staff!Next, StaffRace!Next, PRace!Staff!Lasting, StaffRace!Lasting,
       PRace!Staff!Settled, StaffRace!Settled, PRace!Staff!OnOneRow, StaffRace!OnOneRow,
       PRace!Staff!ActFor, StaffRace!ActFor, PRace!Staff!SettledStay, StaffRace!SettledStay,
       PRace!Staff!Flushed, StaffRace!Flushed

LEMMA SameRing ==
    ASSUME NEW s, NEW b, NEW off, NEW m
    PROVE  B!Sheets!Ring(s, b, off, m) <=> Reports!Ring(s, b, off, m)
<1>1. \A f : B!Sheets!SumFunction(f) = Reports!SumFunction(f)
  BY DEF B!Sheets!SumFunction, Reports!SumFunction, B!Sheets!SumFunctionOnSet,
         Reports!SumFunctionOnSet, B!Sheets!FoldFunctionOnSet, Reports!FoldFunctionOnSet,
         B!Sheets!MapThenFoldSet, Reports!MapThenFoldSet
<1>2. /\ \A k, n : B!Sheets!HalfUp(k, n) = Reports!HalfUp(k, n)
      /\ \A t, n, k : B!Sheets!RoundTotal(t, n, k) = Reports!RoundTotal(t, n, k)
  BY DEF B!Sheets!HalfUp, Reports!HalfUp, B!Sheets!RoundTotal, Reports!RoundTotal
<1>3. \A t, u : [i \in DOMAIN b |-> B!Sheets!VatIn(b, i, t, u)] = [i \in DOMAIN b |-> Reports!VatIn(b, i, t, u)]
  BY DEF B!Sheets!VatIn, Reports!VatIn, B!Sheets!ContainedVat, Reports!ContainedVat,
         B!Sheets!HalfUp, Reports!HalfUp
<1> QED BY <1>1, <1>2, <1>3 DEF B!Sheets!Ring, Reports!Ring, B!Sheets!NoSale, Reports!NoSale

LEMMA SameB ==
    /\ B!Wages!PayrollAssumption <=> PaySerial!PayrollAssumption
    /\ B!Wages!Init <=> PaySerial!Init
    /\ [B!Wages!Next]_(B!Wages!vars) <=> [PaySerial!Next]_(PaySerial!vars)
    /\ B!Wages!PaidAsSigned <=> PaySerial!PaidAsSigned
    /\ B!Wages!PaidOnce <=> PaySerial!PaidOnce
    /\ B!Club!MembersAssumption <=> Club!MembersAssumption
    /\ B!Club!Init <=> Club!Init
    /\ [B!Club!Next]_(B!Club!vars) <=> [Club!Next]_(Club!vars)
    /\ B!Club!LedgerIsBalance <=> Club!LedgerIsBalance
    /\ B!Till!CartAssumption <=> Till!CartAssumption
    /\ B!Till!Init <=> Till!Init
    /\ [B!Till!Next]_(B!Till!vars) <=> [Till!Next]_(Till!vars)
    /\ B!Till!SoldAsFilled <=> Till!SoldAsFilled
    /\ B!Door!ReceivingAssumption <=> BackDoor!ReceivingAssumption
    /\ B!Door!Init <=> BackDoor!Init
    /\ [B!Door!Next]_(B!Door!vars) <=> [BackDoor!Next]_(BackDoor!vars)
    /\ B!Door!StockIsMoves <=> BackDoor!StockIsMoves
    /\ B!Store!SupplyAssumption <=> Blanks!SupplyAssumption
    /\ B!Store!Init <=> Blanks!Init
    /\ [B!Store!Next]_(B!Store!vars) <=> [Blanks!Next]_(Blanks!vars)
    /\ B!Store!StockIsBooked <=> Blanks!StockIsBooked
    /\ B!Store!WaitingIsCovered <=> Blanks!WaitingIsCovered
    /\ B!Press!PrintShopAssumption <=> OrderDesk!PrintShopAssumption
    /\ B!Press!Init <=> OrderDesk!Init
    /\ [B!Press!Next]_(B!Press!vars) <=> [OrderDesk!Next]_(OrderDesk!vars)
    /\ B!Press!DueCoversRest <=> OrderDesk!DueCoversRest
    /\ B!Sheets!DaySheetAssumption <=> Reports!DaySheetAssumption
    /\ B!Sheets!Init <=> Reports!Init
    /\ [B!Sheets!Next]_(B!Sheets!vars) <=> [Reports!Next]_(Reports!vars)
    /\ B!Sheets!SheetAddsUp <=> Reports!SheetAddsUp
<1>1. /\ B!Wages!PayrollAssumption <=> PaySerial!PayrollAssumption
      /\ B!Wages!Init <=> PaySerial!Init
      /\ [B!Wages!Next]_(B!Wages!vars) <=> [PaySerial!Next]_(PaySerial!vars)
      /\ B!Wages!PaidAsSigned <=> PaySerial!PaidAsSigned
      /\ B!Wages!PaidOnce <=> PaySerial!PaidOnce
  BY DEF B!Wages!PayrollAssumption, PaySerial!PayrollAssumption, B!Wages!vars, PaySerial!vars,
         B!Wages!Hours, PaySerial!Hours, B!Wages!Idle, PaySerial!Idle, B!Wages!NoEntry,
         PaySerial!NoEntry, B!Wages!NoRun, PaySerial!NoRun, B!Wages!Init, PaySerial!Init,
         B!Wages!Stored, PaySerial!Stored, B!Wages!LoadEntry, PaySerial!LoadEntry,
         B!Wages!CommitEntry, PaySerial!CommitEntry, B!Wages!LoadRun, PaySerial!LoadRun,
         B!Wages!CommitRun, PaySerial!CommitRun, B!Wages!CreateLoad, PaySerial!CreateLoad,
         B!Wages!CreateCommit, PaySerial!CreateCommit, B!Wages!UpdateLoad, PaySerial!UpdateLoad,
         B!Wages!UpdateCommit, PaySerial!UpdateCommit, B!Wages!DeleteLoad, PaySerial!DeleteLoad,
         B!Wages!DeleteCommit, PaySerial!DeleteCommit, B!Wages!SubmitLoad, PaySerial!SubmitLoad,
         B!Wages!SubmitCommit, PaySerial!SubmitCommit, B!Wages!DecideLoad, PaySerial!DecideLoad,
         B!Wages!DecideCommit, PaySerial!DecideCommit, B!Wages!CreateRunLoad,
         PaySerial!CreateRunLoad, B!Wages!CreateRunCommit, PaySerial!CreateRunCommit,
         B!Wages!CalcLoad, PaySerial!CalcLoad, B!Wages!CalcBegin, PaySerial!CalcBegin,
         B!Wages!ApprovedOf, PaySerial!ApprovedOf, B!Wages!SlipLoad, PaySerial!SlipLoad,
         B!Wages!Looping, PaySerial!Looping, B!Wages!SlipCommit, PaySerial!SlipCommit,
         B!Wages!SlipError, PaySerial!SlipError, B!Wages!CalcCommit, PaySerial!CalcCommit,
         B!Wages!ApproveRunLoad, PaySerial!ApproveRunLoad, B!Wages!ApproveRunCommit,
         PaySerial!ApproveRunCommit, B!Wages!MarkPaidLoad, PaySerial!MarkPaidLoad,
         B!Wages!MarkPaidCommit, PaySerial!MarkPaidCommit, B!Wages!Abort, PaySerial!Abort,
         B!Wages!Next, PaySerial!Next, B!Wages!Gross, PaySerial!Gross, B!Wages!PaidOnce,
         PaySerial!PaidOnce, B!Wages!PaidAsSigned, PaySerial!PaidAsSigned, B!Wages!Cardinality,
         PaySerial!Cardinality, B!Wages!IsFiniteSet, PaySerial!IsFiniteSet, B!Wages!Flushed,
         PaySerial!Flushed, B!Wages!SumFunctionOnSet, PaySerial!SumFunctionOnSet,
         B!Wages!FoldFunctionOnSet, PaySerial!FoldFunctionOnSet, B!Wages!MapThenFoldSet,
         PaySerial!MapThenFoldSet
<1>2. /\ B!Club!MembersAssumption <=> Club!MembersAssumption
      /\ B!Club!Init <=> Club!Init
      /\ [B!Club!Next]_(B!Club!vars) <=> [Club!Next]_(Club!vars)
      /\ B!Club!LedgerIsBalance <=> Club!LedgerIsBalance
  BY DEF B!Club!MembersAssumption, Club!MembersAssumption, B!Club!vars, Club!vars, B!Club!Idle,
         Club!Idle, B!Club!NoMember, Club!NoMember, B!Club!NoRows, Club!NoRows, B!Club!Init,
         Club!Init, B!Club!Known, Club!Known, B!Club!Logged, Club!Logged, B!Club!Paid, Club!Paid,
         B!Club!Enrol, Club!Enrol, B!Club!ReferLoad, Club!ReferLoad, B!Club!ReferCommit,
         Club!ReferCommit, B!Club!Load, Club!Load, B!Club!Save, Club!Save, B!Club!Update,
         Club!Update, B!Club!SetState, Club!SetState, B!Club!Adjust, Club!Adjust, B!Club!Abort,
         Club!Abort, B!Club!Next, Club!Next, B!Club!LedgerIsBalance, Club!LedgerIsBalance,
         B!Club!Cardinality, Club!Cardinality, B!Club!IsFiniteSet, Club!IsFiniteSet,
         B!Club!Flushed, Club!Flushed
<1>3. /\ B!Till!CartAssumption <=> Till!CartAssumption
      /\ B!Till!Init <=> Till!Init
      /\ [B!Till!Next]_(B!Till!vars) <=> [Till!Next]_(Till!vars)
      /\ B!Till!SoldAsFilled <=> Till!SoldAsFilled
  BY DEF B!Till!CartAssumption, Till!CartAssumption, B!Till!vars, Till!vars, B!Till!Idle,
         Till!Idle, B!Till!Init, Till!Init, B!Till!Half, Till!Half, B!Till!GrossOf,
         Till!GrossOf, B!Till!Open, Till!Open, B!Till!Saw, Till!Saw, B!Till!Goto, Till!Goto,
         B!Till!ItemLoad, Till!ItemLoad, B!Till!ItemCommit, Till!ItemCommit, B!Till!PayLoad,
         Till!PayLoad, B!Till!WalkIn, Till!WalkIn, B!Till!Attach, Till!Attach, B!Till!Cleared,
         Till!Cleared, B!Till!Refused, Till!Refused, B!Till!Counter, Till!Counter,
         B!Till!PayCommit, Till!PayCommit, B!Till!ReapLoad, Till!ReapLoad, B!Till!ReapCommit,
         Till!ReapCommit, B!Till!Abort, Till!Abort, B!Till!Grounds, Till!Grounds, B!Till!Next,
         Till!Next, B!Till!SoldAsFilled, Till!SoldAsFilled, B!Till!Cardinality,
         Till!Cardinality, B!Till!IsFiniteSet, Till!IsFiniteSet, B!Till!Max, Till!Max,
         B!Till!Flushed, Till!Flushed, B!Till!SumFunctionOnSet, Till!SumFunctionOnSet,
         B!Till!FoldFunctionOnSet, Till!FoldFunctionOnSet, B!Till!MapThenFoldSet,
         Till!MapThenFoldSet, B!Till!Classes, Till!Classes, B!Till!Gated, Till!Gated,
         B!Till!Eligible, Till!Eligible, B!Till!NetOf, Till!NetOf, B!Till!Payable, Till!Payable
<1>4. /\ B!Door!ReceivingAssumption <=> BackDoor!ReceivingAssumption
      /\ B!Door!Init <=> BackDoor!Init
      /\ [B!Door!Next]_(B!Door!vars) <=> [BackDoor!Next]_(BackDoor!vars)
      /\ B!Door!StockIsMoves <=> BackDoor!StockIsMoves
  BY DEF B!Door!ReceivingAssumption, BackDoor!ReceivingAssumption, B!Door!vars, BackDoor!vars,
         B!Door!Idle, BackDoor!Idle, B!Door!Init, BackDoor!Init, B!Door!Resolve, BackDoor!Resolve,
         B!Door!Coming, BackDoor!Coming, B!Door!Commit, BackDoor!Commit, B!Door!Abort,
         BackDoor!Abort, B!Door!Next, BackDoor!Next, B!Door!StockIsMoves, BackDoor!StockIsMoves,
         B!Door!SumFunctionOnSet, BackDoor!SumFunctionOnSet, B!Door!FoldFunctionOnSet,
         BackDoor!FoldFunctionOnSet, B!Door!MapThenFoldSet, BackDoor!MapThenFoldSet
<1>5. /\ B!Store!SupplyAssumption <=> Blanks!SupplyAssumption
      /\ B!Store!Init <=> Blanks!Init
      /\ [B!Store!Next]_(B!Store!vars) <=> [Blanks!Next]_(Blanks!vars)
      /\ B!Store!StockIsBooked <=> Blanks!StockIsBooked
      /\ B!Store!WaitingIsCovered <=> Blanks!WaitingIsCovered
  BY DEF B!Store!AllOps, Blanks!AllOps, B!Store!SupplyAssumption, Blanks!SupplyAssumption,
         B!Store!vars, Blanks!vars, B!Store!ItemStatus, Blanks!ItemStatus, B!Store!POStatus,
         Blanks!POStatus, B!Store!Pieces, Blanks!Pieces, B!Store!Idle, Blanks!Idle,
         B!Store!NoStock, Blanks!NoStock, B!Store!NoItem, Blanks!NoItem, B!Store!NoPO,
         Blanks!NoPO, B!Store!Init, Blanks!Init, B!Store!Known, Blanks!Known, B!Store!Start,
         Blanks!Start, B!Store!Finish, Blanks!Finish, B!Store!Insertable, Blanks!Insertable,
         B!Store!Saved, Blanks!Saved, B!Store!More, Blanks!More, B!Store!StockLoad,
         Blanks!StockLoad, B!Store!Count, Blanks!Count, B!Store!Receive, Blanks!Receive,
         B!Store!AddItems, Blanks!AddItems, B!Store!ItemLoad, Blanks!ItemLoad,
         B!Store!ChangeItem, Blanks!ChangeItem, B!Store!DeleteItem, Blanks!DeleteItem,
         B!Store!CreatePO, Blanks!CreatePO, B!Store!POLoad, Blanks!POLoad, B!Store!EditPO,
         Blanks!EditPO, B!Store!POSet, Blanks!POSet, B!Store!POBook, Blanks!POBook,
         B!Store!POReceived, Blanks!POReceived, B!Store!Short, Blanks!Short,
         B!Store!GenerateLoad, Blanks!GenerateLoad, B!Store!Generate, Blanks!Generate,
         B!Store!Abort, Blanks!Abort, B!Store!Next, Blanks!Next, B!Store!StockIsBooked,
         Blanks!StockIsBooked, B!Store!WaitingIsCovered, Blanks!WaitingIsCovered,
         B!Store!Cardinality, Blanks!Cardinality, B!Store!IsFiniteSet, Blanks!IsFiniteSet,
         B!Store!Max, Blanks!Max, B!Store!Flushed, Blanks!Flushed, B!Store!SumFunctionOnSet,
         Blanks!SumFunctionOnSet, B!Store!FoldFunctionOnSet, Blanks!FoldFunctionOnSet,
         B!Store!MapThenFoldSet, Blanks!MapThenFoldSet, B!Store!Kinds, Blanks!Kinds,
         B!Store!Unsized, Blanks!Unsized, B!Store!ItemsOf, Blanks!ItemsOf, B!Store!Lines,
         Blanks!Lines, B!Store!Came, Blanks!Came
<1>6. /\ B!Press!PrintShopAssumption <=> OrderDesk!PrintShopAssumption
      /\ B!Press!Init <=> OrderDesk!Init
      /\ [B!Press!Next]_(B!Press!vars) <=> [OrderDesk!Next]_(OrderDesk!vars)
      /\ B!Press!DueCoversRest <=> OrderDesk!DueCoversRest
  BY DEF B!Press!PrintShopAssumption, OrderDesk!PrintShopAssumption, B!Press!vars,
         OrderDesk!vars, B!Press!Amounts, OrderDesk!Amounts, B!Press!Idle, OrderDesk!Idle,
         B!Press!OrderStatus, OrderDesk!OrderStatus, B!Press!NoOrder, OrderDesk!NoOrder,
         B!Press!NoInvoice, OrderDesk!NoInvoice, B!Press!Init, OrderDesk!Init,
         B!Press!LoadOrder, OrderDesk!LoadOrder, B!Press!LoadInvoice, OrderDesk!LoadInvoice,
         B!Press!SaveOrder, OrderDesk!SaveOrder, B!Press!SaveInvoice, OrderDesk!SaveInvoice,
         B!Press!Finish, OrderDesk!Finish, B!Press!CreateOrder, OrderDesk!CreateOrder,
         B!Press!UpdateLoad, OrderDesk!UpdateLoad, B!Press!UpdateCommit, OrderDesk!UpdateCommit,
         B!Press!StatusLoad, OrderDesk!StatusLoad, B!Press!StatusCommit, OrderDesk!StatusCommit,
         B!Press!ApproveLoad, OrderDesk!ApproveLoad, B!Press!ApproveCommit,
         OrderDesk!ApproveCommit, B!Press!CompleteLoad, OrderDesk!CompleteLoad,
         B!Press!CustomerLoad, OrderDesk!CustomerLoad, B!Press!CompleteCommit,
         OrderDesk!CompleteCommit, B!Press!InvoiceLoad, OrderDesk!InvoiceLoad,
         B!Press!InvoiceCommit, OrderDesk!InvoiceCommit, B!Press!DepositLoad,
         OrderDesk!DepositLoad, B!Press!DepositCommit, OrderDesk!DepositCommit,
         B!Press!SetStatus, OrderDesk!SetStatus, B!Press!PaymentLoad, OrderDesk!PaymentLoad,
         B!Press!Receive, OrderDesk!Receive, B!Press!PayPart, OrderDesk!PayPart, B!Press!PayAll,
         OrderDesk!PayAll, B!Press!Abort, OrderDesk!Abort, B!Press!Next, OrderDesk!Next,
         B!Press!DueCoversRest, OrderDesk!DueCoversRest, B!Press!Flushed, OrderDesk!Flushed,
         B!Press!Max, OrderDesk!Max
<1>7. (B!Sheets!DaySheetAssumption <=> Reports!DaySheetAssumption) /\ (B!Sheets!Init <=> Reports!Init)
  BY DEF B!Sheets!DaySheetAssumption, Reports!DaySheetAssumption, B!Sheets!IsFiniteSet,
         Reports!IsFiniteSet, B!Sheets!WellBasket, Reports!WellBasket, B!Sheets!WellLine,
         Reports!WellLine, B!Sheets!Init, Reports!Init, B!Sheets!NoSale, Reports!NoSale
<1>8. [B!Sheets!Next]_(B!Sheets!vars) <=> [Reports!Next]_(Reports!vars)
  <2>1. ASSUME NEW s, NEW b, NEW off, NEW m PROVE B!Sheets!Ring(s, b, off, m) <=> Reports!Ring(s, b, off, m)
    BY SameRing
  <2>2. ASSUME NEW s, NEW asked PROVE B!Sheets!Refund(s, asked) <=> Reports!Refund(s, asked)
    BY DEF B!Sheets!Refund, Reports!Refund, B!Sheets!Reversed, Reports!Reversed,
           B!Sheets!ContainedVat, Reports!ContainedVat, B!Sheets!HalfUp, Reports!HalfUp
  <2> QED BY <2>1, <2>2 DEF B!Sheets!Next, Reports!Next, B!Sheets!Tick, Reports!Tick, B!Sheets!vars,
                            Reports!vars
<1>9. B!Sheets!SheetAddsUp <=> Reports!SheetAddsUp
  <2>1. ASSUME NEW d PROVE B!Sheets!FileAddsUp(d) <=> Reports!FileAddsUp(d)
    BY DEF B!Sheets!FileAddsUp, Reports!FileAddsUp, B!Sheets!SumFunctionOnSet,
           Reports!SumFunctionOnSet, B!Sheets!FoldFunctionOnSet, Reports!FoldFunctionOnSet,
           B!Sheets!MapThenFoldSet, Reports!MapThenFoldSet, B!Sheets!NoSale, Reports!NoSale,
           B!Sheets!ShopDay, Reports!ShopDay, B!Sheets!TotalSales, Reports!TotalSales,
           B!Sheets!SumFunction, Reports!SumFunction, B!Sheets!Sheet, Reports!Sheet,
           B!Sheets!Reported, Reports!Reported, B!Sheets!Window, Reports!Window,
           B!Sheets!MethodTotal, Reports!MethodTotal, B!Sheets!RoundingTotal,
           Reports!RoundingTotal, B!Sheets!GiveawayCost, Reports!GiveawayCost, B!Sheets!LinesOf,
           Reports!LinesOf, B!Sheets!Line, Reports!Line, B!Sheets!CsvIncome, Reports!CsvIncome,
           B!Sheets!AtLeast0, Reports!AtLeast0, B!Sheets!Max, Reports!Max, B!Sheets!CsvLine,
           Reports!CsvLine, B!Sheets!CsvExpenses, Reports!CsvExpenses
  <2>2. ASSUME NEW d PROVE B!Sheets!StreamsAddUp(d) <=> Reports!StreamsAddUp(d)
    <3>1. ASSUME NEW r PROVE B!Sheets!VatOf(d, r) = Reports!VatOf(d, r)
      BY DEF B!Sheets!VatOf, Reports!VatOf, B!Sheets!SumFunction, Reports!SumFunction,
             B!Sheets!SumFunctionOnSet, Reports!SumFunctionOnSet, B!Sheets!FoldFunctionOnSet,
             Reports!FoldFunctionOnSet, B!Sheets!MapThenFoldSet, Reports!MapThenFoldSet,
             B!Sheets!Sheet, Reports!Sheet, B!Sheets!Reported, Reports!Reported, B!Sheets!Window,
             Reports!Window, B!Sheets!StreamVat, Reports!StreamVat, B!Sheets!VatIn,
             Reports!VatIn, B!Sheets!ContainedVat, Reports!ContainedVat, B!Sheets!HalfUp,
             Reports!HalfUp, B!Sheets!InStream, Reports!InStream
    <3>2. ASSUME NEW r PROVE B!Sheets!Turnover(d, r) = Reports!Turnover(d, r)
      BY DEF B!Sheets!Turnover, Reports!Turnover, B!Sheets!SumFunction, Reports!SumFunction,
             B!Sheets!SumFunctionOnSet, Reports!SumFunctionOnSet, B!Sheets!FoldFunctionOnSet,
             Reports!FoldFunctionOnSet, B!Sheets!MapThenFoldSet, Reports!MapThenFoldSet,
             B!Sheets!Sheet, Reports!Sheet, B!Sheets!Reported, Reports!Reported, B!Sheets!Window,
             Reports!Window, B!Sheets!StreamTurnover, Reports!StreamTurnover, B!Sheets!HalfUp,
             Reports!HalfUp, B!Sheets!InStream, Reports!InStream
    <3>3. B!Sheets!VatTotal(d) = Reports!VatTotal(d) /\ B!Sheets!TotalSales(d) = Reports!TotalSales(d)
      BY DEF B!Sheets!VatTotal, Reports!VatTotal, B!Sheets!SumFunction, Reports!SumFunction,
             B!Sheets!SumFunctionOnSet, Reports!SumFunctionOnSet, B!Sheets!FoldFunctionOnSet,
             Reports!FoldFunctionOnSet, B!Sheets!MapThenFoldSet, Reports!MapThenFoldSet,
             B!Sheets!Sheet, Reports!Sheet, B!Sheets!Reported, Reports!Reported, B!Sheets!Window,
             Reports!Window, B!Sheets!TotalSales, Reports!TotalSales
    <3>4. B!Sheets!ItemsVat(d, d) = Reports!ItemsVat(d, d)
      BY DEF B!Sheets!ItemsVat, Reports!ItemsVat, B!Sheets!SumFunction, Reports!SumFunction,
             B!Sheets!SumFunctionOnSet, Reports!SumFunctionOnSet, B!Sheets!FoldFunctionOnSet,
             Reports!FoldFunctionOnSet, B!Sheets!MapThenFoldSet, Reports!MapThenFoldSet,
             B!Sheets!ItemsSold, Reports!ItemsSold, B!Sheets!Reported, Reports!Reported,
             B!Sheets!Window, Reports!Window, B!Sheets!SoldOf, Reports!SoldOf, B!Sheets!LinesOf,
             Reports!LinesOf, B!Sheets!Line, Reports!Line
    <3>5. B!Sheets!Cardinality(B!Sheets!Sheet(d)) = Reports!Cardinality(Reports!Sheet(d))
      BY DEF B!Sheets!Cardinality, Reports!Cardinality, B!Sheets!IsFiniteSet,
             Reports!IsFiniteSet, B!Sheets!Sheet, Reports!Sheet, B!Sheets!Reported,
             Reports!Reported, B!Sheets!Window, Reports!Window
    <3>6. ASSUME NEW m, NEW n PROVE B!Sheets!Apart(m, n) = Reports!Apart(m, n)
      BY DEF B!Sheets!Apart, Reports!Apart, B!Sheets!Max, Reports!Max
    <3> QED BY <3>1, <3>2, <3>3, <3>4, <3>5, <3>6 DEF B!Sheets!StreamsAddUp, Reports!StreamsAddUp
  <2>3. ASSUME NEW d PROVE B!Sheets!DepartmentsAddUp(d) <=> Reports!DepartmentsAddUp(d)
    BY DEF B!Sheets!DepartmentsAddUp, Reports!DepartmentsAddUp, B!Sheets!Revenue,
           Reports!Revenue, B!Sheets!SumFunction, Reports!SumFunction, B!Sheets!SumFunctionOnSet,
           Reports!SumFunctionOnSet, B!Sheets!FoldFunctionOnSet, Reports!FoldFunctionOnSet,
           B!Sheets!MapThenFoldSet, Reports!MapThenFoldSet, B!Sheets!Line, Reports!Line,
           B!Sheets!WithCode, Reports!WithCode, B!Sheets!Sheet, Reports!Sheet, B!Sheets!Reported,
           Reports!Reported, B!Sheets!Window, Reports!Window, B!Sheets!SoldOf, Reports!SoldOf,
           B!Sheets!LinesOf, Reports!LinesOf, B!Sheets!DepartmentRevenue,
           Reports!DepartmentRevenue, B!Sheets!DepartmentRows, Reports!DepartmentRows,
           B!Sheets!ItemsSold, Reports!ItemsSold
  <2>4. ASSUME NEW d, NEW e PROVE B!Sheets!PeriodAddsUp(d, e) <=> Reports!PeriodAddsUp(d, e)
    <3>1. ASSUME NEW c PROVE B!Sheets!CategoryDrill(d, e, c) = Reports!CategoryDrill(d, e, c)
      BY DEF B!Sheets!CategoryDrill, Reports!CategoryDrill, B!Sheets!Line, Reports!Line,
             B!Sheets!Revenue, Reports!Revenue, B!Sheets!SumFunction, Reports!SumFunction,
             B!Sheets!SumFunctionOnSet, Reports!SumFunctionOnSet, B!Sheets!FoldFunctionOnSet,
             Reports!FoldFunctionOnSet, B!Sheets!MapThenFoldSet, Reports!MapThenFoldSet,
             B!Sheets!ItemsSold, Reports!ItemsSold, B!Sheets!Reported, Reports!Reported,
             B!Sheets!Window, Reports!Window, B!Sheets!SoldOf, Reports!SoldOf, B!Sheets!LinesOf,
             Reports!LinesOf
    <3>2. ASSUME NEW c PROVE B!Sheets!CategoryRevenue(d, e, c) = Reports!CategoryRevenue(d, e, c)
      BY DEF B!Sheets!CategoryRevenue, Reports!CategoryRevenue, B!Sheets!Line, Reports!Line,
             B!Sheets!Revenue, Reports!Revenue, B!Sheets!SumFunction, Reports!SumFunction,
             B!Sheets!SumFunctionOnSet, Reports!SumFunctionOnSet, B!Sheets!FoldFunctionOnSet,
             Reports!FoldFunctionOnSet, B!Sheets!MapThenFoldSet, Reports!MapThenFoldSet,
             B!Sheets!ItemsSold, Reports!ItemsSold, B!Sheets!Reported, Reports!Reported,
             B!Sheets!Window, Reports!Window, B!Sheets!SoldOf, Reports!SoldOf, B!Sheets!LinesOf,
             Reports!LinesOf, B!Sheets!CategoryOf, Reports!CategoryOf
    <3>3. ASSUME NEW c PROVE B!Sheets!SumFunction([p \in {q \in DOMAIN Shelved : Shelved[q] = c} |-> B!Sheets!ProductDrill(d, e, p)]) =
                Reports!SumFunction([p \in {q \in DOMAIN Shelved : Shelved[q] = c} |-> Reports!ProductDrill(d, e, p)])
      BY DEF B!Sheets!SumFunction, Reports!SumFunction, B!Sheets!SumFunctionOnSet,
             Reports!SumFunctionOnSet, B!Sheets!FoldFunctionOnSet, Reports!FoldFunctionOnSet,
             B!Sheets!MapThenFoldSet, Reports!MapThenFoldSet, B!Sheets!ProductDrill,
             Reports!ProductDrill, B!Sheets!Line, Reports!Line, B!Sheets!Revenue,
             Reports!Revenue, B!Sheets!ItemsSold, Reports!ItemsSold, B!Sheets!Reported,
             Reports!Reported, B!Sheets!Window, Reports!Window, B!Sheets!SoldOf, Reports!SoldOf,
             B!Sheets!LinesOf, Reports!LinesOf
    <3>4. B!Sheets!Revenue(B!Sheets!ItemsSold(d, e)) = Reports!Revenue(Reports!ItemsSold(d, e))
      BY DEF B!Sheets!Revenue, Reports!Revenue, B!Sheets!SumFunction, Reports!SumFunction,
             B!Sheets!SumFunctionOnSet, Reports!SumFunctionOnSet, B!Sheets!FoldFunctionOnSet,
             Reports!FoldFunctionOnSet, B!Sheets!MapThenFoldSet, Reports!MapThenFoldSet,
             B!Sheets!Line, Reports!Line, B!Sheets!ItemsSold, Reports!ItemsSold,
             B!Sheets!Reported, Reports!Reported, B!Sheets!Window, Reports!Window,
             B!Sheets!SoldOf, Reports!SoldOf, B!Sheets!LinesOf, Reports!LinesOf
    <3>5. B!Sheets!SumFunction([f \in d .. e |-> B!Sheets!Revenue(B!Sheets!ItemsSold(f, f))]) =
            Reports!SumFunction([f \in d .. e |-> Reports!Revenue(Reports!ItemsSold(f, f))])
      BY DEF B!Sheets!SumFunction, Reports!SumFunction, B!Sheets!SumFunctionOnSet,
             Reports!SumFunctionOnSet, B!Sheets!FoldFunctionOnSet, Reports!FoldFunctionOnSet,
             B!Sheets!MapThenFoldSet, Reports!MapThenFoldSet, B!Sheets!Revenue, Reports!Revenue,
             B!Sheets!Line, Reports!Line, B!Sheets!ItemsSold, Reports!ItemsSold,
             B!Sheets!Reported, Reports!Reported, B!Sheets!Window, Reports!Window,
             B!Sheets!SoldOf, Reports!SoldOf, B!Sheets!LinesOf, Reports!LinesOf
    <3> QED BY <3>1, <3>2, <3>3, <3>4, <3>5 DEF B!Sheets!PeriodAddsUp, Reports!PeriodAddsUp
  <2>5. /\ B!Sheets!Days = Reports!Days /\ B!Sheets!ShopDay(2) = Reports!ShopDay(2)
        /\ \A d : B!Sheets!Sheet(d) = Reports!Sheet(d)
    BY DEF B!Sheets!Days, Reports!Days, B!Sheets!ShopDay, Reports!ShopDay, B!Sheets!Sheet,
           Reports!Sheet, B!Sheets!Reported, Reports!Reported, B!Sheets!Window, Reports!Window
  <2> QED BY <2>1, <2>2, <2>3, <2>4, <2>5 DEF B!Sheets!SheetAddsUp, Reports!SheetAddsUp
<1> QED BY <1>1, <1>2, <1>3, <1>4, <1>5, <1>6, <1>7, <1>8, <1>9

LEMMA SameBStocktake ==
    /\ BStocktake!Store!SupplyAssumption <=> Stocktake!SupplyAssumption
    /\ BStocktake!Store!Init <=> Stocktake!Init
    /\ [BStocktake!Store!Next]_(BStocktake!Store!vars) <=> [Stocktake!Next]_(Stocktake!vars)
    /\ BStocktake!Store!StockIsBooked <=> Stocktake!StockIsBooked
    /\ BStocktake!Store!WaitingIsCovered <=> Stocktake!WaitingIsCovered
BY DEF BStocktake!Store!AllOps, Stocktake!AllOps, BStocktake!Store!SupplyAssumption,
       Stocktake!SupplyAssumption, BStocktake!Store!vars, Stocktake!vars,
       BStocktake!Store!ItemStatus, Stocktake!ItemStatus, BStocktake!Store!POStatus,
       Stocktake!POStatus, BStocktake!Store!Pieces, Stocktake!Pieces, BStocktake!Store!Idle,
       Stocktake!Idle, BStocktake!Store!NoStock, Stocktake!NoStock, BStocktake!Store!NoItem,
       Stocktake!NoItem, BStocktake!Store!NoPO, Stocktake!NoPO, BStocktake!Store!Init,
       Stocktake!Init, BStocktake!Store!Known, Stocktake!Known, BStocktake!Store!Start,
       Stocktake!Start, BStocktake!Store!Finish, Stocktake!Finish, BStocktake!Store!Insertable,
       Stocktake!Insertable, BStocktake!Store!Saved, Stocktake!Saved, BStocktake!Store!More,
       Stocktake!More, BStocktake!Store!StockLoad, Stocktake!StockLoad, BStocktake!Store!Count,
       Stocktake!Count, BStocktake!Store!Receive, Stocktake!Receive, BStocktake!Store!AddItems,
       Stocktake!AddItems, BStocktake!Store!ItemLoad, Stocktake!ItemLoad,
       BStocktake!Store!ChangeItem, Stocktake!ChangeItem, BStocktake!Store!DeleteItem,
       Stocktake!DeleteItem, BStocktake!Store!CreatePO, Stocktake!CreatePO,
       BStocktake!Store!POLoad, Stocktake!POLoad, BStocktake!Store!EditPO, Stocktake!EditPO,
       BStocktake!Store!POSet, Stocktake!POSet, BStocktake!Store!POBook, Stocktake!POBook,
       BStocktake!Store!POReceived, Stocktake!POReceived, BStocktake!Store!Short,
       Stocktake!Short, BStocktake!Store!GenerateLoad, Stocktake!GenerateLoad,
       BStocktake!Store!Generate, Stocktake!Generate, BStocktake!Store!Abort, Stocktake!Abort,
       BStocktake!Store!Next, Stocktake!Next, BStocktake!Store!StockIsBooked,
       Stocktake!StockIsBooked, BStocktake!Store!WaitingIsCovered, Stocktake!WaitingIsCovered,
       BStocktake!Store!Cardinality, Stocktake!Cardinality, BStocktake!Store!IsFiniteSet,
       Stocktake!IsFiniteSet, BStocktake!Store!Max, Stocktake!Max, BStocktake!Store!Flushed,
       Stocktake!Flushed, BStocktake!Store!SumFunctionOnSet, Stocktake!SumFunctionOnSet,
       BStocktake!Store!FoldFunctionOnSet, Stocktake!FoldFunctionOnSet,
       BStocktake!Store!MapThenFoldSet, Stocktake!MapThenFoldSet, BStocktake!Store!Kinds,
       Stocktake!Kinds, BStocktake!Store!Unsized, Stocktake!Unsized, BStocktake!Store!ItemsOf,
       Stocktake!ItemsOf, BStocktake!Store!Lines, Stocktake!Lines, BStocktake!Store!Came,
       Stocktake!Came

LEMMA SameBRace ==
    /\ BRace!Wages!PayrollAssumption <=> PayRace!PayrollAssumption
    /\ BRace!Wages!Init <=> PayRace!Init
    /\ [BRace!Wages!Next]_(BRace!Wages!vars) <=> [PayRace!Next]_(PayRace!vars)
    /\ BRace!Wages!TotalsWithinPayslips <=> PayRace!TotalsWithinPayslips
    /\ BRace!Wages!PaidIsOnPayslip <=> PayRace!PaidIsOnPayslip
    /\ BRace!Club!MembersAssumption <=> ClubRace!MembersAssumption
    /\ BRace!Club!Init <=> ClubRace!Init
    /\ [BRace!Club!Next]_(BRace!Club!vars) <=> [ClubRace!Next]_(ClubRace!vars)
    /\ BRace!Club!NeverBelowZero <=> ClubRace!NeverBelowZero
    /\ BRace!Till!CartAssumption <=> TillRace!CartAssumption
    /\ BRace!Till!Init <=> TillRace!Init
    /\ [BRace!Till!Next]_(BRace!Till!vars) <=> [TillRace!Next]_(TillRace!vars)
    /\ BRace!Till!NeverOvercharged <=> TillRace!NeverOvercharged
    /\ BRace!Cards!TerminalAssumption <=> Cards!TerminalAssumption
    /\ BRace!Cards!Init <=> Cards!Init
    /\ [BRace!Cards!Next]_(BRace!Cards!vars) <=> [Cards!Next]_(Cards!vars)
    /\ BRace!Cards!PaidOnce <=> Cards!PaidOnce
    /\ BRace!Door!ReceivingAssumption <=> BackDoors!ReceivingAssumption
    /\ BRace!Door!Init <=> BackDoors!Init
    /\ [BRace!Door!Next]_(BRace!Door!vars) <=> [BackDoors!Next]_(BackDoors!vars)
    /\ BRace!Door!NeverUncounted <=> BackDoors!NeverUncounted
    /\ BRace!Store!SupplyAssumption <=> Deliveries!SupplyAssumption
    /\ BRace!Store!Init <=> Deliveries!Init
    /\ [BRace!Store!Next]_(BRace!Store!vars) <=> [Deliveries!Next]_(Deliveries!vars)
    /\ BRace!Store!NeverOverstocked <=> Deliveries!NeverOverstocked
<1>1. /\ BRace!Wages!PayrollAssumption <=> PayRace!PayrollAssumption
      /\ BRace!Wages!Init <=> PayRace!Init
      /\ [BRace!Wages!Next]_(BRace!Wages!vars) <=> [PayRace!Next]_(PayRace!vars)
      /\ BRace!Wages!TotalsWithinPayslips <=> PayRace!TotalsWithinPayslips
      /\ BRace!Wages!PaidIsOnPayslip <=> PayRace!PaidIsOnPayslip
  BY DEF BRace!Wages!PayrollAssumption, PayRace!PayrollAssumption, BRace!Wages!vars, PayRace!vars,
         BRace!Wages!Hours, PayRace!Hours, BRace!Wages!Idle, PayRace!Idle, BRace!Wages!NoEntry,
         PayRace!NoEntry, BRace!Wages!NoRun, PayRace!NoRun, BRace!Wages!Init, PayRace!Init,
         BRace!Wages!Stored, PayRace!Stored, BRace!Wages!LoadEntry, PayRace!LoadEntry,
         BRace!Wages!CommitEntry, PayRace!CommitEntry, BRace!Wages!LoadRun, PayRace!LoadRun,
         BRace!Wages!CommitRun, PayRace!CommitRun, BRace!Wages!CreateLoad, PayRace!CreateLoad,
         BRace!Wages!CreateCommit, PayRace!CreateCommit, BRace!Wages!UpdateLoad,
         PayRace!UpdateLoad, BRace!Wages!UpdateCommit, PayRace!UpdateCommit,
         BRace!Wages!DeleteLoad, PayRace!DeleteLoad, BRace!Wages!DeleteCommit,
         PayRace!DeleteCommit, BRace!Wages!SubmitLoad, PayRace!SubmitLoad,
         BRace!Wages!SubmitCommit, PayRace!SubmitCommit, BRace!Wages!DecideLoad,
         PayRace!DecideLoad, BRace!Wages!DecideCommit, PayRace!DecideCommit,
         BRace!Wages!CreateRunLoad, PayRace!CreateRunLoad, BRace!Wages!CreateRunCommit,
         PayRace!CreateRunCommit, BRace!Wages!CalcLoad, PayRace!CalcLoad, BRace!Wages!CalcBegin,
         PayRace!CalcBegin, BRace!Wages!ApprovedOf, PayRace!ApprovedOf, BRace!Wages!SlipLoad,
         PayRace!SlipLoad, BRace!Wages!Looping, PayRace!Looping, BRace!Wages!SlipCommit,
         PayRace!SlipCommit, BRace!Wages!SlipError, PayRace!SlipError, BRace!Wages!CalcCommit,
         PayRace!CalcCommit, BRace!Wages!ApproveRunLoad, PayRace!ApproveRunLoad,
         BRace!Wages!ApproveRunCommit, PayRace!ApproveRunCommit, BRace!Wages!MarkPaidLoad,
         PayRace!MarkPaidLoad, BRace!Wages!MarkPaidCommit, PayRace!MarkPaidCommit,
         BRace!Wages!Abort, PayRace!Abort, BRace!Wages!Next, PayRace!Next, BRace!Wages!Gross,
         PayRace!Gross, BRace!Wages!TotalsWithinPayslips, PayRace!TotalsWithinPayslips,
         BRace!Wages!PaidIsOnPayslip, PayRace!PaidIsOnPayslip, BRace!Wages!Cardinality,
         PayRace!Cardinality, BRace!Wages!IsFiniteSet, PayRace!IsFiniteSet, BRace!Wages!Flushed,
         PayRace!Flushed, BRace!Wages!SumFunctionOnSet, PayRace!SumFunctionOnSet,
         BRace!Wages!FoldFunctionOnSet, PayRace!FoldFunctionOnSet, BRace!Wages!MapThenFoldSet,
         PayRace!MapThenFoldSet
<1>2. /\ BRace!Club!MembersAssumption <=> ClubRace!MembersAssumption
      /\ BRace!Club!Init <=> ClubRace!Init
      /\ [BRace!Club!Next]_(BRace!Club!vars) <=> [ClubRace!Next]_(ClubRace!vars)
      /\ BRace!Club!NeverBelowZero <=> ClubRace!NeverBelowZero
  BY DEF BRace!Club!MembersAssumption, ClubRace!MembersAssumption, BRace!Club!vars, ClubRace!vars,
         BRace!Club!Idle, ClubRace!Idle, BRace!Club!NoMember, ClubRace!NoMember,
         BRace!Club!NoRows, ClubRace!NoRows, BRace!Club!Init, ClubRace!Init, BRace!Club!Known,
         ClubRace!Known, BRace!Club!Logged, ClubRace!Logged, BRace!Club!Paid, ClubRace!Paid,
         BRace!Club!Enrol, ClubRace!Enrol, BRace!Club!ReferLoad, ClubRace!ReferLoad,
         BRace!Club!ReferCommit, ClubRace!ReferCommit, BRace!Club!Load, ClubRace!Load,
         BRace!Club!Save, ClubRace!Save, BRace!Club!Update, ClubRace!Update, BRace!Club!SetState,
         ClubRace!SetState, BRace!Club!Adjust, ClubRace!Adjust, BRace!Club!Abort, ClubRace!Abort,
         BRace!Club!Next, ClubRace!Next, BRace!Club!NeverBelowZero, ClubRace!NeverBelowZero,
         BRace!Club!Cardinality, ClubRace!Cardinality, BRace!Club!IsFiniteSet,
         ClubRace!IsFiniteSet, BRace!Club!Flushed, ClubRace!Flushed
<1>3. /\ BRace!Till!CartAssumption <=> TillRace!CartAssumption
      /\ BRace!Till!Init <=> TillRace!Init
      /\ [BRace!Till!Next]_(BRace!Till!vars) <=> [TillRace!Next]_(TillRace!vars)
      /\ BRace!Till!NeverOvercharged <=> TillRace!NeverOvercharged
  BY DEF BRace!Till!CartAssumption, TillRace!CartAssumption, BRace!Till!vars, TillRace!vars,
         BRace!Till!Idle, TillRace!Idle, BRace!Till!Init, TillRace!Init, BRace!Till!Half,
         TillRace!Half, BRace!Till!GrossOf, TillRace!GrossOf, BRace!Till!Open, TillRace!Open,
         BRace!Till!Saw, TillRace!Saw, BRace!Till!Goto, TillRace!Goto, BRace!Till!ItemLoad,
         TillRace!ItemLoad, BRace!Till!ItemCommit, TillRace!ItemCommit, BRace!Till!PayLoad,
         TillRace!PayLoad, BRace!Till!WalkIn, TillRace!WalkIn, BRace!Till!Attach,
         TillRace!Attach, BRace!Till!Cleared, TillRace!Cleared, BRace!Till!Refused,
         TillRace!Refused, BRace!Till!Counter, TillRace!Counter, BRace!Till!PayCommit,
         TillRace!PayCommit, BRace!Till!ReapLoad, TillRace!ReapLoad, BRace!Till!ReapCommit,
         TillRace!ReapCommit, BRace!Till!Abort, TillRace!Abort, BRace!Till!Grounds,
         TillRace!Grounds, BRace!Till!Next, TillRace!Next, BRace!Till!NeverOvercharged,
         TillRace!NeverOvercharged, BRace!Till!Cardinality, TillRace!Cardinality,
         BRace!Till!IsFiniteSet, TillRace!IsFiniteSet, BRace!Till!Max, TillRace!Max,
         BRace!Till!Flushed, TillRace!Flushed, BRace!Till!SumFunctionOnSet,
         TillRace!SumFunctionOnSet, BRace!Till!FoldFunctionOnSet, TillRace!FoldFunctionOnSet,
         BRace!Till!MapThenFoldSet, TillRace!MapThenFoldSet, BRace!Till!Classes,
         TillRace!Classes, BRace!Till!Gated, TillRace!Gated, BRace!Till!Eligible,
         TillRace!Eligible, BRace!Till!NetOf, TillRace!NetOf, BRace!Till!Payable,
         TillRace!Payable
<1>4. /\ BRace!Cards!TerminalAssumption <=> Cards!TerminalAssumption
      /\ BRace!Cards!Init <=> Cards!Init
      /\ [BRace!Cards!Next]_(BRace!Cards!vars) <=> [Cards!Next]_(Cards!vars)
      /\ BRace!Cards!PaidOnce <=> Cards!PaidOnce
  BY DEF BRace!Cards!TerminalAssumption, Cards!TerminalAssumption, BRace!Cards!vars, Cards!vars,
         BRace!Cards!Idle, Cards!Idle, BRace!Cards!Init, Cards!Init, BRace!Cards!Rows, Cards!Rows,
         BRace!Cards!Leave, Cards!Leave, BRace!Cards!Post, Cards!Post, BRace!Cards!Lookup,
         Cards!Lookup, BRace!Cards!Holding, Cards!Holding, BRace!Cards!Clash, Cards!Clash,
         BRace!Cards!Insert, Cards!Insert, BRace!Cards!Charge, Cards!Charge, BRace!Cards!TimeOut,
         Cards!TimeOut, BRace!Cards!Complete, Cards!Complete, BRace!Cards!Decline, Cards!Decline,
         BRace!Cards!Cut, Cards!Cut, BRace!Cards!Next, Cards!Next, BRace!Cards!Approved,
         Cards!Approved, BRace!Cards!PaidOnce, Cards!PaidOnce, BRace!Cards!Cardinality,
         Cards!Cardinality, BRace!Cards!IsFiniteSet, Cards!IsFiniteSet
<1>5. /\ BRace!Door!ReceivingAssumption <=> BackDoors!ReceivingAssumption
      /\ BRace!Door!Init <=> BackDoors!Init
      /\ [BRace!Door!Next]_(BRace!Door!vars) <=> [BackDoors!Next]_(BackDoors!vars)
      /\ BRace!Door!NeverUncounted <=> BackDoors!NeverUncounted
  BY DEF BRace!Door!ReceivingAssumption, BackDoors!ReceivingAssumption, BRace!Door!vars,
         BackDoors!vars, BRace!Door!Idle, BackDoors!Idle, BRace!Door!Init, BackDoors!Init,
         BRace!Door!Resolve, BackDoors!Resolve, BRace!Door!Coming, BackDoors!Coming,
         BRace!Door!Commit, BackDoors!Commit, BRace!Door!Abort, BackDoors!Abort, BRace!Door!Next,
         BackDoors!Next, BRace!Door!NeverUncounted, BackDoors!NeverUncounted,
         BRace!Door!SumFunctionOnSet, BackDoors!SumFunctionOnSet, BRace!Door!FoldFunctionOnSet,
         BackDoors!FoldFunctionOnSet, BRace!Door!MapThenFoldSet, BackDoors!MapThenFoldSet
<1>6. /\ BRace!Store!SupplyAssumption <=> Deliveries!SupplyAssumption
      /\ BRace!Store!Init <=> Deliveries!Init
      /\ [BRace!Store!Next]_(BRace!Store!vars) <=> [Deliveries!Next]_(Deliveries!vars)
      /\ BRace!Store!NeverOverstocked <=> Deliveries!NeverOverstocked
  BY DEF BRace!Store!AllOps, Deliveries!AllOps, BRace!Store!SupplyAssumption,
         Deliveries!SupplyAssumption, BRace!Store!vars, Deliveries!vars, BRace!Store!ItemStatus,
         Deliveries!ItemStatus, BRace!Store!POStatus, Deliveries!POStatus, BRace!Store!Pieces,
         Deliveries!Pieces, BRace!Store!Idle, Deliveries!Idle, BRace!Store!NoStock,
         Deliveries!NoStock, BRace!Store!NoItem, Deliveries!NoItem, BRace!Store!NoPO,
         Deliveries!NoPO, BRace!Store!Init, Deliveries!Init, BRace!Store!Known,
         Deliveries!Known, BRace!Store!Start, Deliveries!Start, BRace!Store!Finish,
         Deliveries!Finish, BRace!Store!Insertable, Deliveries!Insertable, BRace!Store!Saved,
         Deliveries!Saved, BRace!Store!More, Deliveries!More, BRace!Store!StockLoad,
         Deliveries!StockLoad, BRace!Store!Count, Deliveries!Count, BRace!Store!Receive,
         Deliveries!Receive, BRace!Store!AddItems, Deliveries!AddItems, BRace!Store!ItemLoad,
         Deliveries!ItemLoad, BRace!Store!ChangeItem, Deliveries!ChangeItem,
         BRace!Store!DeleteItem, Deliveries!DeleteItem, BRace!Store!CreatePO,
         Deliveries!CreatePO, BRace!Store!POLoad, Deliveries!POLoad, BRace!Store!EditPO,
         Deliveries!EditPO, BRace!Store!POSet, Deliveries!POSet, BRace!Store!POBook,
         Deliveries!POBook, BRace!Store!POReceived, Deliveries!POReceived, BRace!Store!Short,
         Deliveries!Short, BRace!Store!GenerateLoad, Deliveries!GenerateLoad,
         BRace!Store!Generate, Deliveries!Generate, BRace!Store!Abort, Deliveries!Abort,
         BRace!Store!Next, Deliveries!Next, BRace!Store!NeverOverstocked,
         Deliveries!NeverOverstocked, BRace!Store!Cardinality, Deliveries!Cardinality,
         BRace!Store!IsFiniteSet, Deliveries!IsFiniteSet, BRace!Store!Max, Deliveries!Max,
         BRace!Store!Flushed, Deliveries!Flushed, BRace!Store!Kinds, Deliveries!Kinds,
         BRace!Store!Unsized, Deliveries!Unsized, BRace!Store!ItemsOf, Deliveries!ItemsOf,
         BRace!Store!Lines, Deliveries!Lines, BRace!Store!Came, Deliveries!Came
<1> QED BY <1>1, <1>2, <1>3, <1>4, <1>5, <1>6
-----------------------------------------------------------------------------
(* What holds of each desk, which each property of Desks follows from. *)
DeskInv ==
    /\ desk = "Board" => P!TriageInv
    /\ desk = "Labels" => P!LabelsInv
    /\ desk = "Parts" => P!SoloInv
    /\ desk = "Resources" => P!CalendarInv
    /\ desk = "Register" => P!ShiftsInv
    /\ desk = "Staff" => P!StaffSoloInv
    /\ desk = "Quoting" => PCalendar!SoloInv
    /\ desk = "Calendar" => PCalendar!CalendarInv
    /\ desk = "JobRace" => PRace!JobInv
    /\ desk = "RegisterRace" => PRace!ShiftsInv
    /\ desk = "StaffRace" => PRace!SettledInv
    /\ desk = "PaySerial" => B!WagesSoloInv
    /\ desk = "Club" => B!BookedInv
    /\ desk = "Till" => B!FilledInv
    /\ desk = "BackDoor" => B!CountedInv
    /\ desk = "Blanks" => B!OneStore
    /\ desk = "OrderDesk" => B!PressInv
    /\ desk = "Reports" => B!SheetInv
    /\ desk = "Stocktake" => BStocktake!OneStore
    /\ desk = "PayRace" => BRace!WagesInv
    /\ desk = "ClubRace" => BRace!ClubInv
    /\ desk = "TillRace" => BRace!TillInv
    /\ desk = "Cards" => BRace!TakenInv
    /\ desk = "BackDoors" => BRace!DoorInv
    /\ desk = "Deliveries" => BRace!LessHeld

LEMMA DeskBegins ==
    ASSUME Init
    PROVE  /\ desk = "Board" => Board!Init
           /\ desk = "Labels" => Labels!Init
           /\ desk = "Parts" => Parts!Init
           /\ desk = "Resources" => Resources!Init
           /\ desk = "Register" => Register!Init
           /\ desk = "Staff" => Staff!Init
           /\ desk = "Quoting" => Quoting!Init
           /\ desk = "Calendar" => Calendar!Init
           /\ desk = "JobRace" => JobRace!Init
           /\ desk = "RegisterRace" => RegisterRace!Init
           /\ desk = "StaffRace" => StaffRace!Init
           /\ desk = "PaySerial" => PaySerial!Init
           /\ desk = "Club" => Club!Init
           /\ desk = "Till" => Till!Init
           /\ desk = "BackDoor" => BackDoor!Init
           /\ desk = "Blanks" => Blanks!Init
           /\ desk = "OrderDesk" => OrderDesk!Init
           /\ desk = "Reports" => Reports!Init
           /\ desk = "Stocktake" => Stocktake!Init
           /\ desk = "PayRace" => PayRace!Init
           /\ desk = "ClubRace" => ClubRace!Init
           /\ desk = "TillRace" => TillRace!Init
           /\ desk = "Cards" => Cards!Init
           /\ desk = "BackDoors" => BackDoors!Init
           /\ desk = "Deliveries" => Deliveries!Init
BY DEF Init

LEMMA DeskSteps ==
    ASSUME [Next]_vars
    PROVE  /\ desk' = desk
           /\ desk = "Board" => [Board!Next]_(Board!vars)
           /\ desk = "Labels" => [Labels!Next]_(Labels!vars)
           /\ desk = "Parts" => [Parts!Next]_(Parts!vars)
           /\ desk = "Resources" => [Resources!Next]_(Resources!vars)
           /\ desk = "Register" => [Register!Next]_(Register!vars)
           /\ desk = "Staff" => [Staff!Next]_(Staff!vars)
           /\ desk = "Quoting" => [Quoting!Next]_(Quoting!vars)
           /\ desk = "Calendar" => [Calendar!Next]_(Calendar!vars)
           /\ desk = "JobRace" => [JobRace!Next]_(JobRace!vars)
           /\ desk = "RegisterRace" => [RegisterRace!Next]_(RegisterRace!vars)
           /\ desk = "StaffRace" => [StaffRace!Next]_(StaffRace!vars)
           /\ desk = "PaySerial" => [PaySerial!Next]_(PaySerial!vars)
           /\ desk = "Club" => [Club!Next]_(Club!vars)
           /\ desk = "Till" => [Till!Next]_(Till!vars)
           /\ desk = "BackDoor" => [BackDoor!Next]_(BackDoor!vars)
           /\ desk = "Blanks" => [Blanks!Next]_(Blanks!vars)
           /\ desk = "OrderDesk" => [OrderDesk!Next]_(OrderDesk!vars)
           /\ desk = "Reports" => [Reports!Next]_(Reports!vars)
           /\ desk = "Stocktake" => [Stocktake!Next]_(Stocktake!vars)
           /\ desk = "PayRace" => [PayRace!Next]_(PayRace!vars)
           /\ desk = "ClubRace" => [ClubRace!Next]_(ClubRace!vars)
           /\ desk = "TillRace" => [TillRace!Next]_(TillRace!vars)
           /\ desk = "Cards" => [Cards!Next]_(Cards!vars)
           /\ desk = "BackDoors" => [BackDoors!Next]_(BackDoors!vars)
           /\ desk = "Deliveries" => [Deliveries!Next]_(Deliveries!vars)
BY DEF Next, PayNext, OrderNext, JobNext, CalendarNext, ClubNext, TillNext, BoardNext,
       CounterNext, LabelsNext, DoorNext, StoreNext, ShiftNext, StaffNext, OfficeNext, CardNext,
       vars, pay, orders, floor, calendar, till, board, labels, stores, people, slips, Board!vars,
       Labels!vars, Parts!vars, Resources!vars, Register!vars, Staff!vars, Quoting!vars,
       Calendar!vars, JobRace!vars, RegisterRace!vars, StaffRace!vars, PaySerial!vars, Club!vars,
       Till!vars, BackDoor!vars, Blanks!vars, Stocktake!vars, PayRace!vars, ClubRace!vars,
       TillRace!vars, Cards!vars, BackDoors!vars, Deliveries!vars, OrderDesk!vars, Reports!vars, sheets

LEMMA DeskInvBegins == ASSUME Init PROVE DeskInv
<1> USE DeskBegins, InstancesAssumption
<1>1. /\ desk = "Board" => P!TriageInv
      /\ desk = "Labels" => P!LabelsInv
      /\ desk = "Parts" => P!SoloInv
      /\ desk = "Resources" => P!CalendarInv
      /\ desk = "Register" => P!ShiftsInv
      /\ desk = "Staff" => P!StaffSoloInv
  BY SameP, P!InvsBegin
<1>2. /\ desk = "Quoting" => PCalendar!SoloInv
      /\ desk = "Calendar" => PCalendar!CalendarInv
  BY SamePCalendar, PCalendar!InvsBegin
<1>3. /\ desk = "JobRace" => PRace!JobInv
      /\ desk = "RegisterRace" => PRace!ShiftsInv
      /\ desk = "StaffRace" => PRace!SettledInv
  BY SamePRace, PRace!InvsBegin
<1>4. /\ desk = "PaySerial" => B!WagesSoloInv
      /\ desk = "Club" => B!BookedInv
      /\ desk = "Till" => B!FilledInv
      /\ desk = "BackDoor" => B!CountedInv
      /\ desk = "Blanks" => B!OneStore
      /\ desk = "OrderDesk" => B!PressInv
      /\ desk = "Reports" => B!SheetInv
  BY SameB, B!InvsBegin
<1>5. /\ desk = "Stocktake" => BStocktake!OneStore
  BY SameBStocktake, BStocktake!InvsBegin
<1>6. /\ desk = "PayRace" => BRace!WagesInv
      /\ desk = "ClubRace" => BRace!ClubInv
      /\ desk = "TillRace" => BRace!TillInv
      /\ desk = "Cards" => BRace!TakenInv
      /\ desk = "BackDoors" => BRace!DoorInv
      /\ desk = "Deliveries" => BRace!LessHeld
  BY SameBRace, BRace!InvsBegin
<1> QED BY <1>1, <1>2, <1>3, <1>4, <1>5, <1>6 DEF DeskInv

LEMMA DeskInvStays ==
    ASSUME DeskInv, [Next]_vars
    PROVE  /\ DeskInv'
           /\ desk = "Labels" => Labels!KeepsScanning
           /\ desk = "Parts" => Parts!ClearedStep
<1> USE DeskSteps, InstancesAssumption, OneRequest DEF DeskInv
<1>1. /\ desk = "Board" => P!TriageInv'
      /\ desk = "Labels" => P!LabelsInv'
      /\ desk = "Parts" => P!SoloInv'
      /\ desk = "Resources" => P!CalendarInv'
      /\ desk = "Register" => P!ShiftsInv'
      /\ desk = "Staff" => P!StaffSoloInv'
      /\ desk = "Labels" => Labels!KeepsScanning
      /\ desk = "Parts" => Parts!ClearedStep
  BY SameP, P!InvsStay
<1>2. /\ desk = "Quoting" => PCalendar!SoloInv'
      /\ desk = "Calendar" => PCalendar!CalendarInv'
  BY SamePCalendar, PCalendar!InvsStay
<1>3. /\ desk = "JobRace" => PRace!JobInv'
      /\ desk = "RegisterRace" => PRace!ShiftsInv'
      /\ desk = "StaffRace" => PRace!SettledInv'
  BY SamePRace, PRace!InvsStay
<1>4. /\ desk = "PaySerial" => B!WagesSoloInv'
      /\ desk = "Club" => B!BookedInv'
      /\ desk = "Till" => B!FilledInv'
      /\ desk = "BackDoor" => B!CountedInv'
      /\ desk = "Blanks" => B!OneStore'
      /\ desk = "OrderDesk" => B!PressInv'
  <2>1. /\ desk = "PaySerial" => B!WagesSoloInv'
        /\ desk = "Club" => B!BookedInv'
        /\ desk = "Till" => B!FilledInv'
    BY SameB, B!InvsStay
  <2>2. /\ desk = "BackDoor" => B!CountedInv'
        /\ desk = "Blanks" => B!OneStore'
        /\ desk = "OrderDesk" => B!PressInv'
    BY SameB, B!InvsStay
  <2> QED BY <2>1, <2>2
<1>5. /\ desk = "Stocktake" => BStocktake!OneStore'
  BY SameBStocktake, BStocktake!InvsStay
<1>6. /\ desk = "PayRace" => BRace!WagesInv'
      /\ desk = "ClubRace" => BRace!ClubInv'
      /\ desk = "TillRace" => BRace!TillInv'
      /\ desk = "Cards" => BRace!TakenInv'
      /\ desk = "BackDoors" => BRace!DoorInv'
      /\ desk = "Deliveries" => BRace!LessHeld'
  BY SameBRace, BRace!InvsStay
<1>7. desk = "Reports" => B!SheetInv'
  BY SameB, B!InvsStay
<1>8. desk' = desk
  OBVIOUS
<1> QED BY ONLY <1>1, <1>2, <1>3, <1>4, <1>5, <1>6, <1>7, <1>8 DEF DeskInv

LEMMA DeskInvShows ==
    ASSUME DeskInv
    PROVE  NeverMore /\ PaidAsAgreed /\ BooksBalance /\ TriagedOnce /\ SoldAsFilled /\ NothingTwice
<1>1. /\ desk = "Board" => Board!TriagedOnce
      /\ desk = "Resources" => Resources!NoDoubleBooking
      /\ desk = "Register" => Register!OnShiftOnce
      /\ desk = "Staff" => Staff!SalesOnOneRow /\ Staff!ActsForLinked
      /\ desk = "Quoting" => Quoting!DepositAsAgreed
      /\ desk = "Calendar" => Calendar!NoDoubleBooking
      /\ desk = "JobRace" => JobRace!NeverOverstated
      /\ desk = "RegisterRace" => RegisterRace!OnShiftPerStart
      /\ desk = "StaffRace" => StaffRace!SettledStay
  BY InstancesAssumption, OneRequest, SameP, SamePCalendar, SamePRace, P!InvsShow,
     PCalendar!InvsShow, PRace!InvsShow DEF DeskInv
<1>2. /\ desk = "PaySerial" => PaySerial!PaidAsSigned /\ PaySerial!PaidOnce
      /\ desk = "Club" => Club!LedgerIsBalance
      /\ desk = "Till" => Till!SoldAsFilled
      /\ desk = "BackDoor" => BackDoor!StockIsMoves
      /\ desk = "Blanks" => Blanks!StockIsBooked /\ Blanks!WaitingIsCovered
      /\ desk = "OrderDesk" => OrderDesk!DueCoversRest
      /\ desk = "Reports" => Reports!SheetAddsUp
      /\ desk = "Stocktake" => Stocktake!StockIsBooked /\ Stocktake!WaitingIsCovered
  BY InstancesAssumption, SameB, SameBStocktake, B!InvsShow, BStocktake!InvsShow DEF DeskInv
<1>3. /\ desk = "PayRace" => PayRace!TotalsWithinPayslips /\ PayRace!PaidIsOnPayslip
      /\ desk = "ClubRace" => ClubRace!NeverBelowZero
      /\ desk = "TillRace" => TillRace!NeverOvercharged
      /\ desk = "Cards" => Cards!PaidOnce
      /\ desk = "BackDoors" => BackDoors!NeverUncounted
      /\ desk = "Deliveries" => Deliveries!NeverOverstocked
  BY InstancesAssumption, SameBRace, BRace!InvsShow DEF DeskInv
<1> QED BY <1>1, <1>2, <1>3 DEF NeverMore, PaidAsAgreed, BooksBalance, TriagedOnce, SoldAsFilled, NothingTwice

LEMMA Always == Spec => []DeskInv
BY DeskInvBegins, DeskInvStays, PTL DEF Spec
-----------------------------------------------------------------------------
(* However handlers interleave, what is lost is never more than the rows it is a sum of: the
   totals of a payroll run (calculate_all_payslips), deposits and hours of a job
   (record_deposit, log_work), credits of a member (add_credits), the price of a cart, of
   what its lines cost without their deals and less than a coin (add_item_to_transaction,
   checkout_transaction), stock that is counted and received (bulk_update_stock, receive_stock,
   update_po_status) and sessions that start (start_shift_session). *)
THEOREM NeverMoreHolds == Spec => []NeverMore
BY DeskInvShows, Always, PTL

(* update_time_entry, approve_time_entries and _calculate_employee_payslip, one request at a
   time: payslips pay what managers signed, each paid entry once, over crashes, errors and
   recalculations.  accept_quotation and record_deposit: the deposit a job requires is one that
   was agreed to, and what it shows as paid was handed over.  record_payment and update_invoice:
   an invoice never asks for less than what is missing. *)
THEOREM PaidAsAgreedHolds == Spec => []PaidAsAgreed
BY DeskInvShows, Always, PTL

(* create_customer, update_customer and add_credits, receive_stock, bulk_update_stock,
   update_po_status and generate_po_from_order, one request at a time: balances and stock are
   what their rows add up to, and stock and open purchase orders cover what waits of each
   order, of products that have a code.  refund_transaction, get_daily_summary,
   get_daily_summary_csv and get_product_sales: the sheet of a day adds up to what was kept of
   its sales, in each of its breakdowns. *)
THEOREM BooksBalanceHolds == Spec => []BooksBalance
BY DeskInvShows, Always, PTL

(* triage_pending_feedback, one request at a time: a ticket is never triaged more often than
   it gave reasons to, and none is merged into itself, over crashes, reopenings and notes that
   arrive while the model thinks. *)
THEOREM TriagedOnceHolds == Spec => []TriagedOnce
BY DeskInvShows, Always, PTL

(* add_product_barcode, catalog_merge_products and the other ways a code is bound: a code that
   scans to a product goes on to, or scans to what it was merged into. *)
THEOREM KeepsScanningHolds == Spec => KeepsScanning
BY DeskInvStays, Always, PTL DEF Spec, KeepsScanning

(* update_po_status, one request at a time: parts_on_order goes, other than by hand, only
   when no order of the job is pending, over orders that come back and crashes. *)
THEOREM ClearedHolds == Spec => ClearedWhenNonePending
BY DeskInvStays, Always, PTL DEF Spec, ClearedWhenNonePending

(* add_item_to_transaction, checkout_transaction and reap_stale_open_carts, one request at a
   time: a cart is charged what its lines cost without their deals, less discounts and plus less
   than a coin, is reaped empty, and is sold with a ground for every line of a product that
   needs one. *)
THEOREM SoldAsFilledHolds == Spec => []SoldAsFilled
BY DeskInvShows, Always, PTL

(* create_resource_booking, create_appointment and start_shift_session, one request at a time:
   no day, no slot and no shift has two takers.  _resolve_cashier_uid, get_employee_from_token,
   provision_login: what was sold under a login is on one row and a login acts for the employee
   it is linked to, one request at a time, or two of an account that is not made anew.
   create_sale and _capture_terminal_sim, with two handlers: the money of a basket is taken
   once, but for a handler that is stopped after the approval. *)
THEOREM NothingTwiceHolds == Spec => []NothingTwice
BY DeskInvShows, Always, PTL
=============================================================================
