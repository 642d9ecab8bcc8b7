------------------------------- MODULE Payroll -------------------------------
(***************************************************************************)
(* Time entries and the payroll run of a month (routes/hr_router.py,       *)
(* services/payroll_service.py).  Employees write, change, delete and      *)
(* submit entries, managers approve or reject them, and a run turns what   *)
(* is approved into payslips, one commit for each employee.                *)
(*                                                                         *)
(* One month.  An hour earns one unit, whatever its type; deductions are   *)
(* proportional.  A batch of entries is one entry.  A handler reads in one *)
(* step and commits in another; one that ends early rolls back.            *)
(***************************************************************************)
EXTENDS Integers, FiniteSets, Functions, Rows

CONSTANTS Handlers,   \* requests in flight
          Employees,
          Days,       \* (date, type) pairs of the month
          Entries,    \* bound: rows of time_entries
          Runs,       \* bound: rows of payroll_runs
          MaxHours,   \* bound: hours of an entry
          MaxPaid     \* bound: payslips

(* What the bounds have to satisfy: Desks assumes it of its instances. *)
PayrollAssumption == /\ IsFiniteSet(Entries) /\ Employees # {} /\ Days # {}
                     /\ MaxHours \in Nat \ {0} /\ MaxPaid \in Nat

VARIABLES entry,    \* time_entries
          run,      \* payroll_runs
          payslips, \* payslips, with the entries each one counted
          signed,   \* history: the hours a manager last saw approving an entry
          h         \* the handlers

vars == <<entry, run, payslips, signed, h>>

Hours == 1 .. MaxHours
Idle == [op |-> "none"]
NoEntry == [status |-> "unused", emp |-> CHOOSE e \in Employees : TRUE,
            day |-> CHOOSE d \in Days : TRUE, hours |-> 1]
NoRun == [status |-> "unused", total |-> 0]

Init == /\ entry = [t \in Entries |-> NoEntry]
        /\ run = [r \in Runs |-> NoRun]
        /\ payslips = {}
        /\ signed = [t \in Entries |-> 0]
        /\ h = [p \in Handlers |-> Idle]

Stored == {t \in Entries : entry[t].status \notin {"unused", "deleted"}}

(* A handler reads the entry it is about, one in the given status. *)
LoadEntry(p, op, t, status) ==
    /\ h[p] = Idle
    /\ entry[t].status = status
    /\ h' = [h EXCEPT ![p] = [op |-> op, id |-> t, seen |-> entry[t]]]
    /\ UNCHANGED <<entry, run, payslips, signed>>

CommitEntry(p, op, new) ==
    /\ h[p].op = op
    /\ h[p].id \in Stored
    /\ entry' = [entry EXCEPT ![h[p].id] = Flushed(@, h[p].seen, new)]
    /\ h' = [h EXCEPT ![p] = Idle]
    /\ UNCHANGED <<run, payslips>>

LoadRun(p, op, r, statuses) ==
    /\ h[p] = Idle
    /\ run[r].status \in statuses
    /\ h' = [h EXCEPT ![p] = [op |-> op, id |-> r, seen |-> run[r]]]
    /\ UNCHANGED <<entry, run, payslips, signed>>

CommitRun(p, op, new, next) ==
    /\ h[p].op = op
    /\ run' = [run EXCEPT ![h[p].id] = Flushed(@, h[p].seen, new)]
    /\ h' = [h EXCEPT ![p] = next]
    /\ UNCHANGED <<entry, payslips, signed>>
-----------------------------------------------------------------------------
(* create_time_entry: no entry of that day and type yet. *)
CreateLoad(p, e, d) ==
    /\ h[p] = Idle
    /\ \A t \in Stored : ~(entry[t].emp = e /\ entry[t].day = d)
    /\ h' = [h EXCEPT ![p] = [op |-> "create", emp |-> e, day |-> d]]
    /\ UNCHANGED <<entry, run, payslips, signed>>

CreateCommit(p, t, n) ==
    /\ h[p].op = "create"
    /\ entry[t].status = "unused"
    /\ entry' = [entry EXCEPT ![t] = [status |-> "draft", emp |-> h[p].emp,
                                      day |-> h[p].day, hours |-> n]]
    /\ h' = [h EXCEPT ![p] = Idle]
    /\ UNCHANGED <<run, payslips, signed>>

(* Mutant: whatever the employee may still see can be changed. *)
UpdateLoadAny(p, t) == \E s \in {"draft", "submitted", "approved"} : LoadEntry(p, "update", t, s)

(* update_time_entry: hours or day of a draft; the day is not checked again. *)
UpdateLoad(p, t) == LoadEntry(p, "update", t, "draft")

UpdateCommit(p, d, n) ==
    /\ h[p].op = "update"
    /\ CommitEntry(p, "update", [h[p].seen EXCEPT !.day = d, !.hours = n])
    /\ UNCHANGED signed

(* delete_time_entry: drafts only. *)
DeleteLoad(p, t) == LoadEntry(p, "delete", t, "draft")

DeleteCommit(p) ==
    /\ h[p].op = "delete"
    /\ entry' = [entry EXCEPT ![h[p].id] = [@ EXCEPT !.status = "deleted"]]
    /\ h' = [h EXCEPT ![p] = Idle]
    /\ UNCHANGED <<run, payslips, signed>>

(* submit_time_entries *)
SubmitLoad(p, t) == LoadEntry(p, "submit", t, "draft")

SubmitCommit(p) ==
    /\ h[p].op = "submit"
    /\ CommitEntry(p, "submit", [h[p].seen EXCEPT !.status = "submitted"])
    /\ UNCHANGED signed

(* approve_time_entries: nothing leads back from a rejection. *)
DecideLoad(p, t) == LoadEntry(p, "decide", t, "submitted")

DecideCommit(p, s) ==
    /\ h[p].op = "decide"
    /\ CommitEntry(p, "decide", [h[p].seen EXCEPT !.status = s])
    /\ signed' = IF s = "approved" THEN [signed EXCEPT ![h[p].id] = h[p].seen.hours] ELSE signed
-----------------------------------------------------------------------------
(* create_payroll_run: one for the month that is not closed; nothing closes one. *)
CreateRunLoad(p) ==
    /\ h[p] = Idle
    /\ \A r \in Runs : run[r].status \in {"unused", "closed"}
    /\ h' = [h EXCEPT ![p] = [op |-> "run"]]
    /\ UNCHANGED <<entry, run, payslips, signed>>

CreateRunCommit(p, r) ==
    /\ h[p].op = "run"
    /\ run[r].status = "unused"
    /\ run' = [run EXCEPT ![r] = [status |-> "draft", total |-> 0]]
    /\ h' = [h EXCEPT ![p] = Idle]
    /\ UNCHANGED <<entry, payslips, signed>>

(* calculate_all_payslips: a run in "calculating" is nobody else's... *)
CalcLoad(p, r) == LoadRun(p, "calc", r, {"draft", "pending_review"})

(* ...once this commit is through. *)
CalcBegin(p) ==
    /\ h[p].op = "calc"
    /\ LET new == [h[p].seen EXCEPT !.status = "calculating"]
       IN CommitRun(p, "calc", new, [op |-> "loop", id |-> h[p].id, seen |-> new,
                                     todo |-> Employees, sum |-> 0])

ApprovedOf(e) == {t \in Stored : entry[t].emp = e /\ entry[t].status = "approved"}

SlipLoad(p, e) ==
    /\ h[p].op = "loop"
    /\ e \in h[p].todo
    /\ h' = [h EXCEPT ![p] =
             IF ApprovedOf(e) = {} THEN [h[p] EXCEPT !.todo = h[p].todo \ {e}]
             ELSE [op |-> "slip", id |-> h[p].id, seen |-> h[p].seen, todo |-> h[p].todo \ {e},
                   sum |-> h[p].sum, emp |-> e, picked |-> ApprovedOf(e),
                   gross |-> SumFunctionOnSet([t \in Entries |-> entry[t].hours], ApprovedOf(e))]]
    /\ UNCHANGED <<entry, run, payslips, signed>>

Looping(p, sum) == [op |-> "loop", id |-> h[p].id, seen |-> h[p].seen, todo |-> h[p].todo,
                    sum |-> sum]

(* _calculate_employee_payslip: the payslip and its entries in one commit.  The
   link from an entry to its payslip is read before the payslip has an id: none. *)
SlipCommit(p) ==
    /\ h[p].op = "slip"
    /\ h[p].picked \subseteq Stored
    /\ Cardinality(payslips) < MaxPaid
    /\ payslips' = payslips \cup {[num |-> Cardinality(payslips) + 1, run |-> h[p].id,
                                   emp |-> h[p].emp, gross |-> h[p].gross, of |-> h[p].picked]}
    /\ entry' = [t \in Entries |-> IF t \in h[p].picked THEN [entry[t] EXCEPT !.status = "paid"]
                                   ELSE entry[t]]
    /\ h' = [h EXCEPT ![p] = Looping(p, h[p].sum + h[p].gross)]
    /\ UNCHANGED <<run, signed>>

(* Mutant: the sum is taken before the payslip is stored. *)
SlipErrorCounted(p) ==
    /\ h[p].op = "slip"
    /\ h' = [h EXCEPT ![p] = Looping(p, h[p].sum + h[p].gross)]
    /\ UNCHANGED <<entry, run, payslips, signed>>

(* An error on the way: the next employee. *)
SlipError(p) ==
    /\ h[p].op = "slip"
    /\ h' = [h EXCEPT ![p] = Looping(p, h[p].sum)]
    /\ UNCHANGED <<entry, run, payslips, signed>>

(* The totals are those of this calculation. *)
CalcCommit(p) ==
    /\ h[p].op = "loop"
    /\ h[p].todo = {}
    /\ CommitRun(p, "loop", [status |-> "pending_review", total |-> h[p].sum], Idle)

ApproveRunLoad(p, r) == LoadRun(p, "approve", r, {"pending_review"})

ApproveRunCommit(p) ==
    /\ h[p].op = "approve"
    /\ CommitRun(p, "approve", [h[p].seen EXCEPT !.status = "approved"], Idle)

MarkPaidLoad(p, r) == LoadRun(p, "pay", r, {"approved"})

MarkPaidCommit(p) ==
    /\ h[p].op = "pay"
    /\ CommitRun(p, "pay", [h[p].seen EXCEPT !.status = "paid"], Idle)

(* A crash, or an error that is not caught. *)
Abort(p) ==
    /\ h[p] # Idle
    /\ h' = [h EXCEPT ![p] = Idle]
    /\ UNCHANGED <<entry, run, payslips, signed>>

Next ==
    \E p \in Handlers :
        \/ \E e \in Employees, d \in Days : CreateLoad(p, e, d)
        \/ \E t \in Entries :
              \/ UpdateLoad(p, t) \/ DeleteLoad(p, t) \/ SubmitLoad(p, t) \/ DecideLoad(p, t)
              \/ \E n \in Hours : CreateCommit(p, t, n)
        \/ \E d \in Days, n \in Hours : UpdateCommit(p, d, n)
        \/ DeleteCommit(p) \/ SubmitCommit(p)
        \/ \E s \in {"approved", "rejected"} : DecideCommit(p, s)
        \/ CreateRunLoad(p) \/ CalcBegin(p) \/ SlipCommit(p) \/ SlipError(p) \/ CalcCommit(p)
        \/ \E e \in Employees : SlipLoad(p, e)
        \/ \E r \in Runs : \/ CreateRunCommit(p, r) \/ CalcLoad(p, r)
                           \/ ApproveRunLoad(p, r) \/ MarkPaidLoad(p, r)
        \/ ApproveRunCommit(p) \/ MarkPaidCommit(p) \/ Abort(p)

Spec == Init /\ [][Next]_vars
-----------------------------------------------------------------------------
EntryRows == [status : {"unused", "draft", "submitted", "approved", "rejected", "paid", "deleted"},
              emp : Employees, day : Days, hours : Hours]
RunRows == [status : {"unused", "draft", "calculating", "pending_review", "approved", "paid"},
            total : Nat]
SlipRows == [num : 1 .. MaxPaid, run : Runs, emp : Employees, gross : Nat, of : SUBSET Entries]
HandlerStates ==
    {Idle}
    \cup [op : {"create"}, emp : Employees, day : Days]
    \cup [op : {"run"}]
    \cup [op : {"update", "delete", "submit", "decide"}, id : Entries, seen : EntryRows]
    \cup [op : {"calc", "approve", "pay"}, id : Runs, seen : RunRows]
    \cup [op : {"loop"}, id : Runs, seen : RunRows, todo : SUBSET Employees, sum : Nat]
    \cup [op : {"slip"}, id : Runs, seen : RunRows, todo : SUBSET Employees, sum : Nat,
          emp : Employees, picked : SUBSET Entries, gross : Nat]

(* Every column and handler holds what it may hold. *)
TypeOK ==
    /\ entry \in [Entries -> EntryRows]
    /\ run \in [Runs -> RunRows]
    /\ payslips \subseteq SlipRows
    /\ signed \in [Entries -> 0 .. MaxHours]
    /\ h \in [Handlers -> HandlerStates]

Gross(s) == SumFunctionOnSet([x \in s |-> x.gross], s)

(* The totals a manager approves never exceed what the payslips of the run add up to,
   whatever fails on the way and however many calculate at once.
   (calculate_all_payslips: an employee whose payslip fails is left out.) *)
TotalsWithinPayslips ==
    \A r \in Runs : run[r].total <= Gross({x \in payslips : x.run = r})

(* An entry is only marked paid with a payslip of its employee that counts it.
   (_calculate_employee_payslip: both in one commit.) *)
PaidIsOnPayslip ==
    \A t \in Entries : entry[t].status = "paid" =>
        \E x \in payslips : t \in x.of /\ x.emp = entry[t].emp

(* One handler: no entry is on two payslips, over crashes and recalculations.
   (calculate_all_payslips) *)
PaidOnce == \A x, y \in payslips : x # y => x.of \cap y.of = {}

(* One handler: what the payslips pay is what managers signed for the entries that
   are paid, hour for hour.  (update_time_entry, approve_time_entries,
   _calculate_employee_payslip.) *)
PaidAsSigned ==
    Gross(payslips) = SumFunctionOnSet(signed, {t \in Entries : entry[t].status = "paid"})
=============================================================================
