------------------------------ MODULE Workshop ------------------------------
(***************************************************************************)
(* A job of the camper workshop with its quotations, deposit, work log and *)
(* purchase orders (routes/camper_router.py).                              *)
(*                                                                         *)
(* One job: no handler here reads or writes the rows of another.  A        *)
(* handler reads the job, and for some operations a quotation or an order, *)
(* in one step each and commits in another.  An update that sends          *)
(* expected_updated_at is refused when the row it READS is newer: it does  *)
(* less than one that sends none, which is what is modelled.               *)
(***************************************************************************)
EXTENDS Integers, FiniteSets, Rows

CONSTANTS Handlers,   \* requests in flight
          Ops,        \* the operations that are asked for
          Quotes,     \* bound: rows of camper_quotations
          POs,        \* bound: rows of camper_purchase_orders
          MaxDeposit, \* bound: deposits
          MaxHours    \* bound: hours logged

AllOps == {"update", "status", "approve", "complete", "submit", "pass", "fail", "check_in",
           "check_out", "deposit", "accept", "invoice", "order", "po_status", "log", "wait",
           "resume", "edit_quote", "send", "reject"}

(* What the bounds have to satisfy: Desks assumes it of its instances. *)
WorkshopAssumption == {MaxDeposit, MaxHours} \subseteq Nat /\ Ops \subseteq AllOps

VARIABLES job,      \* the row of camper_service_jobs
          quote,    \* camper_quotations
          po,       \* camper_purchase_orders
          logged,   \* the sum of the WORK rows of camper_work_logs
          received, \* history: the deposits handed over
          byHand,   \* history: the columns update_job or complete_job was given a value for
          h         \* the handlers

vars == <<job, quote, po, logged, received, byHand, h>>

JobStatus == {"quoted", "approved", "in_progress", "waiting_parts", "inspection", "completed",
              "invoiced", "cancelled"}
Deposits == 0 .. MaxDeposit
Idle == [op |-> "none"]

Init == /\ job = [status |-> "unused", need |-> 0, paid |-> 0, hours |-> 0, parts |-> FALSE,
                  waiting |-> FALSE, place |-> "away", passed |-> "no"]
        /\ quote = [q \in Quotes |-> [status |-> "unused", deposit |-> 0]]
        /\ po = [o \in POs |-> "unused"]
        /\ logged = 0
        /\ received = 0
        /\ byHand = {}
        /\ h = [p \in Handlers |-> Idle]

(* create_job *)
Create == /\ job.status = "unused"
          /\ job' = [job EXCEPT !.status = "quoted"]
          /\ UNCHANGED <<quote, po, logged, received, byHand, h>>

(* What a handler asks of the job it has read. *)
Ready(op) ==
    /\ job.status # "unused"
    /\ op = "approve" => job.status = "quoted"
    /\ op = "complete" => job.status \in {"in_progress", "waiting_parts", "approved"}
    /\ op = "submit" => job.status = "in_progress"
    /\ op \in {"pass", "fail"} => job.status = "inspection"
    /\ op = "check_in" => job.place = "away"
    /\ op = "check_out" => job.place = "here"
    /\ op = "wait" => ~job.waiting
    /\ op = "resume" => job.waiting

Load(p, op) ==
    /\ h[p] = Idle
    /\ op \in Ops \ {"accept", "po_status", "edit_quote", "send", "reject"}
    /\ Ready(op)
    /\ h' = [h EXCEPT ![p] = [op |-> op, seen |-> job]]
    /\ UNCHANGED <<job, quote, po, logged, received, byHand>>

(* The handler commits the job as `new`. *)
Save(p, op, new) ==
    /\ h[p].op = op
    /\ job' = Flushed(job, h[p].seen, new)
    /\ h' = [h EXCEPT ![p] = Idle]

Saw(p) == h[p].seen

(* Handlers that change no other row. *)
JobOnly == UNCHANGED <<quote, po, logged, received>>
-----------------------------------------------------------------------------
(* update_job: a mechanic assigned to a quoted or approved job starts it. *)
Assign(p) ==
    /\ Save(p, "update", [Saw(p) EXCEPT !.status = IF @ \in {"quoted", "approved"}
                                                   THEN "in_progress" ELSE @])
    /\ JobOnly /\ UNCHANGED byHand

(* update_job: columns that other handlers compute, set by hand. *)
SetByHand(p, c, v) ==
    /\ Save(p, "update", [Saw(p) EXCEPT ![c] = v])
    /\ byHand' = byHand \cup {c}
    /\ JobOnly

(* update_job_status: from any status to any other. *)
SetStatus(p, s) ==
    /\ Save(p, "status", [Saw(p) EXCEPT !.status = s])
    /\ JobOnly /\ UNCHANGED byHand

Approve(p) ==
    /\ Save(p, "approve", [Saw(p) EXCEPT !.status = "approved"])
    /\ JobOnly /\ UNCHANGED byHand

(* complete_job, as logged... *)
Complete(p) ==
    /\ Save(p, "complete", [Saw(p) EXCEPT !.status = "completed"])
    /\ JobOnly /\ UNCHANGED byHand

(* ...or with the hours it is given. *)
CompleteWith(p, n) ==
    /\ Save(p, "complete", [Saw(p) EXCEPT !.status = "completed", !.hours = n])
    /\ byHand' = byHand \cup {"hours"}
    /\ JobOnly

Submit(p) ==
    /\ Save(p, "submit", [Saw(p) EXCEPT !.status = "inspection"])
    /\ JobOnly /\ UNCHANGED byHand

Pass(p) ==
    /\ Save(p, "pass", [Saw(p) EXCEPT !.status = "completed", !.passed = "yes"])
    /\ JobOnly /\ UNCHANGED byHand

(* fail_inspection: the finding is FALSE, no longer NULL. *)
Fail(p) ==
    /\ Save(p, "fail", [Saw(p) EXCEPT !.status = "in_progress", !.passed = "failed"])
    /\ JobOnly /\ UNCHANGED byHand

CheckIn(p) ==
    /\ Save(p, "check_in", [Saw(p) EXCEPT !.place = "here"])
    /\ JobOnly /\ UNCHANGED byHand

CheckOut(p) ==
    /\ Save(p, "check_out", [Saw(p) EXCEPT !.place = "gone"])
    /\ JobOnly /\ UNCHANGED byHand

StartWait(p) ==
    /\ Save(p, "wait", [Saw(p) EXCEPT !.waiting = TRUE])
    /\ JobOnly /\ UNCHANGED byHand

EndWait(p) ==
    /\ Save(p, "resume", [Saw(p) EXCEPT !.waiting = FALSE])
    /\ JobOnly /\ UNCHANGED byHand

(* create_invoice: of a job in any status; amounts are what the request says. *)
Invoice(p) ==
    /\ Save(p, "invoice", [Saw(p) EXCEPT !.status = "invoiced"])
    /\ JobOnly /\ UNCHANGED byHand

(* log_work: the sum holds this row and those committed by the time it is taken. *)
LogSum(p, n) ==
    /\ h[p].op = "log"
    /\ n > 0 /\ logged + n <= MaxHours
    /\ h' = [h EXCEPT ![p] = [op |-> "logged", seen |-> Saw(p), hours |-> n, sum |-> logged + n]]
    /\ UNCHANGED <<job, quote, po, logged, received, byHand>>

LogCommit(p) ==
    /\ h[p].op = "logged" /\ logged + h[p].hours <= MaxHours
    /\ Save(p, "logged", [Saw(p) EXCEPT !.hours = h[p].sum])
    /\ logged' = logged + h[p].hours
    /\ UNCHANGED <<quote, po, received, byHand>>

(* record_deposit: up to what is required, when anything is. *)
Deposit(p, n) ==
    /\ h[p].op = "deposit" /\ n > 0
    /\ Saw(p).need > 0 => Saw(p).paid + n <= Saw(p).need
    /\ received + n <= MaxDeposit
    /\ Save(p, "deposit", [Saw(p) EXCEPT !.paid = @ + n])
    /\ received' = received + n
    /\ UNCHANGED <<quote, po, logged, byHand>>
-----------------------------------------------------------------------------
(* create_quotation *)
CreateQuote(q, n) ==
    /\ job.status # "unused" /\ quote[q].status = "unused"
    /\ quote' = [quote EXCEPT ![q] = [status |-> "draft", deposit |-> n]]
    /\ UNCHANGED <<job, po, logged, received, byHand, h>>

(* The statuses in which a quotation is updated, sent, accepted; it is rejected in any. *)
OpenFor(op) == CASE op = "send" -> {"draft"}
                 [] op = "reject" -> {"draft", "sent", "accepted", "rejected"}
                 [] OTHER -> {"draft", "sent"}

QuoteLoad(p, op, q) ==
    /\ h[p] = Idle
    /\ op \in Ops \cap {"edit_quote", "send", "accept", "reject"}
    /\ quote[q].status \in OpenFor(op)
    /\ h' = [h EXCEPT ![p] = [op |-> op, id |-> q, was |-> quote[q]]]
    /\ UNCHANGED <<job, quote, po, logged, received, byHand>>

SaveQuote(p, new) == quote' = [quote EXCEPT ![h[p].id] = Flushed(@, h[p].was, new)]

(* update_quotation, send_quotation, reject_quotation *)
QuoteCommit(p, n) ==
    /\ h[p].op \in {"edit_quote", "send", "reject"}
    /\ SaveQuote(p, CASE h[p].op = "edit_quote" -> [h[p].was EXCEPT !.deposit = n]
                      [] h[p].op = "send" -> [h[p].was EXCEPT !.status = "sent"]
                      [] OTHER -> [h[p].was EXCEPT !.status = "rejected"])
    /\ h' = [h EXCEPT ![p] = Idle]
    /\ UNCHANGED <<job, po, logged, received, byHand>>

(* accept_quotation: the quotation, then the job... *)
AcceptJob(p) ==
    /\ h[p].op = "accept"
    /\ h' = [h EXCEPT ![p] = [op |-> "accepted", id |-> h[p].id, was |-> h[p].was, seen |-> job]]
    /\ UNCHANGED <<job, quote, po, logged, received, byHand>>

(* ...which a quoted one is approved by, with the deposit of the quotation. *)
AcceptCommit(p) ==
    /\ h[p].op = "accepted"
    /\ SaveQuote(p, [h[p].was EXCEPT !.status = "accepted"])
    /\ Save(p, "accepted", IF Saw(p).status # "quoted" THEN Saw(p)
                           ELSE [Saw(p) EXCEPT !.status = "approved", !.need = h[p].was.deposit])
    /\ UNCHANGED <<po, logged, received, byHand>>
-----------------------------------------------------------------------------
(* create_purchase_order: of its statuses before the last ones, "open" stands for all. *)
Order(p, o) ==
    /\ h[p].op = "order" /\ po[o] = "unused"
    /\ po' = [po EXCEPT ![o] = "open"]
    /\ Save(p, "order", [Saw(p) EXCEPT !.parts = TRUE])
    /\ UNCHANGED <<quote, logged, received, byHand>>

Pending(o) == {x \in POs \ {o} : po[x] = "open"}

(* update_po_status: from any status to any other; one that is received... *)
POLoad(p, o, s) ==
    /\ h[p] = Idle /\ "po_status" \in Ops
    /\ po[o] # "unused"
    /\ h' = [h EXCEPT ![p] = [op |-> "po_status", id |-> o, was |-> po[o], to |-> s]]
    /\ UNCHANGED <<job, quote, po, logged, received, byHand>>

(* ...counts the others... *)
POCount(p) ==
    /\ h[p].op = "po_status" /\ h[p].to = "received"
    /\ h' = [h EXCEPT ![p] = [op |-> "po_counted", id |-> h[p].id, was |-> h[p].was,
                              pending |-> Pending(h[p].id) # {}]]
    /\ UNCHANGED <<job, quote, po, logged, received, byHand>>

(* ...and reads the job. *)
POJob(p) ==
    /\ h[p].op = "po_counted"
    /\ h' = [h EXCEPT ![p] = [op |-> "po_received", id |-> h[p].id, was |-> h[p].was,
                              pending |-> h[p].pending, seen |-> job]]
    /\ UNCHANGED <<job, quote, po, logged, received, byHand>>

SavePO(p, s) == po' = IF s = h[p].was THEN po ELSE [po EXCEPT ![h[p].id] = s]

POCommit(p) ==
    /\ h[p].op = "po_status" /\ h[p].to # "received"
    /\ SavePO(p, h[p].to)
    /\ h' = [h EXCEPT ![p] = Idle]
    /\ UNCHANGED <<job, quote, logged, received, byHand>>

(* Mutant: the flag goes with the first order that arrives. *)
POReceivedFirst(p) ==
    /\ h[p].op = "po_received"
    /\ SavePO(p, "received")
    /\ Save(p, "po_received", [Saw(p) EXCEPT !.parts = FALSE])
    /\ UNCHANGED <<quote, logged, received, byHand>>

POReceived(p) ==
    /\ h[p].op = "po_received"
    /\ SavePO(p, "received")
    /\ Save(p, "po_received", [Saw(p) EXCEPT !.parts = @ /\ h[p].pending])
    /\ UNCHANGED <<quote, logged, received, byHand>>

(* An error or a crash. *)
Abort(p) ==
    /\ h[p] # Idle
    /\ h' = [h EXCEPT ![p] = Idle]
    /\ UNCHANGED <<job, quote, po, logged, received, byHand>>

Next ==
    \/ Create
    \/ \E q \in Quotes, n \in Deposits : CreateQuote(q, n)
    \/ \E p \in Handlers :
        \/ \E op \in Ops : Load(p, op) \/ \E q \in Quotes : QuoteLoad(p, op, q)
        \/ Assign(p) \/ Approve(p) \/ Complete(p) \/ Submit(p) \/ Pass(p) \/ Fail(p)
        \/ CheckIn(p) \/ CheckOut(p) \/ StartWait(p) \/ EndWait(p) \/ Invoice(p)
        \/ \E s \in JobStatus : SetStatus(p, s)
        \/ \E n \in Deposits : SetByHand(p, "need", n) \/ Deposit(p, n) \/ QuoteCommit(p, n)
        \/ \E n \in 0 .. MaxHours : SetByHand(p, "hours", n) \/ CompleteWith(p, n) \/ LogSum(p, n)
        \/ \E b \in BOOLEAN : SetByHand(p, "parts", b)
        \/ LogCommit(p) \/ AcceptJob(p) \/ AcceptCommit(p)
        \/ \E o \in POs : Order(p, o) \/ \E s \in {"open", "received", "cancelled"} : POLoad(p, o, s)
        \/ POCount(p) \/ POJob(p) \/ POCommit(p) \/ POReceived(p) \/ Abort(p)

Spec == Init /\ [][Next]_vars
-----------------------------------------------------------------------------
JobRows == [status : JobStatus \cup {"unused"}, need : Deposits, paid : Deposits,
            hours : 0 .. MaxHours, parts : BOOLEAN, waiting : BOOLEAN,
            place : {"away", "here", "gone"}, passed : {"no", "yes", "failed"}]
QuoteRows == [status : {"unused", "draft", "sent", "accepted", "rejected"}, deposit : Deposits]

(* Every column holds what it may hold, and a handler a row it has read. *)
TypeOK ==
    /\ job \in JobRows
    /\ quote \in [Quotes -> QuoteRows]
    /\ po \in [POs -> {"unused", "open", "received", "cancelled"}]
    /\ logged \in 0 .. MaxHours /\ received \in Deposits
    /\ byHand \subseteq {"need", "hours", "parts"}
    /\ \A p \in Handlers : "seen" \in DOMAIN h[p] => h[p].seen \in JobRows

(* One handler: the deposit a job requires is one a customer agreed to, on a quotation
   that still says it, and what the job shows as paid is what was handed over: through
   jobs reopened, quotations accepted one after the other, rejected afterwards or edited.
   (accept_quotation, update_quotation, record_deposit.) *)
DepositAsAgreed ==
    /\ "need" \in byHand \/ job.need = 0
       \/ \E q \in Quotes : /\ quote[q].status \in {"accepted", "rejected"}
                            /\ quote[q].deposit = job.need
    /\ job.paid = received

(* However handlers interleave, the customer is not credited with more deposit than was
   handed over, nor the mechanics with more hours than they logged.  Either can be less:
   of two that read the same row, the second overwrites the first.
   (record_deposit, log_work.) *)
NeverOverstated ==
    /\ job.paid <= received
    /\ "hours" \in byHand \/ job.hours <= logged

(* What a step that clears parts_on_order, other than by hand, may assume. *)
ClearedStep ==
    job.parts /\ ~job'.parts /\ (\E p \in Handlers : h[p].op = "po_received")
    => \A o \in POs : po'[o] # "open"

(* One handler: "Only clear parts_on_order if ALL POs for this job are terminal".
   (update_po_status; orders may come back from received and cancelled.) *)
ClearedWhenNonePending == [][ClearedStep]_vars
=============================================================================
