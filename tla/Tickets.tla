------------------------------- MODULE Tickets -------------------------------
(***************************************************************************)
(* Feedback tickets (routes/pos_router.py, routes/backlog_router.py): filed*)
(* at the till, triaged by a language model in batches, merged when they   *)
(* repeat one another, fixed, rejected, disputed, closed and reopened.     *)
(*                                                                         *)
(* Tickets are their numbers.  What reporters add comes as inputs, counted.*)
(* A triage row is stamped when its batch commits, so it is newer than     *)
(* every input committed by then.  Notifications are not modelled.         *)
(***************************************************************************)
EXTENDS Integers, FiniteSets, FiniteSetsExt

CONSTANTS Batches,   \* requests to triage in flight
          MaxTicket, \* bound: tickets
          MaxInputs, \* bound: inputs of a ticket
          Limit      \* tickets triaged by a request

(* What the bounds have to satisfy: Desks assumes it of its instances. *)
TicketsAssumption == {MaxTicket, MaxInputs, Limit} \subseteq Nat

VARIABLES ticket,  \* backlog_items with the rows of backlog_activities that matter
          closing, \* the tickets whose reporter is closing them and read them as done
          batch    \* the requests to triage

vars == <<ticket, closing, batch>>

Numbers == 1 .. MaxTicket
Idle == [op |-> "none"]
NoTicket == [status |-> "unused", triages |-> 0, inputs |-> 0, newer |-> FALSE, dup |-> 0]

Init == /\ ticket = [t \in Numbers |-> NoTicket]
        /\ closing = {}
        /\ batch = [g \in Batches |-> Idle]

Filed == {t \in Numbers : ticket[t].status # "unused"}

(* A batch has updated the row and not committed yet: other updates wait for it. *)
Held == UNION {{t \in Numbers : batch[g].dup[t] # 0} : g \in {b \in Batches : batch[b].op = "ai"}}

(* pos_feedback: the next number. *)
File == /\ Cardinality(Filed) < MaxTicket
        /\ ticket' = [ticket EXCEPT ![Cardinality(Filed) + 1].status = "pending"]
        /\ UNCHANGED <<closing, batch>>

Write(t, s) == /\ t \in Filed \ Held
               /\ ticket' = [ticket EXCEPT ![t].status = s]
               /\ UNCHANGED batch

(* update_item and delete_item of the board, mark_feedback_fixed: from any status. *)
SetStatus(t, s) == Write(t, s) /\ UNCHANGED closing

(* accept_rejection, cancel_my_ticket: also from any. *)
Archive(t) == Write(t, "archived") /\ UNCHANGED closing

(* close_my_ticket: a ticket that is done, as read. *)
CloseLoad(t) == /\ ticket[t].status = "done"
                /\ closing' = closing \cup {t}
                /\ UNCHANGED <<ticket, batch>>

CloseCommit(t) == /\ t \in closing
                  /\ Write(t, "archived")
                  /\ closing' = closing \ {t}

(* dispute_rejection, reopen_my_ticket: back to work, which is an input. *)
Reopen(t) ==
    /\ t \in Filed \ Held
    /\ ticket[t].inputs < MaxInputs
    /\ ticket' = [ticket EXCEPT ![t].status = "in_progress", ![t].inputs = @ + 1, ![t].newer = TRUE]
    /\ UNCHANGED <<closing, batch>>

(* add_note_to_my_ticket: an input that changes no row. *)
Note(t) ==
    /\ t \in Filed
    /\ ticket[t].inputs < MaxInputs
    /\ ticket' = [ticket EXCEPT ![t].inputs = @ + 1, ![t].newer = TRUE]
    /\ UNCHANGED <<closing, batch>>
-----------------------------------------------------------------------------
(* Mutant: a ticket with any input is triaged again. *)
SelectableEver == {t \in Filed : ticket[t].triages = 0 \/ ticket[t].inputs > 0}

(* Never triaged, or with an input newer than the last triage. *)
Selectable == {t \in Filed : ticket[t].triages = 0 \/ ticket[t].newer}

(* The newest of them, as many as asked for. *)
Newest == {t \in Selectable : Cardinality({u \in Selectable : u > t}) < Limit}

(* triage_pending_feedback: the tickets of the batch... *)
Select(g) ==
    /\ batch[g] = Idle
    /\ Newest # {}
    /\ batch' = [batch EXCEPT ![g] = [op |-> "picked", rows |-> Newest]]
    /\ UNCHANGED <<ticket, closing>>

(* ...which of them were triaged before, and what they might repeat... *)
Context(g) ==
    /\ batch[g].op = "picked"
    /\ batch' = [batch EXCEPT ![g] =
          [op |-> "ai", rows |-> batch[g].rows, todo |-> batch[g].rows,
           again |-> {t \in batch[g].rows : ticket[t].triages > 0},
           open |-> {t \in Filed : ticket[t].status \in {"pending", "in_progress"}},
           dup |-> [t \in Numbers |-> 0]]]
    /\ UNCHANGED <<ticket, closing>>

(* ...the model's word on each, newest first: new, or a duplicate of c, which is not
   one of those merged in this batch... *)
Ask(g, c) ==
    /\ batch[g].op = "ai" /\ batch[g].todo # {}
    /\ LET t == Max(batch[g].todo)
       IN /\ c # 0 => /\ t \notin batch[g].again /\ c \in batch[g].open \ {t}
                      /\ batch[g].dup[c] = 0 /\ t \notin Held
          /\ batch' = [batch EXCEPT ![g].todo = @ \ {t}, ![g].dup[t] = c]
    /\ UNCHANGED <<ticket, closing>>

(* ...and all of it is committed: the duplicates are archived. *)
TriageCommit(g) ==
    /\ batch[g].op = "ai" /\ batch[g].todo = {}
    /\ ticket' = [t \in Numbers |->
          IF t \notin batch[g].rows THEN ticket[t]
          ELSE [ticket[t] EXCEPT !.triages = @ + 1, !.newer = FALSE,
                                 !.status = IF batch[g].dup[t] # 0 THEN "archived" ELSE @,
                                 !.dup = IF batch[g].dup[t] # 0 THEN batch[g].dup[t] ELSE @]]
    /\ batch' = [batch EXCEPT ![g] = Idle]
    /\ UNCHANGED closing

(* An error, a crash. *)
Abort(g) ==
    /\ batch[g] # Idle
    /\ batch' = [batch EXCEPT ![g] = Idle]
    /\ UNCHANGED <<ticket, closing>>

Next ==
    \/ File
    \/ \E t \in Numbers :
        \/ \E s \in {"pending", "in_progress", "blocked", "done", "archived"} : SetStatus(t, s)
        \/ Archive(t) \/ CloseLoad(t) \/ CloseCommit(t) \/ Reopen(t) \/ Note(t)
    \/ \E g \in Batches :
        \/ Select(g) \/ Context(g) \/ TriageCommit(g) \/ Abort(g)
        \/ \E c \in 0 .. MaxTicket : Ask(g, c)

Spec == Init /\ [][Next]_vars
-----------------------------------------------------------------------------
(* Every column holds what it may hold. *)
TypeOK ==
    /\ ticket \in [Numbers -> [status : {"unused", "pending", "in_progress", "blocked", "done",
                                         "archived"},
                               triages : Nat, inputs : 0 .. MaxInputs, newer : BOOLEAN,
                               dup : 0 .. MaxTicket]]
    /\ closing \subseteq Numbers
    /\ \A g \in Batches : batch[g].op = "ai" => batch[g].todo \subseteq batch[g].rows

(* One request at a time: "Idempotent: a ticket that already has an `ai-triage` activity is
   skipped", unless its reporter added something since: a ticket is never triaged more
   often than it gave reasons to, over crashes, reopenings and notes that arrive while the
   model thinks; and none is merged into itself.  (triage_pending_feedback.) *)
TriagedOnce ==
    \A t \in Filed : ticket[t].triages <= 1 + ticket[t].inputs /\ ticket[t].dup # t
=============================================================================
