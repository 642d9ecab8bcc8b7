--------------------------- MODULE EachDesk_proofs ---------------------------
(***************************************************************************)
(* Proofs about the modules of the desks that keep people, times, codes    *)
(* and jobs, for any rows, persons, codes and bounds; those that keep      *)
(* money and goods are in EachBook_proofs.  The desks share no row, so     *)
(* each theorem is about the specification of one module; Desks_proofs     *)
(* takes them to Desks.                                                    *)
(*                                                                         *)
(* A promise that needs one request at a time has OneHandler as a          *)
(* hypothesis, because the code does not see to it and the promise fails   *)
(* without; what holds however requests interleave has not.                *)
(***************************************************************************)
EXTENDS Finite_proofs

CONSTANTS Handlers,                                   \* requests in flight, of any desk
          People, Sessions, Nobody,                   \* Shifts
          MaxTicket, MaxInputs, Limit,                \* Tickets
          Bookings, Appointments, LastDay,            \* Bookings
          Products, Codes, Minted, NoCode, NoProduct, \* Barcodes
          Ops, Quotes, POs, MaxDeposit, MaxHours,     \* Workshop
          Names, Subs, SeedRow, SeedName, SeedSub, Fresh, Emps, Sales, None \* Logins

VARIABLES session,                                    \* Shifts
          ticket, closing, batch,                     \* Tickets
          booking, appt, moved,                       \* Bookings
          product, alias,                             \* Barcodes
          job, quote, po, logged, received, byHand,   \* Workshop
          account, issued, user, emp, sold,           \* Logins
          h                                           \* the handlers

OneHandler == \E p \in Handlers : Handlers = {p}

(* A set with one element more. *)
LEMMA OneMore ==
    ASSUME NEW S, NEW T, NEW x, IsFiniteSet(S), x \notin S, T = S \cup {x}
    PROVE  IsFiniteSet(T) /\ Cardinality(T) = Cardinality(S) + 1
BY FS_AddElement
-----------------------------------------------------------------------------
(***************************************************************************)
(* Shifts.  A start in flight may become an active session, so the two     *)
(* are counted together: a start begins when there is no session, and the  *)
(* count is then at most the handlers; a commit moves one from the starts  *)
(* to the sessions.                                                        *)
(***************************************************************************)
Register == INSTANCE Shifts

LEMMA RegisterSizes ==
    ASSUME NEW S
    PROVE  /\ Register!IsFiniteSet(S) <=> IsFiniteSet(S)
           /\ Register!Cardinality(S) = Cardinality(S)
BY DEF IsFiniteSet, Cardinality, Register!IsFiniteSet, Register!Cardinality

Starting(u) == {p \in Handlers : h[p].op = "start" /\ h[p].user = u}

ShiftRequests ==
    {Register!Idle}
    \cup [op : {"start"}, user : People]
    \cup [op : {"end"}, id : Sessions, status : {"ended", "force_ended", "handed_off"},
          to : People \cup {Nobody}]

ShiftsTyped == Register!TypeOK /\ h \in [Handlers -> ShiftRequests]

StartsBounded(u) ==
    /\ IsFiniteSet(Register!Active(u))
    /\ Cardinality(Register!Active(u)) + Cardinality(Starting(u)) <= Cardinality(Handlers)

ShiftsInv ==
    /\ ShiftsTyped
    /\ \A u \in People : StartsBounded(u)

LEMMA ShiftsTypedInit == Register!Init => ShiftsTyped
BY DEF Register!Init, ShiftsTyped, Register!TypeOK, Register!NoSession, Register!SessionStatus,
       ShiftRequests, Register!Idle

LEMMA ShiftsTypedNext == ShiftsTyped /\ [Register!Next]_(Register!vars) => ShiftsTyped'
<1> SUFFICES ASSUME ShiftsTyped, [Register!Next]_(Register!vars) PROVE ShiftsTyped'
  OBVIOUS
<1> USE DEF ShiftsTyped, Register!TypeOK, Register!SessionStatus, ShiftRequests, Register!Idle
<1>1. ASSUME NEW p \in Handlers, NEW u \in People, Register!StartLoad(p, u) PROVE ShiftsTyped'
  BY <1>1 DEF Register!StartLoad, Register!Begin
<1>2. ASSUME NEW p \in Handlers, NEW s \in Sessions, Register!StartCommit(p, s) PROVE ShiftsTyped'
  BY <1>2 DEF Register!StartCommit, Register!Finish
<1>3. ASSUME NEW p \in Handlers, NEW u \in People, Register!EndLoad(p, u) PROVE ShiftsTyped'
  BY <1>3 DEF Register!EndLoad, Register!Begin
<1>4. ASSUME NEW p \in Handlers, NEW s \in Sessions, Register!ForceLoad(p, s) PROVE ShiftsTyped'
  BY <1>4 DEF Register!ForceLoad, Register!Begin
<1>5. ASSUME NEW p \in Handlers, NEW s \in Sessions, NEW u \in People, Register!HandoffLoad(p, s, u)
      PROVE  ShiftsTyped'
  BY <1>5 DEF Register!HandoffLoad, Register!Begin
<1>6. ASSUME NEW p \in Handlers, Register!EndCommit(p) PROVE ShiftsTyped'
  BY <1>6 DEF Register!EndCommit, Register!Finish
<1>7. ASSUME NEW p \in Handlers, Register!Abort(p) PROVE ShiftsTyped'
  BY <1>7 DEF Register!Abort
<1>8. CASE UNCHANGED Register!vars
  BY <1>8 DEF Register!vars
<1> QED BY <1>1, <1>2, <1>3, <1>4, <1>5, <1>6, <1>7, <1>8 DEF Register!Next

LEMMA HandlersFinite == ASSUME Register!ShiftsAssumption PROVE IsFiniteSet(Handlers)
BY RegisterSizes DEF Register!ShiftsAssumption

LEMMA ShiftsInit ==
    ASSUME Register!ShiftsAssumption, Register!Init PROVE ShiftsInv
<1>1. \A u \in People : Register!Active(u) = {} /\ Starting(u) = {}
  BY DEF Register!Init, Register!Active, Register!NoSession, Starting, Register!Idle
<1>2. IsFiniteSet({}) /\ Cardinality({}) = 0 /\ Cardinality(Handlers) \in Nat
  BY HandlersFinite, FS_EmptySet, FS_CardinalityType
<1> QED BY <1>1, <1>2, ShiftsTypedInit DEF ShiftsInv, StartsBounded

(* The starts of a person are some of the handlers. *)
LEMMA StartingFinite ==
    ASSUME Register!ShiftsAssumption, NEW u
    PROVE  /\ IsFiniteSet(Starting(u)) /\ Cardinality(Starting(u)) \in Nat
           /\ Cardinality(Handlers) \in Nat
           /\ Cardinality(Starting(u)) <= Cardinality(Handlers)
<1>1. Starting(u) \subseteq Handlers /\ IsFiniteSet(Handlers)
  BY HandlersFinite DEF Starting
<1> QED BY <1>1, FS_Subset, FS_CardinalityType

LEMMA ShiftsNext ==
    ASSUME Register!ShiftsAssumption, ShiftsInv, [Register!Next]_(Register!vars)
    PROVE  ShiftsInv'
<1>0. ShiftsTyped /\ ShiftsTyped'
  BY ShiftsTypedNext DEF ShiftsInv
<1> SUFFICES ASSUME NEW u \in People PROVE StartsBounded(u)'
  BY <1>0 DEF ShiftsInv
<1>a. /\ IsFiniteSet(Register!Active(u)) /\ Cardinality(Register!Active(u)) \in Nat
      /\ IsFiniteSet(Starting(u)) /\ Cardinality(Starting(u)) \in Nat
      /\ Cardinality(Handlers) \in Nat
      /\ Cardinality(Register!Active(u)) + Cardinality(Starting(u)) <= Cardinality(Handlers)
  BY StartingFinite, FS_CardinalityType DEF ShiftsInv, StartsBounded
<1>b. /\ IsFiniteSet(Starting(u)') /\ Cardinality(Starting(u)') \in Nat
      /\ Cardinality(Starting(u)') <= Cardinality(Handlers)
  <2>1. Starting(u)' \subseteq Handlers /\ IsFiniteSet(Handlers)
    BY HandlersFinite DEF Starting
  <2> QED BY <2>1, FS_Subset, FS_CardinalityType
(* Fewer sessions and fewer starts break nothing. *)
<1>1. ASSUME Register!Active(u)' \subseteq Register!Active(u), Starting(u)' \subseteq Starting(u)
      PROVE  StartsBounded(u)'
  <2>1. /\ IsFiniteSet(Register!Active(u)') /\ Cardinality(Register!Active(u)') \in Nat
        /\ Cardinality(Register!Active(u)') <= Cardinality(Register!Active(u))
    BY <1>1, <1>a, FS_Subset, FS_CardinalityType
  <2>2. Cardinality(Starting(u)') <= Cardinality(Starting(u))
    BY <1>1, <1>a, FS_Subset
  <2> QED BY <1>a, <1>b, <2>1, <2>2 DEF StartsBounded
<1> USE DEF Register!Active, Starting, ShiftsTyped, Register!TypeOK, Register!SessionStatus
<1>2. ASSUME NEW p \in Handlers, NEW v \in People, Register!StartLoad(p, v)
      PROVE  StartsBounded(u)'
  <2>1. UNCHANGED session /\ h' = [h EXCEPT ![p] = [op |-> "start", user |-> v]]
    BY <1>2 DEF Register!StartLoad, Register!Begin
  <2>2. CASE u = v
    <3>1. Register!Active(u)' = {}
      BY <1>2, <2>1, <2>2 DEF Register!StartLoad
    <3>2. IsFiniteSet(Register!Active(u)') /\ Cardinality(Register!Active(u)') = 0
      BY <3>1, FS_EmptySet
    <3> QED BY <1>b, <3>2 DEF StartsBounded
  <2>3. CASE u # v
    <3>1. Register!Active(u)' = Register!Active(u) /\ Starting(u)' \subseteq Starting(u)
      BY <1>0, <2>1, <2>3
    <3> QED BY <1>1, <3>1
  <2> QED BY <2>2, <2>3
<1>3. ASSUME NEW p \in Handlers, NEW s \in Sessions, Register!StartCommit(p, s)
      PROVE  StartsBounded(u)'
  <2>1. /\ h[p].op = "start" /\ session[s].status = "unused"
        /\ h' = [h EXCEPT ![p] = Register!Idle]
        /\ session' = [session EXCEPT ![s] = [status |-> "active", user |-> h[p].user, to |-> Nobody]]
    BY <1>3 DEF Register!StartCommit, Register!Finish
  <2>2. Starting(u)' = Starting(u) \ {p}
    BY <1>0, <2>1 DEF Register!Idle
  <2>3. CASE h[p].user # u
    BY <1>0, <1>1, <2>1, <2>2, <2>3
  <2>4. CASE h[p].user = u
    <3>1. p \in Starting(u) /\ s \notin Register!Active(u)
      BY <2>1, <2>4
    <3>2. Register!Active(u)' = Register!Active(u) \cup {s}
      BY <1>0, <2>1, <2>4
    <3>3. Cardinality(Starting(u)') = Cardinality(Starting(u)) - 1
      BY <1>a, <2>2, <3>1, FS_RemoveElement
    <3>4. /\ IsFiniteSet(Register!Active(u)')
          /\ Cardinality(Register!Active(u)') = Cardinality(Register!Active(u)) + 1
      BY <1>a, <3>1, <3>2, OneMore
    <3> QED BY <1>a, <3>3, <3>4 DEF StartsBounded
  <2> QED BY <2>3, <2>4
<1>4. ASSUME NEW p \in Handlers, NEW r, r.op # "start", h' = [h EXCEPT ![p] = r], UNCHANGED session
      PROVE  StartsBounded(u)'
  BY <1>0, <1>1, <1>4
<1>5. ASSUME NEW p \in Handlers, NEW v \in People, Register!EndLoad(p, v)
      PROVE  StartsBounded(u)'
  BY <1>4, <1>5 DEF Register!EndLoad, Register!Begin
<1>6. ASSUME NEW p \in Handlers, NEW s \in Sessions, Register!ForceLoad(p, s)
      PROVE  StartsBounded(u)'
  BY <1>4, <1>6 DEF Register!ForceLoad, Register!Begin
<1>7. ASSUME NEW p \in Handlers, NEW s \in Sessions, NEW v \in People, Register!HandoffLoad(p, s, v)
      PROVE  StartsBounded(u)'
  BY <1>4, <1>7 DEF Register!HandoffLoad, Register!Begin
<1>8. ASSUME NEW p \in Handlers, Register!EndCommit(p) PROVE StartsBounded(u)'
  <2>1. /\ h[p].op = "end" /\ h' = [h EXCEPT ![p] = Register!Idle]
        /\ h[p] \in ShiftRequests
    BY <1>0, <1>8 DEF Register!EndCommit, Register!Finish
  <2>2. h[p].id \in Sessions /\ h[p].status # "active"
    BY <2>1 DEF ShiftRequests, Register!Idle
  <2>3. \A s \in Sessions : /\ session'[s].user = session[s].user
                            /\ session'[s].status = "active" => session[s].status = "active"
    BY <1>0, <1>8, <2>2 DEF Register!EndCommit
  <2>4. Register!Active(u)' \subseteq Register!Active(u)
    BY <2>3
  <2>5. Starting(u)' \subseteq Starting(u)
    BY <1>0, <2>1 DEF Register!Idle
  <2> QED BY <1>1, <2>4, <2>5
<1>9. ASSUME NEW p \in Handlers, Register!Abort(p) PROVE StartsBounded(u)'
  BY <1>4, <1>9 DEF Register!Abort, Register!Idle
<1>10. CASE UNCHANGED Register!vars
  BY <1>1, <1>10 DEF Register!vars
<1> QED BY <1>2, <1>3, <1>5, <1>6, <1>7, <1>8, <1>9, <1>10 DEF Register!Next

(* Every column of a shift session holds what it may hold. *)
THEOREM SessionsTyped == Register!Spec => []Register!TypeOK
<1>1. ShiftsTyped => Register!TypeOK
  BY DEF ShiftsTyped
<1> QED BY <1>1, ShiftsTypedInit, ShiftsTypedNext, PTL DEF Register!Spec

LEMMA ShiftsShow == ASSUME Register!ShiftsAssumption, ShiftsInv PROVE Register!OnShiftPerStart
<1> SUFFICES ASSUME NEW u \in People
             PROVE  Cardinality(Register!Active(u)) <= Cardinality(Handlers)
  BY RegisterSizes DEF Register!OnShiftPerStart
<1> QED BY StartingFinite, FS_CardinalityType DEF ShiftsInv, StartsBounded

LEMMA ShiftsOnce == ASSUME Register!ShiftsAssumption, ShiftsInv, OneHandler PROVE Register!OnShiftOnce
<1>1. Cardinality(Handlers) = 1
  BY FS_Singleton DEF OneHandler
<1> QED BY <1>1, ShiftsShow, RegisterSizes DEF Register!OnShiftPerStart, Register!OnShiftOnce

(* However handlers interleave, a person is on shift at most once for every start in flight
   at a time.  (start_shift_session.) *)
THEOREM OnShiftPerStartHolds ==
    ASSUME Register!ShiftsAssumption PROVE Register!Spec => []Register!OnShiftPerStart
BY ShiftsInit, ShiftsNext, ShiftsShow, PTL DEF Register!Spec

(* One handler: nobody is on shift twice.  (start_shift_session.) *)
THEOREM OnShiftOnceHolds ==
    ASSUME Register!ShiftsAssumption, OneHandler PROVE Register!Spec => []Register!OnShiftOnce
BY ShiftsInit, ShiftsNext, ShiftsOnce, PTL DEF Register!Spec
-----------------------------------------------------------------------------
(***************************************************************************)
(* Tickets.  Of a ticket whose batch is with the model only the inputs can *)
(* grow: it was never triaged or has an input that is newer than its last  *)
(* triage, and stays so until the batch commits, if no other batch runs.   *)
(***************************************************************************)
Board == INSTANCE Tickets WITH Batches <- Handlers

Picked == [op : {"picked"}, rows : SUBSET Board!Numbers]
WithModel == [op : {"ai"}, rows : SUBSET Board!Numbers, todo : SUBSET Board!Numbers,
              again : SUBSET Board!Numbers, open : SUBSET Board!Numbers,
              dup : [Board!Numbers -> 0 .. MaxTicket]]

TicketRows == [status : {"unused", "pending", "in_progress", "blocked", "done", "archived"},
               triages : Nat, inputs : 0 .. MaxInputs, newer : BOOLEAN, dup : 0 .. MaxTicket]

BoardTyped ==
    /\ Board!TypeOK
    /\ batch \in [Handlers -> {Board!Idle} \cup Picked \cup WithModel]

LEMMA BoardTypedInit == ASSUME Board!TicketsAssumption, Board!Init PROVE BoardTyped
BY DEF Board!TicketsAssumption, Board!Init, BoardTyped, Board!TypeOK, Board!NoTicket, Board!Idle,
       Picked, WithModel

(* A batch in the model's hands. *)
LEMMA IsWithModel ==
    ASSUME BoardTyped, NEW g \in Handlers, batch[g].op = "ai"
    PROVE  batch[g] \in WithModel
BY DEF BoardTyped, Board!Idle, Picked, WithModel

(* The model's word on one ticket. *)
LEMMA AskTyped ==
    ASSUME BoardTyped, NEW g \in Handlers, NEW c \in 0 .. MaxTicket, Board!Ask(g, c)
    PROVE  /\ BoardTyped'
           /\ UNCHANGED <<ticket, closing>>
           /\ \A f \in Handlers : batch'[f].op = batch[f].op /\ batch'[f].rows = batch[f].rows
           /\ \A t \in Board!Numbers : batch'[g].dup[t] \in {batch[g].dup[t]} \cup {d \in {c} : d # t}
<1>1. batch[g] \in WithModel
  BY IsWithModel DEF Board!Ask
<1>2. PICK t : /\ c # 0 => c # t
               /\ batch' = [batch EXCEPT ![g].todo = @ \ {t}, ![g].dup[t] = c]
  BY DEF Board!Ask
<1> DEFINE new == [batch[g] EXCEPT !.todo = batch[g].todo \ {t}, !.dup[t] = c]
<1>3. batch' = [batch EXCEPT ![g] = new]
  BY <1>2
<1>4. /\ new \in WithModel /\ new.op = "ai" /\ new.rows = batch[g].rows /\ new.todo = batch[g].todo \ {t}
      /\ new.dup = [batch[g].dup EXCEPT ![t] = c]
  BY <1>1 DEF WithModel
<1>5. UNCHANGED <<ticket, closing>>
  BY DEF Board!Ask
<1>6. /\ \A f \in Handlers \ {g} : batch'[f] = batch[f]
      /\ batch'[g] = new /\ batch' \in [Handlers -> {Board!Idle} \cup Picked \cup WithModel]
  BY <1>3, <1>4 DEF BoardTyped
<1>7. \A f \in Handlers : batch'[f].op = batch[f].op /\ batch'[f].rows = batch[f].rows
  BY <1>1, <1>4, <1>6 DEF WithModel
<1>8. \A u \in Board!Numbers : batch'[g].dup[u] \in {batch[g].dup[u]} \cup {d \in {c} : d # u}
  <2> SUFFICES ASSUME NEW u \in Board!Numbers
               PROVE  batch'[g].dup[u] = batch[g].dup[u] \/ (batch'[g].dup[u] = c /\ c # u)
    OBVIOUS
  <2>1. batch[g].dup \in [Board!Numbers -> 0 .. MaxTicket]
    BY <1>1 DEF WithModel
  <2>2. c # 0 => c # t
    BY <1>2
  <2>3. batch'[g].dup[u] = IF u = t THEN c ELSE batch[g].dup[u]
    BY <1>4, <1>6, <2>1
  <2>4. u # 0
    BY DEF Board!Numbers
  <2>5. CASE u = t
    BY <2>2, <2>3, <2>4, <2>5
  <2>6. CASE u # t
    BY <2>3, <2>6
  <2> QED BY <2>5, <2>6
<1>9. Board!TypeOK'
  <2>1. \A f \in Handlers : batch'[f].op = "ai" => batch'[f].todo \subseteq batch'[f].rows
    <3> SUFFICES ASSUME NEW f \in Handlers, batch'[f].op = "ai" PROVE batch'[f].todo \subseteq batch'[f].rows
      OBVIOUS
    <3>1. batch[g].todo \subseteq batch[g].rows
      BY DEF BoardTyped, Board!TypeOK, Board!Ask
    <3>2. CASE f = g
      BY <1>4, <1>6, <3>1, <3>2
    <3>3. CASE f # g
      BY <1>6, <3>3 DEF BoardTyped, Board!TypeOK
    <3> QED BY <3>2, <3>3
  <2> QED BY <1>5, <2>1 DEF BoardTyped, Board!TypeOK
<1> QED BY <1>5, <1>6, <1>7, <1>8, <1>9 DEF BoardTyped

(* A commit: the rows of the batch are triaged, the duplicates among them archived. *)
LEMMA TriageCommitTyped ==
    ASSUME BoardTyped, NEW g \in Handlers, Board!TriageCommit(g)
    PROVE  /\ BoardTyped'
           /\ UNCHANGED closing
           /\ batch' = [batch EXCEPT ![g] = Board!Idle]
           /\ batch[g] \in WithModel
           /\ \A t \in Board!Numbers :
                 /\ ticket'[t].inputs = ticket[t].inputs
                 /\ IF t \in batch[g].rows
                    THEN /\ ticket'[t].triages = ticket[t].triages + 1 /\ ticket'[t].newer = FALSE
                         /\ ticket'[t].dup \in {ticket[t].dup, batch[g].dup[t]}
                    ELSE ticket'[t] = ticket[t]
<1>1. batch[g] \in WithModel
  BY IsWithModel DEF Board!TriageCommit
<1>2. /\ batch' = [batch EXCEPT ![g] = Board!Idle] /\ UNCHANGED closing
  BY DEF Board!TriageCommit
<1>3. DOMAIN ticket' = Board!Numbers /\ ticket' = [t \in Board!Numbers |-> ticket'[t]]
  BY DEF Board!TriageCommit
<1>4. ASSUME NEW t \in Board!Numbers
      PROVE  /\ ticket'[t].inputs = ticket[t].inputs
             /\ ticket'[t] \in TicketRows
             /\ IF t \in batch[g].rows
                THEN /\ ticket'[t].triages = ticket[t].triages + 1 /\ ticket'[t].newer = FALSE
                     /\ ticket'[t].dup \in {ticket[t].dup, batch[g].dup[t]}
                ELSE ticket'[t] = ticket[t]
  <2>1. ticket[t] \in TicketRows
    BY <1>4 DEF BoardTyped, Board!TypeOK, TicketRows
  <2>2. batch[g].dup[t] \in 0 .. MaxTicket
    BY <1>1, <1>4 DEF WithModel
  <2>3. ticket'[t] = IF t \notin batch[g].rows THEN ticket[t]
          ELSE [ticket[t] EXCEPT !.triages = @ + 1, !.newer = FALSE,
                                 !.status = IF batch[g].dup[t] # 0 THEN "archived" ELSE @,
                                 !.dup = IF batch[g].dup[t] # 0 THEN batch[g].dup[t] ELSE @]
    BY <1>4 DEF Board!TriageCommit
  <2>4. CASE t \notin batch[g].rows
    BY <2>1, <2>3, <2>4
  <2>5. CASE t \in batch[g].rows /\ batch[g].dup[t] # 0
    <3>1. ticket'[t] = [ticket[t] EXCEPT !.triages = @ + 1, !.newer = FALSE,
                                         !.status = "archived", !.dup = batch[g].dup[t]]
      BY <2>3, <2>5
    <3>2. /\ ticket'[t].triages = ticket[t].triages + 1 /\ ticket'[t].newer = FALSE
          /\ ticket'[t].inputs = ticket[t].inputs /\ ticket'[t].dup = batch[g].dup[t]
      BY <2>1, <3>1 DEF TicketRows
    <3>3. ticket'[t] \in TicketRows
      <4>1. ticket'[t] = [status |-> "archived", triages |-> ticket[t].triages + 1,
                          inputs |-> ticket[t].inputs, newer |-> FALSE, dup |-> batch[g].dup[t]]
        BY <2>1, <3>1 DEF TicketRows
      <4> QED BY <2>1, <2>2, <4>1 DEF TicketRows
    <3> QED BY <2>5, <3>2, <3>3
  <2>6. CASE t \in batch[g].rows /\ batch[g].dup[t] = 0
    <3>1. ticket'[t] = [ticket[t] EXCEPT !.triages = @ + 1, !.newer = FALSE,
                                         !.status = ticket[t].status, !.dup = ticket[t].dup]
      BY <2>3, <2>6
    <3>2. /\ ticket'[t].triages = ticket[t].triages + 1 /\ ticket'[t].newer = FALSE
          /\ ticket'[t].inputs = ticket[t].inputs /\ ticket'[t].dup = ticket[t].dup
      BY <2>1, <3>1 DEF TicketRows
    <3>3. ticket'[t] \in TicketRows
      <4>1. ticket'[t] = [status |-> ticket[t].status, triages |-> ticket[t].triages + 1,
                          inputs |-> ticket[t].inputs, newer |-> FALSE, dup |-> ticket[t].dup]
        BY <2>1, <3>1 DEF TicketRows
      <4> QED BY <2>1, <4>1 DEF TicketRows
    <3> QED BY <2>6, <3>2, <3>3
  <2> QED BY <2>4, <2>5, <2>6
<1>5. ticket' \in [Board!Numbers -> TicketRows]
  BY <1>3, <1>4
<1>6. batch' \in [Handlers -> {Board!Idle} \cup Picked \cup WithModel]
  BY <1>2 DEF BoardTyped
<1>7. \A f \in Handlers : batch'[f].op = "ai" => batch'[f].todo \subseteq batch'[f].rows
  BY <1>2 DEF BoardTyped, Board!TypeOK, Board!Idle
<1> QED BY <1>1, <1>2, <1>4, <1>5, <1>6, <1>7 DEF BoardTyped, Board!TypeOK, TicketRows

(* What people do to a ticket: its inputs do not fall, one that adds an input makes it newer,
   and none is triaged or merged. *)
Handled(t) ==
    /\ ticket'[t].triages = ticket[t].triages /\ ticket'[t].dup = ticket[t].dup
    /\ \/ ticket'[t].inputs = ticket[t].inputs /\ ticket'[t].newer = ticket[t].newer
       \/ ticket'[t].inputs = ticket[t].inputs + 1 /\ ticket'[t].newer = TRUE

LEMMA HandledTyped ==
    ASSUME Board!TicketsAssumption, BoardTyped, NEW t \in Board!Numbers,
           \/ Board!CloseLoad(t) \/ Board!CloseCommit(t) \/ Board!Reopen(t) \/ Board!Note(t)
           \/ Board!Archive(t)
           \/ \E s \in {"pending", "in_progress", "blocked", "done", "archived"} : Board!SetStatus(t, s)
    PROVE  /\ BoardTyped' /\ UNCHANGED batch
           /\ \A u \in Board!Numbers : Handled(u)
<1> USE DEF BoardTyped, Board!TypeOK, Handled
<1>1. ASSUME NEW s \in {"pending", "in_progress", "blocked", "done", "archived"}, Board!Write(t, s),
             closing' \subseteq Board!Numbers
      PROVE  BoardTyped' /\ UNCHANGED batch /\ \A u \in Board!Numbers : Handled(u)
  BY <1>1 DEF Board!Write
<1>2. CASE \E s \in {"pending", "in_progress", "blocked", "done", "archived"} : Board!SetStatus(t, s)
  BY <1>1, <1>2 DEF Board!SetStatus
<1>3. CASE Board!Archive(t) \/ Board!CloseCommit(t)
  BY <1>1, <1>3 DEF Board!Archive, Board!CloseCommit
<1>4. CASE Board!CloseLoad(t)
  BY <1>4 DEF Board!CloseLoad
<1>5. CASE Board!Reopen(t)
  BY <1>5 DEF Board!Reopen
<1>6. CASE Board!Note(t)
  <2>1. ticket[t].inputs + 1 \in 0 .. MaxInputs
    BY <1>6 DEF Board!Note, Board!TicketsAssumption
  <2>a. /\ ticket' = [ticket EXCEPT ![t].inputs = @ + 1, ![t].newer = TRUE]
        /\ UNCHANGED <<closing, batch>>
    BY <1>6 DEF Board!Note
  <2>2. ticket' \in [Board!Numbers -> TicketRows]
    BY <2>1, <2>a DEF TicketRows
  <2>3. \A u \in Board!Numbers : Handled(u)
    BY <2>a
  <2> QED BY <2>a, <2>2, <2>3 DEF TicketRows
<1> QED BY <1>2, <1>3, <1>4, <1>5, <1>6

LEMMA FileTyped ==
    ASSUME BoardTyped, Board!File
    PROVE  BoardTyped' /\ UNCHANGED batch /\ \A u \in Board!Numbers : Handled(u)
<1> USE DEF BoardTyped, Board!TypeOK, Handled
<1>1. PICK n : ticket' = [ticket EXCEPT ![n].status = "pending"]
  BY DEF Board!File
<1>2. UNCHANGED <<closing, batch>>
  BY DEF Board!File
<1> QED BY <1>1, <1>2

LEMMA SelectTyped ==
    ASSUME BoardTyped, NEW g \in Handlers, Board!Select(g)
    PROVE  /\ BoardTyped' /\ UNCHANGED ticket
           /\ \A f \in Handlers \ {g} : batch'[f] = batch[f]
           /\ batch'[g].op = "picked" /\ batch'[g].rows \subseteq Board!Selectable
<1>1. Board!Newest \subseteq Board!Selectable /\ Board!Selectable \subseteq Board!Numbers
  BY DEF Board!Newest, Board!Selectable, Board!Filed
<1>2. /\ batch' = [batch EXCEPT ![g] = [op |-> "picked", rows |-> Board!Newest]]
      /\ UNCHANGED <<ticket, closing>>
  BY DEF Board!Select
<1>3. [op |-> "picked", rows |-> Board!Newest] \in Picked
  BY <1>1 DEF Picked
<1> QED BY <1>1, <1>2, <1>3 DEF BoardTyped, Board!TypeOK

LEMMA ContextTyped ==
    ASSUME BoardTyped, Board!TicketsAssumption, NEW g \in Handlers, Board!Context(g)
    PROVE  /\ BoardTyped' /\ UNCHANGED ticket
           /\ \A f \in Handlers \ {g} : batch'[f] = batch[f]
           /\ batch[g].op = "picked" /\ batch'[g].op = "ai" /\ batch'[g].rows = batch[g].rows
           /\ \A t \in Board!Numbers : batch'[g].dup[t] = 0
<1>1. batch[g].rows \subseteq Board!Numbers
  BY DEF Board!Context, BoardTyped, Board!Idle, Picked, WithModel
<1> DEFINE new == [op |-> "ai", rows |-> batch[g].rows, todo |-> batch[g].rows,
                   again |-> {t \in batch[g].rows : ticket[t].triages > 0},
                   open |-> {t \in Board!Filed : ticket[t].status \in {"pending", "in_progress"}},
                   dup |-> [t \in Board!Numbers |-> 0]]
<1>2. batch' = [batch EXCEPT ![g] = new] /\ UNCHANGED <<ticket, closing>> /\ batch[g].op = "picked"
  BY DEF Board!Context
<1>3. new \in WithModel
  <2>1. {t \in Board!Filed : ticket[t].status \in {"pending", "in_progress"}} \subseteq Board!Numbers
    BY DEF Board!Filed
  <2>2. 0 \in 0 .. MaxTicket
    BY DEF Board!TicketsAssumption
  <2> QED BY <1>1, <2>1, <2>2 DEF WithModel
<1>4. /\ new.op = "ai" /\ new.rows = batch[g].rows /\ new.todo = new.rows
      /\ new.dup = [t \in Board!Numbers |-> 0]
  OBVIOUS
<1> HIDE DEF new
<1>5. batch'[g] = new /\ \A f \in Handlers \ {g} : batch'[f] = batch[f]
  BY <1>2 DEF BoardTyped
<1> QED BY <1>2, <1>3, <1>4, <1>5 DEF BoardTyped, Board!TypeOK

LEMMA AbortTyped ==
    ASSUME BoardTyped, NEW g \in Handlers, Board!Abort(g)
    PROVE  /\ BoardTyped' /\ UNCHANGED ticket /\ batch' = [batch EXCEPT ![g] = Board!Idle]
BY DEF Board!Abort, BoardTyped, Board!TypeOK, Board!Idle

LEMMA BoardTypedNext ==
    ASSUME Board!TicketsAssumption, BoardTyped, [Board!Next]_(Board!vars)
    PROVE  BoardTyped'
<1>1. CASE UNCHANGED Board!vars
  BY <1>1 DEF Board!vars, BoardTyped, Board!TypeOK
<1> QED BY <1>1, HandledTyped, FileTyped, SelectTyped, ContextTyped, AskTyped, TriageCommitTyped,
           AbortTyped DEF Board!Next

(* Every column of a ticket holds what it may hold. *)
THEOREM TicketsTyped ==
    ASSUME Board!TicketsAssumption PROVE Board!Spec => []Board!TypeOK
<1>1. BoardTyped => Board!TypeOK
  BY DEF BoardTyped
<1>2. Board!Init => BoardTyped
  BY BoardTypedInit
<1>3. BoardTyped /\ [Board!Next]_(Board!vars) => BoardTyped'
  BY BoardTypedNext
<1> QED BY <1>1, <1>2, <1>3, PTL DEF Board!Spec

(* A ticket that may be triaged has had fewer triages than reasons. *)
Due(t) == ticket[t].triages = 0 \/ ticket[t].newer

TriageInv ==
    /\ BoardTyped
    /\ \A t \in Board!Numbers : /\ ticket[t].triages <= ticket[t].inputs + 1
                                /\ ticket[t].newer => ticket[t].triages <= ticket[t].inputs
                                /\ ticket[t].dup # t
    /\ \A g \in Handlers : batch[g].op # "none" => \A t \in batch[g].rows : Due(t)
    /\ \A g \in Handlers : batch[g].op = "ai" => \A t \in Board!Numbers : batch[g].dup[t] # t

LEMMA TriageInit == ASSUME Board!TicketsAssumption, Board!Init PROVE TriageInv
BY BoardTypedInit DEF Board!Init, TriageInv, Board!NoTicket, Board!Idle, Board!Numbers

LEMMA TriageNext ==
    ASSUME Board!TicketsAssumption, OneHandler, TriageInv, [Board!Next]_(Board!vars)
    PROVE  TriageInv'
<1>0. BoardTyped /\ BoardTyped'
  BY BoardTypedNext DEF TriageInv
<1>a. \A t \in Board!Numbers : ticket[t] \in TicketRows /\ ticket'[t] \in TicketRows
  BY <1>0 DEF BoardTyped, Board!TypeOK, TicketRows
<1>b. \A g \in Handlers : batch[g].op # "none" => batch[g].rows \subseteq Board!Numbers
  BY <1>0 DEF BoardTyped, Board!Idle, Picked, WithModel
<1>1. ASSUME UNCHANGED batch, \A u \in Board!Numbers : Handled(u) PROVE TriageInv'
  <2>1. \A t \in Board!Numbers : /\ ticket'[t].triages <= ticket'[t].inputs + 1
                                 /\ ticket'[t].newer => ticket'[t].triages <= ticket'[t].inputs
                                 /\ ticket'[t].dup # t
    BY <1>a, <1>1 DEF TriageInv, Handled, TicketRows
  <2>2. \A t \in Board!Numbers : Due(t) => Due(t)'
    BY <1>1 DEF Due, Handled
  <2>3. ASSUME NEW g \in Handlers, batch'[g].op # "none" PROVE \A t \in batch'[g].rows : Due(t)'
    BY <1>b, <1>1, <2>2, <2>3 DEF TriageInv
  <2>4. ASSUME NEW g \in Handlers, batch'[g].op = "ai"
        PROVE  \A t \in Board!Numbers : batch'[g].dup[t] # t
    BY <1>1, <2>4 DEF TriageInv
  <2>5. (\A g \in Handlers : batch[g].op # "none" => \A t \in batch[g].rows : Due(t))'
    BY <2>3
  <2>6. (\A g \in Handlers : batch[g].op = "ai" => \A t \in Board!Numbers : batch[g].dup[t] # t)'
    BY <2>4
  <2>7. (\A t \in Board!Numbers : /\ ticket[t].triages <= ticket[t].inputs + 1
                                  /\ ticket[t].newer => ticket[t].triages <= ticket[t].inputs
                                  /\ ticket[t].dup # t)'
    BY <2>1
  <2> QED BY <1>0, <2>5, <2>6, <2>7 DEF TriageInv
<1>2. ASSUME NEW g \in Handlers, UNCHANGED ticket,
             batch'[g].op # "none" => \A t \in batch'[g].rows : Due(t),
             batch'[g].op = "ai" => \A t \in Board!Numbers : batch'[g].dup[t] # t
      PROVE  TriageInv'
  BY <1>0, <1>2 DEF TriageInv, Due, OneHandler
<1>3. ASSUME NEW g \in Handlers, Board!Select(g) PROVE TriageInv'
  BY <1>0, <1>2, <1>3, SelectTyped DEF Board!Selectable, Due
<1>4. ASSUME NEW g \in Handlers, Board!Context(g) PROVE TriageInv'
  <2>1. \A t \in Board!Numbers : batch'[g].dup[t] # t
    BY <1>0, <1>4, ContextTyped DEF Board!Numbers
  <2> QED BY <1>0, <1>2, <1>4, <2>1, ContextTyped DEF TriageInv
<1>5. ASSUME NEW g \in Handlers, NEW c \in 0 .. MaxTicket, Board!Ask(g, c) PROVE TriageInv'
  <2>1. batch[g].op = "ai"
    BY <1>5 DEF Board!Ask
  <2>2. \A t \in Board!Numbers : batch'[g].dup[t] # t
    BY <1>0, <1>5, <2>1, AskTyped DEF TriageInv
  <2> QED BY <1>0, <1>2, <1>5, <2>1, <2>2, AskTyped DEF TriageInv
<1>6. ASSUME NEW g \in Handlers, Board!TriageCommit(g) PROVE TriageInv'
  <2>1. batch[g].op = "ai"
    BY <1>6 DEF Board!TriageCommit
  <2>2. ASSUME NEW t \in Board!Numbers
        PROVE  /\ ticket'[t].triages <= ticket'[t].inputs + 1
               /\ ticket'[t].newer => ticket'[t].triages <= ticket'[t].inputs
               /\ ticket'[t].dup # t
    <3>1. CASE t \in batch[g].rows
      <4>1. Due(t) /\ batch[g].dup[t] # t /\ ticket[t].dup # t
        BY <2>1, <2>2, <3>1 DEF TriageInv
      <4>2. ticket[t].triages <= ticket[t].inputs
        BY <1>a, <2>2, <4>1 DEF Due, TriageInv, TicketRows
      <4>3. /\ ticket'[t].inputs = ticket[t].inputs /\ ticket'[t].triages = ticket[t].triages + 1
            /\ ~ticket'[t].newer /\ ticket'[t].dup \in {ticket[t].dup, batch[g].dup[t]}
        BY <1>0, <1>6, <2>2, <3>1, TriageCommitTyped
      <4> QED BY <1>a, <2>2, <4>1, <4>2, <4>3 DEF TicketRows
    <3>2. CASE t \notin batch[g].rows
      <4>1. ticket'[t] = ticket[t]
        BY <1>0, <1>6, <2>2, <3>2, TriageCommitTyped
      <4> QED BY <2>2, <4>1 DEF TriageInv
    <3> QED BY <3>1, <3>2
  <2>3. \A f \in Handlers : batch'[f].op = "none"
    <3>1. batch' = [batch EXCEPT ![g] = Board!Idle] /\ Handlers = {g}
      BY <1>0, <1>6, TriageCommitTyped DEF OneHandler
    <3> QED BY <1>0, <3>1 DEF BoardTyped, Board!Idle
  <2> QED BY <1>0, <2>2, <2>3 DEF TriageInv
<1>7. ASSUME NEW g \in Handlers, Board!Abort(g) PROVE TriageInv'
  BY <1>0, <1>2, <1>7, AbortTyped DEF BoardTyped, Board!Idle
<1>8. CASE UNCHANGED Board!vars
  BY <1>0, <1>8 DEF Board!vars, TriageInv, Due
<1> QED BY <1>0, <1>1, <1>3, <1>4, <1>5, <1>6, <1>7, <1>8, HandledTyped, FileTyped DEF Board!Next

LEMMA DueOnce == TriageInv => Board!TriagedOnce
<1> SUFFICES ASSUME TriageInv, NEW t \in Board!Numbers
             PROVE  ticket[t].triages <= 1 + ticket[t].inputs /\ ticket[t].dup # t
  BY DEF Board!TriagedOnce, Board!Filed
<1>1. ticket[t] \in TicketRows
  BY DEF TriageInv, BoardTyped, Board!TypeOK, TicketRows
<1> QED BY <1>1 DEF TriageInv, TicketRows
-----------------------------------------------------------------------------
(***************************************************************************)
(* Bookings.  With one handler what it has read still holds when it        *)
(* commits: the days and the slot it found free are free, and the status   *)
(* it moves on from is the one the row has.  Only a walk-in comes in       *)
(* between, and has no slot.                                               *)
(***************************************************************************)
Calendar == INSTANCE Bookings

BookingRows == [status : {"unused", "completed", "cancelled"} \cup Calendar!Active,
                first : Calendar!Days, last : Calendar!Days]
ApptRows == [status : {"unused", "scheduled", "waiting", "in_service"} \cup Calendar!Over,
             slot : Calendar!Days \cup {Calendar!NoSlot}, type : {"booked", "walk_in"}]

CalendarRequests ==
    {Calendar!Idle}
    \cup [op : {"book"}, first : Calendar!Days, last : Calendar!Days]
    \cup [op : {"booking"}, id : Bookings, to : {"in_use", "completed", "cancelled"}]
    \cup [op : {"appt"}, slot : Calendar!Days]
    \cup [op : {"move"}, id : Appointments, seen : ApptRows]
    \cup [op : {"status"}, id : Appointments, to : {"waiting", "in_service"} \cup Calendar!Over]

CalendarTyped ==
    /\ booking \in [Bookings -> BookingRows]
    /\ appt \in [Appointments -> ApptRows]
    /\ moved \subseteq Appointments
    /\ h \in [Handlers -> CalendarRequests]

(* What a handler has read still holds. *)
StillFree(r) ==
    /\ r.op = "book" => r.first <= r.last /\ ~Calendar!Taken(r.first, r.last)
    /\ r.op = "booking" => r.to \in Calendar!BookingNext(booking[r.id].status)
    /\ r.op = "appt" => \A a \in Appointments : appt[a].type = "booked" /\ appt[a].slot = r.slot
                                               => appt[a].status \in Calendar!Over
    /\ r.op = "move" => r.seen = appt[r.id] /\ appt[r.id].status # "unused"
    /\ r.op = "status" => r.to \in Calendar!ApptNext(appt[r.id].status)

CalendarInv ==
    /\ CalendarTyped
    /\ Calendar!NoDoubleBooking
    /\ \A p \in Handlers : StillFree(h[p])

LEMMA CalendarInit ==
    ASSUME Calendar!BookingsAssumption, Calendar!Init PROVE CalendarInv
<1>1. CalendarTyped
  BY DEF Calendar!Init, CalendarTyped, Calendar!BookingsAssumption, BookingRows, ApptRows,
         Calendar!NoBooking, Calendar!NoAppt, Calendar!Days, Calendar!NoSlot, CalendarRequests
<1>2. Calendar!NoDoubleBooking
  BY DEF Calendar!Init, Calendar!NoDoubleBooking, Calendar!NoBooking, Calendar!NoAppt, Calendar!Active
<1>3. \A p \in Handlers : StillFree(h[p])
  BY DEF Calendar!Init, StillFree, Calendar!Idle
<1> QED BY <1>1, <1>2, <1>3 DEF CalendarInv

(* A handler begins with a request. *)
LEMMA CalendarBegins ==
    ASSUME CalendarTyped, NEW p \in Handlers, NEW r \in CalendarRequests, h' = [h EXCEPT ![p] = r],
           UNCHANGED <<booking, appt, moved>>
    PROVE  CalendarTyped'
BY DEF CalendarTyped

(* The row of an appointment that was moved has the slot, and all else as before, from
   whatever row the handler had read. *)
LEMMA MovedRow ==
    ASSUME NEW cur \in ApptRows, NEW seen \in ApptRows,
           NEW slot \in Calendar!Days \cup {Calendar!NoSlot}
    PROVE  LET row == Calendar!Flushed(cur, seen, [seen EXCEPT !.slot = slot])
           IN  /\ row \in ApptRows
               /\ row.status = cur.status /\ row.type = cur.type
<1> DEFINE new == [seen EXCEPT !.slot = slot]
           row == Calendar!Flushed(cur, seen, new)
<1>1. /\ new.status = seen.status /\ new.type = seen.type /\ new.slot = slot
  BY DEF ApptRows
<1>2. row = [status |-> cur.status, type |-> cur.type,
             slot |-> IF slot = seen.slot THEN cur.slot ELSE slot]
  BY <1>1 DEF ApptRows, Calendar!Flushed
<1> QED BY <1>2 DEF ApptRows

(* The status a row moves on to is another one, and never comes back from Over. *)
LEMMA NextStatus ==
    ASSUME NEW s, NEW t
    PROVE  /\ t \in Calendar!BookingNext(s)
              => s \in Calendar!Active /\ t \in {"in_use", "completed", "cancelled"}
           /\ t \in Calendar!ApptNext(s)
              => /\ t \in {"waiting", "in_service"} \cup Calendar!Over
                 /\ s # "unused"
                 /\ s \in Calendar!Over => t \in Calendar!Over
BY DEF Calendar!BookingNext, Calendar!ApptNext, Calendar!Active, Calendar!Over

(* One step of the calendar keeps the types. *)
LEMMA CalendarStaysTyped ==
    ASSUME CalendarTyped, [Calendar!Next]_(Calendar!vars) PROVE CalendarTyped'
<1> USE DEF CalendarTyped
<1>1. ASSUME NEW a \in Appointments, Calendar!WalkIn(a) PROVE CalendarTyped'
  <2>1. [status |-> "waiting", slot |-> Calendar!NoSlot, type |-> "walk_in"] \in ApptRows
    BY DEF ApptRows
  <2> QED BY <1>1, <2>1 DEF Calendar!WalkIn
<1>2. ASSUME NEW p \in Handlers, NEW f \in Calendar!Days, NEW l \in Calendar!Days,
             Calendar!BookLoad(p, f, l)
      PROVE  CalendarTyped'
  <2>1. [op |-> "book", first |-> f, last |-> l] \in CalendarRequests
    BY DEF CalendarRequests
  <2> QED BY <1>2, <2>1 DEF Calendar!BookLoad
<1>3. ASSUME NEW p \in Handlers, NEW b \in Bookings, Calendar!BookCommit(p, b)
      PROVE  CalendarTyped'
  <2>1. h[p] \in CalendarRequests /\ h[p].op = "book"
    BY <1>3 DEF Calendar!BookCommit, Calendar!Finish
  <2>2. h[p].first \in Calendar!Days /\ h[p].last \in Calendar!Days
    BY <2>1 DEF CalendarRequests, Calendar!Idle
  <2>3. [status |-> "scheduled", first |-> h[p].first, last |-> h[p].last] \in BookingRows
    BY <2>2 DEF BookingRows, Calendar!Active
  <2> QED BY <1>3, <2>3 DEF Calendar!BookCommit, Calendar!Finish, CalendarRequests
<1>4. ASSUME NEW p \in Handlers, NEW b \in Bookings,
             NEW s \in {"in_use", "completed", "cancelled"}, Calendar!BookingLoad(p, b, s)
      PROVE  CalendarTyped'
  <2>1. [op |-> "booking", id |-> b, to |-> s] \in CalendarRequests
    BY DEF CalendarRequests
  <2> QED BY <1>4, <2>1 DEF Calendar!BookingLoad
<1>5. ASSUME NEW p \in Handlers, Calendar!BookingCommit(p) PROVE CalendarTyped'
  <2>1. h[p] \in CalendarRequests /\ h[p].op = "booking"
    BY <1>5 DEF Calendar!BookingCommit, Calendar!Finish
  <2>2. h[p].id \in Bookings /\ h[p].to \in {"in_use", "completed", "cancelled"}
    BY <2>1 DEF CalendarRequests, Calendar!Idle
  <2>3. [booking[h[p].id] EXCEPT !.status = h[p].to] \in BookingRows
    BY <2>2 DEF BookingRows, Calendar!Active
  <2> QED BY <1>5, <2>2, <2>3 DEF Calendar!BookingCommit, Calendar!Finish, CalendarRequests
<1>6. ASSUME NEW p \in Handlers, NEW d \in Calendar!Days, Calendar!ApptLoad(p, d)
      PROVE  CalendarTyped'
  <2>1. [op |-> "appt", slot |-> d] \in CalendarRequests
    BY DEF CalendarRequests
  <2> QED BY <1>6, <2>1 DEF Calendar!ApptLoad
<1>7. ASSUME NEW p \in Handlers, NEW a \in Appointments, Calendar!ApptCommit(p, a)
      PROVE  CalendarTyped'
  <2>1. h[p] \in CalendarRequests /\ h[p].op = "appt"
    BY <1>7 DEF Calendar!ApptCommit, Calendar!Finish
  <2>2. h[p].slot \in Calendar!Days
    BY <2>1 DEF CalendarRequests, Calendar!Idle
  <2>3. [status |-> "scheduled", slot |-> h[p].slot, type |-> "booked"] \in ApptRows
    BY <2>2 DEF ApptRows
  <2> QED BY <1>7, <2>3 DEF Calendar!ApptCommit, Calendar!Finish, CalendarRequests
<1>8. ASSUME NEW p \in Handlers, NEW a \in Appointments, Calendar!MoveLoad(p, a)
      PROVE  CalendarTyped'
  <2>1. [op |-> "move", id |-> a, seen |-> appt[a]] \in CalendarRequests
    BY DEF CalendarRequests
  <2> QED BY <1>8, <2>1 DEF Calendar!MoveLoad
<1>9. ASSUME NEW p \in Handlers, NEW d \in Calendar!Days \cup {Calendar!NoSlot},
              Calendar!MoveCommit(p, d)
       PROVE  CalendarTyped'
  <2>1. h[p] \in CalendarRequests /\ h[p].op = "move"
    BY <1>9 DEF Calendar!MoveCommit, Calendar!Finish
  <2>2. h[p].id \in Appointments /\ h[p].seen \in ApptRows
    BY <2>1 DEF CalendarRequests, Calendar!Idle
  <2>3. Calendar!Flushed(appt[h[p].id], h[p].seen, [h[p].seen EXCEPT !.slot = d]) \in ApptRows
    BY <2>2, MovedRow
  <2> QED BY <1>9, <2>2, <2>3 DEF Calendar!MoveCommit, Calendar!Finish, CalendarRequests
<1>10. ASSUME NEW p \in Handlers, NEW a \in Appointments,
              NEW s \in {"waiting", "in_service"} \cup Calendar!Over, Calendar!StatusLoad(p, a, s)
       PROVE  CalendarTyped'
  <2>1. [op |-> "status", id |-> a, to |-> s] \in CalendarRequests
    BY DEF CalendarRequests
  <2> QED BY <1>10, <2>1 DEF Calendar!StatusLoad
<1>11. ASSUME NEW p \in Handlers, Calendar!StatusCommit(p) PROVE CalendarTyped'
  <2>1. h[p] \in CalendarRequests /\ h[p].op = "status"
    BY <1>11 DEF Calendar!StatusCommit, Calendar!Finish
  <2>2. h[p].id \in Appointments /\ h[p].to \in {"waiting", "in_service"} \cup Calendar!Over
    BY <2>1 DEF CalendarRequests, Calendar!Idle
  <2>3. [appt[h[p].id] EXCEPT !.status = h[p].to] \in ApptRows
    BY <2>2 DEF ApptRows
  <2> QED BY <1>11, <2>2, <2>3 DEF Calendar!StatusCommit, Calendar!Finish, CalendarRequests
<1>12. ASSUME NEW p \in Handlers, Calendar!Abort(p) PROVE CalendarTyped'
  BY <1>12 DEF Calendar!Abort, CalendarRequests
<1>13. ASSUME UNCHANGED Calendar!vars PROVE CalendarTyped'
  BY <1>13 DEF Calendar!vars
<1> QED BY <1>1, <1>2, <1>3, <1>4, <1>5, <1>6, <1>7, <1>8, <1>9, <1>10, <1>11, <1>12, <1>13
        DEF Calendar!Next

(* camper_router.py: a booking has days of the calendar and one of its statuses, an
   appointment a slot or none, however requests interleave. *)
THEOREM CalendarTypedHolds ==
    ASSUME Calendar!BookingsAssumption PROVE Calendar!Spec => []Calendar!TypeOK
<1>1. Calendar!Init => CalendarTyped
  BY CalendarInit DEF CalendarInv
<1>2. CalendarTyped /\ [Calendar!Next]_(Calendar!vars) => CalendarTyped'
  BY CalendarStaysTyped
<1>3. CalendarTyped => Calendar!TypeOK
  BY DEF CalendarTyped, Calendar!TypeOK, BookingRows, ApptRows
<1> QED BY <1>1, <1>2, <1>3, PTL DEF Calendar!Spec

(* A single handler that has nothing in hand has read nothing. *)
LEMMA NothingRead ==
    ASSUME OneHandler, h \in [Handlers -> CalendarRequests], NEW p \in Handlers,
           h' = [h EXCEPT ![p] = Calendar!Idle]
    PROVE  \A q \in Handlers : StillFree(h[q])'
BY DEF OneHandler, StillFree, Calendar!Idle

(* A single handler that has begun with r has read what r holds. *)
LEMMA JustRead ==
    ASSUME OneHandler, h \in [Handlers -> CalendarRequests], NEW p \in Handlers, NEW r, StillFree(r),
           h' = [h EXCEPT ![p] = r], UNCHANGED <<booking, appt, moved>>
    PROVE  /\ \A q \in Handlers : StillFree(h[q])'
           /\ Calendar!NoDoubleBooking => Calendar!NoDoubleBooking'
<1>1. \A q \in Handlers : h'[q] = r
  BY DEF OneHandler
<1>2. \A q \in Handlers : StillFree(h[q])'
  BY <1>1 DEF StillFree, Calendar!Taken
<1>3. Calendar!NoDoubleBooking => Calendar!NoDoubleBooking'
  BY DEF Calendar!NoDoubleBooking
<1> QED BY <1>2, <1>3

(* With one handler no step of the calendar books a day or a slot twice. *)
LEMMA CalendarStaysFree ==
    ASSUME OneHandler, Calendar!BookingsAssumption, CalendarInv, [Calendar!Next]_(Calendar!vars)
    PROVE  CalendarInv'
<1>1. CalendarTyped /\ CalendarTyped' /\ h \in [Handlers -> CalendarRequests]
  BY CalendarStaysTyped DEF CalendarInv, CalendarTyped
<1>2. Calendar!NoDoubleBooking /\ \A p \in Handlers : StillFree(h[p])
  BY DEF CalendarInv
<1> DEFINE Goal == Calendar!NoDoubleBooking' /\ \A q \in Handlers : StillFree(h[q])'
<1>3. ASSUME NEW a \in Appointments, Calendar!WalkIn(a) PROVE Goal
  <2>1. /\ appt[a].status = "unused" /\ h' = h /\ booking' = booking /\ moved' = moved
        /\ appt'[a].type = "walk_in"
        /\ \A c \in Appointments : c # a => appt'[c] = appt[c]
    BY <1>1, <1>3 DEF Calendar!WalkIn, CalendarTyped
  <2>2. Calendar!NoDoubleBooking'
    BY <1>2, <2>1 DEF Calendar!NoDoubleBooking
  <2>3. ASSUME NEW q \in Handlers PROVE StillFree(h[q])'
    <3>1. h[q] \in CalendarRequests
      BY <1>1
    <3>2. h[q].op \in {"move", "status"} => h[q].id \in Appointments /\ h[q].id # a
      BY <1>2, <2>1, <3>1, NextStatus DEF StillFree, CalendarRequests, Calendar!Idle
    <3> QED BY <1>2, <2>1, <3>2 DEF StillFree, Calendar!Taken
  <2> QED BY <2>2, <2>3
<1>4. ASSUME NEW p \in Handlers, NEW f \in Calendar!Days, NEW l \in Calendar!Days,
             Calendar!BookLoad(p, f, l)
      PROVE  Goal
  <2>1. StillFree([op |-> "book", first |-> f, last |-> l])
    BY <1>4 DEF Calendar!BookLoad, StillFree
  <2> QED BY <1>1, <1>2, <1>4, <2>1, JustRead DEF Calendar!BookLoad
<1>5. ASSUME NEW p \in Handlers, NEW b \in Bookings, Calendar!BookCommit(p, b) PROVE Goal
  <2>1. /\ booking'[b] = [status |-> "scheduled", first |-> h[p].first, last |-> h[p].last]
        /\ \A c \in Bookings : c # b => booking'[c] = booking[c]
        /\ appt' = appt /\ moved' = moved /\ h' = [h EXCEPT ![p] = Calendar!Idle]
    BY <1>1, <1>5 DEF Calendar!BookCommit, Calendar!Finish, CalendarTyped
  <2>2. /\ h[p] \in CalendarRequests /\ h[p].op = "book"
        /\ ~Calendar!Taken(h[p].first, h[p].last)
    BY <1>1, <1>2, <1>5 DEF Calendar!BookCommit, Calendar!Finish, StillFree
  <2>3. h[p].first \in Int /\ h[p].last \in Int
    BY <2>2 DEF CalendarRequests, Calendar!Idle, Calendar!Days
  <2>4. \A c \in Bookings : booking[c].first \in Int /\ booking[c].last \in Int
    BY <1>1 DEF CalendarTyped, BookingRows, Calendar!Days
  <2>5. \A c \in Bookings : booking[c].status \in Calendar!Active
                            => booking[c].last < h[p].first \/ h[p].last < booking[c].first
    BY <2>2, <2>3, <2>4 DEF Calendar!Taken
  <2>6. Calendar!NoDoubleBooking'
    BY <1>2, <2>1, <2>5 DEF Calendar!NoDoubleBooking
  <2> QED BY <1>1, <2>1, <2>6, NothingRead
<1>6. ASSUME NEW p \in Handlers, NEW b \in Bookings,
             NEW s \in {"in_use", "completed", "cancelled"}, Calendar!BookingLoad(p, b, s)
      PROVE  Goal
  <2>1. StillFree([op |-> "booking", id |-> b, to |-> s])
    BY <1>6 DEF Calendar!BookingLoad, StillFree
  <2> QED BY <1>1, <1>2, <1>6, <2>1, JustRead DEF Calendar!BookingLoad
<1>7. ASSUME NEW p \in Handlers, Calendar!BookingCommit(p) PROVE Goal
  <2>1. PICK b \in Bookings : b = h[p].id
    BY <1>1, <1>7 DEF Calendar!BookingCommit, Calendar!Finish, CalendarRequests, Calendar!Idle
  <2>2. booking[b].status \in Calendar!Active
    BY <1>2, <1>7, <2>1, NextStatus DEF Calendar!BookingCommit, Calendar!Finish, StillFree
  <2>3. /\ booking' = [booking EXCEPT ![b].status = h[p].to]
        /\ appt' = appt /\ moved' = moved /\ h' = [h EXCEPT ![p] = Calendar!Idle]
    BY <1>7, <2>1 DEF Calendar!BookingCommit, Calendar!Finish
  <2>4. \A c \in Bookings : /\ booking'[c].first = booking[c].first
                            /\ booking'[c].last = booking[c].last
                            /\ booking'[c].status \in Calendar!Active
                               => booking[c].status \in Calendar!Active
    BY <1>1, <2>2, <2>3 DEF CalendarTyped, BookingRows
  <2>5. Calendar!NoDoubleBooking'
    BY <1>2, <2>3, <2>4 DEF Calendar!NoDoubleBooking
  <2> QED BY <1>1, <2>3, <2>5, NothingRead
<1>8. ASSUME NEW p \in Handlers, NEW d \in Calendar!Days, Calendar!ApptLoad(p, d) PROVE Goal
  <2>1. StillFree([op |-> "appt", slot |-> d])
    BY <1>8 DEF Calendar!ApptLoad, StillFree
  <2> QED BY <1>1, <1>2, <1>8, <2>1, JustRead DEF Calendar!ApptLoad
<1>9. ASSUME NEW p \in Handlers, NEW a \in Appointments, Calendar!ApptCommit(p, a) PROVE Goal
  <2>1. /\ appt'[a] = [status |-> "scheduled", slot |-> h[p].slot, type |-> "booked"]
        /\ \A c \in Appointments : c # a => appt'[c] = appt[c]
        /\ booking' = booking /\ moved' = moved /\ h' = [h EXCEPT ![p] = Calendar!Idle]
    BY <1>1, <1>9 DEF Calendar!ApptCommit, Calendar!Finish, CalendarTyped
  <2>2. \A c \in Appointments : appt[c].type = "booked" /\ appt[c].slot = h[p].slot
                                => appt[c].status \in Calendar!Over
    BY <1>2, <1>9 DEF Calendar!ApptCommit, Calendar!Finish, StillFree
  <2>3. Calendar!NoDoubleBooking'
    BY <1>2, <2>1, <2>2 DEF Calendar!NoDoubleBooking
  <2> QED BY <1>1, <2>1, <2>3, NothingRead
<1>10. ASSUME NEW p \in Handlers, NEW a \in Appointments, Calendar!MoveLoad(p, a) PROVE Goal
  <2>1. StillFree([op |-> "move", id |-> a, seen |-> appt[a]])
    BY <1>10 DEF Calendar!MoveLoad, StillFree
  <2> QED BY <1>1, <1>2, <1>10, <2>1, JustRead DEF Calendar!MoveLoad
<1>11. ASSUME NEW p \in Handlers, NEW d \in Calendar!Days \cup {Calendar!NoSlot},
              Calendar!MoveCommit(p, d)
       PROVE  Goal
  <2>1. PICK a \in Appointments : a = h[p].id
    BY <1>1, <1>11 DEF Calendar!MoveCommit, Calendar!Finish, CalendarRequests, Calendar!Idle
  <2>2. /\ moved' = moved \cup {a} /\ booking' = booking /\ h' = [h EXCEPT ![p] = Calendar!Idle]
        /\ \A c \in Appointments : c # a => appt'[c] = appt[c]
    BY <1>1, <1>11, <2>1 DEF Calendar!MoveCommit, Calendar!Finish, CalendarTyped
  <2>3. Calendar!NoDoubleBooking'
    BY <1>2, <2>2 DEF Calendar!NoDoubleBooking
  <2> QED BY <1>1, <2>2, <2>3, NothingRead
<1>12. ASSUME NEW p \in Handlers, NEW a \in Appointments,
              NEW s \in {"waiting", "in_service"} \cup Calendar!Over, Calendar!StatusLoad(p, a, s)
       PROVE  Goal
  <2>1. StillFree([op |-> "status", id |-> a, to |-> s])
    BY <1>12 DEF Calendar!StatusLoad, StillFree
  <2> QED BY <1>1, <1>2, <1>12, <2>1, JustRead DEF Calendar!StatusLoad
<1>13. ASSUME NEW p \in Handlers, Calendar!StatusCommit(p) PROVE Goal
  <2>1. PICK a \in Appointments : a = h[p].id
    BY <1>1, <1>13 DEF Calendar!StatusCommit, Calendar!Finish, CalendarRequests, Calendar!Idle
  <2>2. appt[a].status \in Calendar!Over => h[p].to \in Calendar!Over
    BY <1>2, <1>13, <2>1, NextStatus DEF Calendar!StatusCommit, Calendar!Finish, StillFree
  <2>3. /\ appt' = [appt EXCEPT ![a].status = h[p].to]
        /\ booking' = booking /\ moved' = moved /\ h' = [h EXCEPT ![p] = Calendar!Idle]
    BY <1>13, <2>1 DEF Calendar!StatusCommit, Calendar!Finish
  <2>4. \A c \in Appointments : /\ appt'[c].type = appt[c].type /\ appt'[c].slot = appt[c].slot
                                /\ appt[c].status \in Calendar!Over
                                   => appt'[c].status \in Calendar!Over
    BY <1>1, <2>2, <2>3 DEF CalendarTyped, ApptRows
  <2>5. Calendar!NoDoubleBooking'
    BY <1>2, <2>3, <2>4 DEF Calendar!NoDoubleBooking
  <2> QED BY <1>1, <2>3, <2>5, NothingRead
<1>14. ASSUME NEW p \in Handlers, Calendar!Abort(p) PROVE Goal
  <2>1. Calendar!NoDoubleBooking'
    BY <1>2, <1>14 DEF Calendar!NoDoubleBooking, Calendar!Abort
  <2> QED BY <1>1, <1>14, <2>1, NothingRead DEF Calendar!Abort
<1>15. ASSUME UNCHANGED Calendar!vars PROVE Goal
  BY <1>2, <1>15 DEF Calendar!vars, Calendar!NoDoubleBooking, StillFree, Calendar!Taken
<1>16. Goal
  BY <1>3, <1>4, <1>5, <1>6, <1>7, <1>8, <1>9, <1>10, <1>11, <1>12, <1>13, <1>14, <1>15
     DEF Calendar!Next
<1> QED BY <1>1, <1>16 DEF CalendarInv

(* create_resource_booking and create_appointment, one request at a time: no day of the
   resource and no slot of the book has two takers, however many bookings there are and
   however they are used, cancelled and made again.  Two requests at once do book a day
   twice: hence OneHandler. *)
THEOREM NoDoubleBookingHolds ==
    ASSUME Calendar!BookingsAssumption, OneHandler
    PROVE  Calendar!Spec => []Calendar!NoDoubleBooking
<1>1. Calendar!Init => CalendarInv
  BY CalendarInit
<1>2. CalendarInv /\ [Calendar!Next]_(Calendar!vars) => CalendarInv'
  BY CalendarStaysFree
<1>3. CalendarInv => Calendar!NoDoubleBooking
  BY DEF CalendarInv
<1> QED BY <1>1, <1>2, <1>3, PTL DEF Calendar!Spec
-----------------------------------------------------------------------------
(***************************************************************************)
(* Barcodes.  No two products have the same primary code and no alias is   *)
(* of a product that is not there, so a code scans to at most one product: *)
(* the one whose primary it is, else the one whose alias it is.  A step    *)
(* that leaves every primary and every alias in use where it was, or turns *)
(* a primary into an alias of its product, keeps what scans; a merge hands *)
(* what the duplicate had to the survivor.                                 *)
(***************************************************************************)
Labels == INSTANCE Barcodes

ProductRows == [state : {"none", "active", "inactive"}, primary : Codes \cup {NoCode}]

LabelsTyped == product \in [Products -> ProductRows] /\ alias \in [Codes -> Products \cup {NoProduct}]

OnePrimary ==
    \A p, q \in Products : product[p].primary = product[q].primary /\ product[p].primary # NoCode => p = q

AliasesExist == \A c \in Codes : alias[c] # NoProduct => Labels!Exists(alias[c])

NoneWithoutRow == \A p \in Products : Labels!Exists(p) \/ product[p].primary = NoCode

LabelsInv == LabelsTyped /\ OnePrimary /\ AliasesExist /\ NoneWithoutRow

Bare(c) == \A p \in Products : product[p].primary # c

(* What a code scans to. *)
ScansToOne ==
    \A c \in Codes : /\ \A p \in Products : product[p].primary = c => Labels!Scans(c) = p
                     /\ Bare(c) => Labels!Scans(c) = alias[c]

LEMMA ScansTo == ASSUME Labels!BarcodesAssumption, OnePrimary PROVE ScansToOne
<1>1. ASSUME NEW c \in Codes, NEW p \in Products, product[p].primary = c
      PROVE  Labels!Scans(c) = p
  <2>1. Labels!Owners(c) = {p}
    BY <1>1 DEF Labels!Owners, OnePrimary, Labels!BarcodesAssumption
  <2> QED BY <2>1 DEF Labels!Scans
<1>2. ASSUME NEW c \in Codes, Bare(c) PROVE Labels!Scans(c) = alias[c]
  <2>1. Labels!Owners(c) = {}
    BY <1>2 DEF Labels!Owners, Bare
  <2> QED BY <2>1 DEF Labels!Scans
<1> QED BY <1>1, <1>2 DEF ScansToOne

LEMMA ScansToThen == ASSUME Labels!BarcodesAssumption PROVE OnePrimary' => ScansToOne'
<1>1. OnePrimary => ScansToOne
  BY ScansTo
<1> QED BY <1>1, PTL

(* A code that scans to nothing is nobody's. *)
LEMMA Unknown ==
    ASSUME Labels!BarcodesAssumption, LabelsInv, NEW c \in Codes, Labels!Scans(c) = NoProduct
    PROVE  Bare(c) /\ alias[c] = NoProduct /\ c # NoCode
BY ScansTo DEF ScansToOne, LabelsInv, Bare, Labels!BarcodesAssumption

(* How a code goes on scanning to a product. *)
Stays(c) ==
    /\ \A q \in Products : product[q].primary = c
                           => product'[q].primary = c \/ (Bare(c)' /\ alias'[c] = q)
    /\ Bare(c) => alias[c] = NoProduct \/ (Bare(c)' /\ alias'[c] = alias[c])

LEMMA StaysScanned ==
    ASSUME Labels!BarcodesAssumption, LabelsInv, LabelsInv', NEW c \in Codes, Stays(c)
    PROVE  Labels!Scans(c) = NoProduct \/ Labels!Scans(c)' = Labels!Scans(c)
<1>1. ScansToOne /\ ScansToOne'
  BY ScansTo, ScansToThen DEF LabelsInv
<1>2. CASE Bare(c)
  BY <1>1, <1>2 DEF Stays, ScansToOne
<1>3. CASE ~Bare(c)
  <2>1. PICK q \in Products : product[q].primary = c
    BY <1>3 DEF Bare
  <2> QED BY <1>1, <2>1 DEF Stays, ScansToOne
<1> QED BY <1>2, <1>3
-----------------------------------------------------------------------------
(* What a handler does to the primaries: one product has a code that nobody had, or none. *)
LEMMA OneRewritten ==
    ASSUME Labels!BarcodesAssumption, LabelsInv, NEW p \in Products, NEW c \in Codes \cup {NoCode},
           c = NoCode \/ Bare(c) \/ product[p].primary = c,
           product' \in [Products -> ProductRows], Labels!Exists(p)', product'[p].primary = c,
           \A q \in Products : q # p => product'[q] = product[q],
           alias' \in [Codes -> Products \cup {NoProduct}],
           \A x \in Codes : alias'[x] \in {NoProduct, alias[x], p}
    PROVE  LabelsInv'
<1>1. LabelsTyped'
  BY DEF LabelsTyped
<1>2. OnePrimary'
  BY DEF LabelsInv, OnePrimary, Bare
<1>3. AliasesExist'
  BY DEF LabelsInv, LabelsTyped, AliasesExist, Labels!Exists
<1>4. NoneWithoutRow'
  BY DEF LabelsInv, NoneWithoutRow, Labels!Exists
<1> QED BY <1>1, <1>2, <1>3, <1>4 DEF LabelsInv

LEMMA CreateKeeps ==
    ASSUME Labels!BarcodesAssumption, LabelsInv, NEW p \in Products, NEW c \in Codes \cup {NoCode},
           Labels!Create(p, c)
    PROVE  LabelsInv'
<1>1. c = NoCode \/ Bare(c)
  BY DEF Labels!Create, Labels!Unused, Labels!Owners, Bare
<1>2. [state |-> "active", primary |-> c] \in ProductRows
  BY DEF ProductRows
<1> QED BY <1>1, <1>2, OneRewritten DEF Labels!Create, Labels!Exists, LabelsInv, LabelsTyped

LEMMA CloneKeeps ==
    ASSUME Labels!BarcodesAssumption, LabelsInv, NEW p \in Products, NEW c \in Codes, Labels!Clone(p, c)
    PROVE  LabelsInv' /\ \A x \in Codes : Stays(x)
<1>1. LabelsInv'
  BY CreateKeeps DEF Labels!Clone
<1>2. /\ product[p].primary = NoCode /\ product'[p].primary = c /\ alias' = alias
      /\ \A q \in Products : q # p => product'[q] = product[q]
      /\ Bare(c) /\ alias[c] = NoProduct /\ c # NoCode /\ NoCode \notin Codes
  BY Unknown DEF Labels!Clone, Labels!Create, LabelsInv, LabelsTyped, NoneWithoutRow, Labels!BarcodesAssumption
<1> QED BY <1>1, <1>2 DEF Stays, Bare

LEMMA BindGuessKeeps ==
    ASSUME Labels!BarcodesAssumption, LabelsInv, NEW p \in Products, NEW c \in Codes, Labels!BindGuess(p, c)
    PROVE  LabelsInv' /\ \A x \in Codes : Stays(x)
<1>1. Bare(c) /\ alias[c] = NoProduct
  BY Unknown DEF Labels!BindGuess
<1>2. /\ product' = product /\ Labels!Exists(p) /\ alias' \in [Codes -> Products \cup {NoProduct}]
      /\ alias'[c] = p /\ \A x \in Codes : x # c => alias'[x] = alias[x]
  BY DEF Labels!BindGuess, LabelsInv, LabelsTyped
<1>3. LabelsInv'
  BY <1>2 DEF LabelsInv, LabelsTyped, OnePrimary, AliasesExist, NoneWithoutRow, Labels!Exists
<1> QED BY <1>1, <1>2, <1>3 DEF Stays, Bare

LEMMA BindFirstKeeps ==
    ASSUME Labels!BarcodesAssumption, LabelsInv, NEW p \in Products, NEW c \in Codes, Labels!BindFirst(p, c)
    PROVE  LabelsInv' /\ \A x \in Codes : Stays(x)
<1>1. Bare(c) /\ alias[c] = NoProduct /\ NoCode \notin Codes
  BY Unknown DEF Labels!BindFirst, Labels!BarcodesAssumption
<1>2. product[p].primary = NoCode /\ alias' = alias /\ Labels!Exists(p)
  BY DEF Labels!BindFirst
<1>3. product' = [product EXCEPT ![p].primary = c]
  BY DEF Labels!BindFirst
<1>4. /\ product' \in [Products -> ProductRows] /\ product'[p].state = product[p].state
      /\ product'[p].primary = c /\ \A q \in Products : q # p => product'[q] = product[q]
  BY <1>3 DEF LabelsInv, LabelsTyped, ProductRows
<1>5. LabelsInv'
  BY <1>1, <1>2, <1>4, OneRewritten DEF LabelsInv, LabelsTyped, Labels!Exists
<1> QED BY <1>1, <1>2, <1>4, <1>5 DEF Stays, Bare

LEMMA PromoteKeeps ==
    ASSUME Labels!BarcodesAssumption, LabelsInv, NEW p \in Products, NEW c \in Codes, Labels!Promote(p, c)
    PROVE  LabelsInv' /\ \A x \in Codes : Stays(x)
<1>1. Bare(c) /\ alias[c] = NoProduct /\ NoCode \notin Codes
  BY Unknown DEF Labels!Promote, Labels!BarcodesAssumption
<1>2. PICK old \in Codes : old = product[p].primary
  BY DEF Labels!Promote, LabelsInv, LabelsTyped, ProductRows
<1>3. /\ product' = [product EXCEPT ![p].primary = c] /\ Labels!Exists(p)
      /\ alias[old] = NoProduct /\ alias' = [alias EXCEPT ![old] = p]
  BY <1>2 DEF Labels!Promote
<1>4. /\ alias' \in [Codes -> Products \cup {NoProduct}] /\ alias'[old] = p
      /\ \A x \in Codes : x # old => alias'[x] = alias[x]
  BY <1>3 DEF LabelsInv, LabelsTyped
<1>5. /\ product' \in [Products -> ProductRows] /\ product'[p].state = product[p].state
      /\ product'[p].primary = c /\ \A q \in Products : q # p => product'[q] = product[q]
  BY <1>3 DEF LabelsInv, LabelsTyped, ProductRows
<1>6. LabelsInv'
  BY <1>1, <1>3, <1>4, <1>5, OneRewritten DEF Labels!Exists
<1>7. \A q \in Products : product[q].primary = old => q = p
  BY <1>1, <1>2 DEF LabelsInv, OnePrimary
<1>8. old # c
  BY <1>1, <1>2 DEF Bare
<1> QED BY <1>1, <1>2, <1>3, <1>4, <1>5, <1>6, <1>7, <1>8 DEF Stays, Bare

LEMMA ImportKeeps ==
    ASSUME Labels!BarcodesAssumption, LabelsInv, NEW p \in Products, NEW q \in Products,
           NEW c \in Codes, NEW d \in Codes, Labels!Import(p, c, q, d)
    PROVE  LabelsInv' /\ \A x \in Codes : Stays(x)
<1>1. /\ Bare(c) /\ alias[c] = NoProduct /\ Bare(d) /\ alias[d] = NoProduct /\ NoCode \notin Codes
      /\ Labels!Exists(p) /\ Labels!Exists(q)
  BY Unknown DEF Labels!Import, Labels!BarcodesAssumption
<1>2. PICK mid : mid = IF product[p].primary = NoCode THEN [product EXCEPT ![p].primary = c] ELSE product
  OBVIOUS
<1>3. product' = IF mid[q].primary = NoCode THEN [mid EXCEPT ![q].primary = d] ELSE mid
  BY <1>2 DEF Labels!Import
<1>4. /\ mid \in [Products -> ProductRows]
      /\ mid[p].state = product[p].state
      /\ mid[p].primary = IF product[p].primary = NoCode THEN c ELSE product[p].primary
      /\ \A x \in Products : x # p => mid[x] = product[x]
  BY <1>2 DEF LabelsInv, LabelsTyped, ProductRows
<1>5. /\ product' \in [Products -> ProductRows]
      /\ product'[q].state = mid[q].state
      /\ product'[q].primary = IF mid[q].primary = NoCode THEN d ELSE mid[q].primary
      /\ \A x \in Products : x # q => product'[x] = mid[x]
  BY <1>3, <1>4 DEF ProductRows
<1>6. ASSUME NEW x \in Products
      PROVE  /\ product'[x].state = product[x].state
             /\ \/ product'[x].primary = product[x].primary
                \/ /\ product[x].primary = NoCode
                   /\ \/ x = p /\ product'[x].primary = c
                      \/ x = q /\ product'[x].primary = d
  BY <1>4, <1>5
<1>7. c = d => p = q \/ (product'[p].primary = c) # (product'[q].primary = c)
  BY DEF Labels!Import
<1>8. alias' = [x \in Codes |-> IF x = c /\ product'[p].primary # c THEN p
                                ELSE IF x = d /\ product'[q].primary # d THEN q ELSE alias[x]]
  BY DEF Labels!Import
<1>9. LabelsTyped'
  BY <1>5, <1>8 DEF LabelsInv, LabelsTyped
<1>10. OnePrimary'
  <2> SUFFICES ASSUME NEW x \in Products, NEW y \in Products, x # y,
                      product'[x].primary = product'[y].primary, product'[x].primary # NoCode
               PROVE  FALSE
    BY DEF OnePrimary
  <2> QED BY <1>1, <1>6, <1>7 DEF LabelsInv, OnePrimary, Bare
<1>11. AliasesExist' /\ NoneWithoutRow'
  <2>1. NoneWithoutRow'
    BY <1>1, <1>6 DEF LabelsInv, NoneWithoutRow, Labels!Exists
  <2>2. ASSUME NEW x \in Codes, alias'[x] # NoProduct PROVE alias'[x] \in Products /\ Labels!Exists(alias'[x])
    BY <1>1, <1>8, <2>2 DEF LabelsInv, LabelsTyped, AliasesExist
  <2> QED BY <1>6, <2>1, <2>2 DEF AliasesExist, Labels!Exists
<1>12. ASSUME NEW x \in Codes PROVE Stays(x)
  <2>1. x \notin {c, d} => alias'[x] = alias[x]
    BY <1>8
  <2> QED BY <1>1, <1>6, <2>1 DEF Stays, Bare
<1> QED BY <1>9, <1>10, <1>11, <1>12 DEF LabelsInv

LEMMA RewriteKeeps ==
    ASSUME Labels!BarcodesAssumption, LabelsInv, NEW p \in Products, NEW c \in Codes \cup {NoCode},
           Labels!Rewrite(p, c)
    PROVE  LabelsInv'
<1>1. c = NoCode \/ Bare(c) \/ product[p].primary = c
  BY DEF Labels!Rewrite, Labels!Unused, Labels!Owners, Bare
<1>2. product' = [product EXCEPT ![p].primary = c] /\ Labels!Exists(p) /\ alias' = alias
  BY DEF Labels!Rewrite
<1>3. /\ product' \in [Products -> ProductRows] /\ product'[p].state = product[p].state
      /\ product'[p].primary = c /\ \A q \in Products : q # p => product'[q] = product[q]
  BY <1>2 DEF LabelsInv, LabelsTyped, ProductRows
<1> QED BY <1>1, <1>2, <1>3, OneRewritten DEF LabelsInv, LabelsTyped, Labels!Exists

LEMMA SetActiveKeeps ==
    ASSUME Labels!BarcodesAssumption, LabelsInv, NEW p \in Products, NEW s \in {"active", "inactive"},
           Labels!SetActive(p, s)
    PROVE  LabelsInv' /\ \A x \in Codes : Stays(x)
<1>1. PICK c \in Codes \cup {NoCode} : c = product[p].primary
  BY DEF LabelsInv, LabelsTyped, ProductRows
<1>2. product' = [product EXCEPT ![p].state = s] /\ Labels!Exists(p) /\ alias' = alias
  BY DEF Labels!SetActive
<1>3. /\ product' \in [Products -> ProductRows] /\ product'[p].state = s
      /\ product'[p].primary = c /\ \A q \in Products : q # p => product'[q] = product[q]
  BY <1>1, <1>2 DEF LabelsInv, LabelsTyped, ProductRows
<1>4. LabelsInv'
  BY <1>1, <1>2, <1>3, OneRewritten DEF LabelsInv, LabelsTyped, Labels!Exists
<1>5. \A q \in Products : product'[q].primary = product[q].primary
  BY <1>1, <1>3
<1> QED BY <1>2, <1>4, <1>5 DEF Stays, Bare

LEMMA PurgeKeeps ==
    ASSUME LabelsInv, NEW p \in Products, Labels!Purge(p) PROVE LabelsInv'
<1>1. /\ product' = [product EXCEPT ![p] = [state |-> "none", primary |-> NoCode]]
      /\ alias' = [c \in Codes |-> IF alias[c] = p THEN NoProduct ELSE alias[c]]
  BY DEF Labels!Purge, Labels!NoRow
<1>2. [state |-> "none", primary |-> NoCode] \in ProductRows
  BY DEF ProductRows
<1>3. LabelsTyped'
  BY <1>1, <1>2 DEF LabelsInv, LabelsTyped
<1>4. /\ product'[p] = [state |-> "none", primary |-> NoCode]
      /\ \A q \in Products : q # p => product'[q] = product[q]
  BY <1>1 DEF LabelsInv, LabelsTyped
<1>5. OnePrimary' /\ NoneWithoutRow'
  BY <1>4 DEF LabelsInv, OnePrimary, NoneWithoutRow, Labels!Exists
<1>6. AliasesExist'
  BY <1>1, <1>4 DEF LabelsInv, LabelsTyped, AliasesExist, Labels!Exists
<1> QED BY <1>3, <1>5, <1>6 DEF LabelsInv
-----------------------------------------------------------------------------
(* Everything a merge hands over: the codes of the duplicate, and the primary the survivor
   had. *)
HandedOver(keep, retire) ==
    {c \in Codes : alias[c] = retire \/ c \in {product[retire].primary, product[keep].primary}}

LEMMA Merged ==
    ASSUME Labels!BarcodesAssumption, LabelsInv, NEW keep \in Products, NEW retire \in Products,
           NEW code \in Codes \cup {NoCode}, Labels!Merge(keep, retire, code)
    PROVE  /\ keep # retire /\ Labels!Exists(keep)
           /\ code \in HandedOver(keep, retire) \cup {NoCode}
           /\ \A p \in Products \ {keep, retire} : code # NoCode => product[p].primary # code
           /\ product'[keep].state = product[keep].state /\ product'[keep].primary = code
           /\ product'[retire] = [state |-> "inactive", primary |-> NoCode]
           /\ \A p \in Products \ {keep, retire} : product'[p] = product[p]
           /\ product' \in [Products -> ProductRows]
           /\ alias' = [c \in Codes |-> IF c \in HandedOver(keep, retire) \ {code} THEN keep
                                        ELSE IF alias[c] = retire THEN NoProduct ELSE alias[c]]
<1>1. NoCode \notin Codes /\ {product[keep].primary, product[retire].primary} \subseteq Codes \cup {NoCode}
  BY DEF Labels!BarcodesAssumption, LabelsInv, LabelsTyped, ProductRows
<1>2. (Labels!Moving(retire) \cup {product[keep].primary}) \ {code, NoCode} = HandedOver(keep, retire) \ {code}
  BY <1>1 DEF Labels!Moving, Labels!Aliases, HandedOver
<1>3. code \in HandedOver(keep, retire) \cup {NoCode}
  BY <1>1 DEF Labels!Merge, Labels!NewPrimaries, Labels!Moving, Labels!Aliases, HandedOver
<1>4. alias' = [c \in Codes |-> IF c \in HandedOver(keep, retire) \ {code} THEN keep
                                ELSE IF alias[c] = retire THEN NoProduct ELSE alias[c]]
  BY <1>2 DEF Labels!Merge
<1>5. /\ keep # retire /\ Labels!Exists(keep)
      /\ \A p \in Products \ {keep, retire} : code # NoCode => product[p].primary # code
      /\ product' = [product EXCEPT ![keep].primary = code,
                                    ![retire] = [state |-> "inactive", primary |-> NoCode]]
  BY DEF Labels!Merge, Labels!Retired
<1>6. [state |-> "inactive", primary |-> NoCode] \in ProductRows
  BY DEF ProductRows
<1>7. [product[keep] EXCEPT !.primary = code] \in ProductRows
  BY DEF LabelsInv, LabelsTyped, ProductRows
<1>8. product' \in [Products -> ProductRows]
  BY <1>5, <1>6, <1>7 DEF LabelsInv, LabelsTyped
<1>9. /\ product'[keep].state = product[keep].state /\ product'[keep].primary = code
      /\ product'[retire] = [state |-> "inactive", primary |-> NoCode]
      /\ \A p \in Products \ {keep, retire} : product'[p] = product[p]
  BY <1>5 DEF LabelsInv, LabelsTyped, ProductRows
<1> QED BY <1>3, <1>4, <1>5, <1>8, <1>9

LEMMA MergeKeeps ==
    ASSUME Labels!BarcodesAssumption, LabelsInv, NEW keep \in Products, NEW retire \in Products,
           NEW code \in Codes \cup {NoCode}, Labels!Merge(keep, retire, code)
    PROVE  LabelsInv'
<1>1. LabelsTyped'
  BY Merged DEF LabelsInv, LabelsTyped
<1>2. OnePrimary'
  BY Merged DEF LabelsInv, OnePrimary
<1>3. \A p \in Products : Labels!Exists(p) => Labels!Exists(p)'
  BY Merged DEF Labels!Exists
<1>4. NoneWithoutRow'
  BY Merged DEF LabelsInv, NoneWithoutRow, Labels!Exists
<1>5. AliasesExist'
  <2> SUFFICES ASSUME NEW c \in Codes, alias'[c] # NoProduct PROVE Labels!Exists(alias[c])'
    BY DEF AliasesExist
  <2>1. alias'[c] = keep \/ alias'[c] = alias[c]
    BY Merged
  <2>2. alias'[c] \in Products
    BY <1>1 DEF LabelsTyped
  <2> QED BY <1>3, <2>1, <2>2, Merged DEF LabelsInv, AliasesExist, Labels!Exists
<1> QED BY <1>1, <1>2, <1>4, <1>5 DEF LabelsInv

LEMMA MergeHandsOver ==
    ASSUME Labels!BarcodesAssumption, LabelsInv, NEW keep \in Products, NEW retire \in Products,
           NEW code \in Codes \cup {NoCode}, Labels!Merge(keep, retire, code), NEW c \in Codes
    PROVE  \/ Labels!Scans(c) = NoProduct
           \/ Labels!Scans(c)' = Labels!Scans(c)
           \/ Labels!Scans(c) = retire /\ Labels!Scans(c)' = keep
<1>1. ScansToOne /\ ScansToOne'
  BY MergeKeeps, ScansTo, ScansToThen DEF LabelsInv
<1>2. NoCode \notin Codes /\ NoProduct \notin Products
  BY DEF Labels!BarcodesAssumption
<1>3. ASSUME c \in HandedOver(keep, retire), \A p \in Products \ {keep, retire} : product[p].primary # c
      PROVE  Labels!Scans(c)' = keep
  <2>1. CASE c = code
    BY <1>1, <2>1, Merged DEF ScansToOne
  <2>2. CASE c # code
    <3>1. alias'[c] = keep
      BY <1>3, <2>2, Merged
    <3>2. Bare(c)'
      BY <1>2, <1>3, <2>2, Merged DEF Bare
    <3> QED BY <1>1, <3>1, <3>2 DEF ScansToOne
  <2> QED BY <2>1, <2>2
<1>4. CASE Bare(c)
  <2>1. Labels!Scans(c) = alias[c]
    BY <1>1, <1>4 DEF ScansToOne
  <2>2. CASE alias[c] = retire
    BY <1>3, <1>4, <2>1, <2>2 DEF Bare, HandedOver
  <2>3. CASE alias[c] # retire
    <3>1. c \notin HandedOver(keep, retire) /\ c # code
      BY <1>2, <1>4, <2>3, Merged DEF Bare, HandedOver
    <3>2. alias'[c] = alias[c]
      BY <2>3, <3>1, Merged
    <3>3. Bare(c)'
      BY <1>2, <1>4, <3>1, Merged DEF Bare
    <3> QED BY <1>1, <2>1, <3>2, <3>3 DEF ScansToOne
  <2> QED BY <2>2, <2>3
<1>5. CASE ~Bare(c)
  <2>1. PICK p \in Products : product[p].primary = c
    BY <1>5 DEF Bare
  <2>2. Labels!Scans(c) = p
    BY <1>1, <2>1 DEF ScansToOne
  <2>3. CASE p \in {keep, retire}
    <3>1. c \in HandedOver(keep, retire)
      BY <2>1, <2>3 DEF HandedOver
    <3>2. \A q \in Products \ {keep, retire} : product[q].primary # c
      BY <1>2, <2>1, <2>3 DEF LabelsInv, OnePrimary
    <3> QED BY <1>3, <2>2, <2>3, <3>1, <3>2
  <2>4. CASE p \notin {keep, retire}
    <3>1. product'[p].primary = c
      BY <2>1, <2>4, Merged
    <3> QED BY <1>1, <2>2, <3>1 DEF ScansToOne
  <2> QED BY <2>3, <2>4
<1> QED BY <1>4, <1>5

(* No code scans to a product that was merged away. *)
LEMMA MergedScansNoMore ==
    ASSUME Labels!BarcodesAssumption, LabelsInv, NEW keep \in Products, NEW retire \in Products,
           NEW code \in Codes \cup {NoCode}, Labels!Merge(keep, retire, code), NEW c \in Codes
    PROVE  Labels!Scans(c)' # retire
<1>1. ScansToOne' /\ LabelsTyped'
  BY MergeKeeps, ScansToThen DEF LabelsInv
<1>2. NoCode \notin Codes /\ NoProduct \notin Products
  BY DEF Labels!BarcodesAssumption
<1>3. CASE Bare(c)'
  BY <1>1, <1>2, <1>3, Merged DEF ScansToOne
<1>4. CASE ~Bare(c)'
  <2>1. PICK p \in Products : product'[p].primary = c
    BY <1>4 DEF Bare
  <2>2. p # retire
    BY <1>2, <2>1, Merged
  <2> QED BY <1>1, <2>1, <2>2 DEF ScansToOne
<1> QED BY <1>3, <1>4
-----------------------------------------------------------------------------
LEMMA LabelsBegin == ASSUME Labels!Init PROVE LabelsInv
BY DEF Labels!Init, Labels!NoRow, LabelsInv, LabelsTyped, ProductRows, OnePrimary, AliasesExist,
       NoneWithoutRow

(* What a step of a till, a sheet or a manager does to the codes. *)
LEMMA LabelsStay ==
    ASSUME Labels!BarcodesAssumption, LabelsInv, [Labels!Next]_(Labels!vars)
    PROVE  /\ LabelsInv'
           /\ \/ ~Labels!Captured
              \/ \A c \in Codes : Stays(c)
              \/ \E keep, retire \in Products, code \in Codes \cup {NoCode} : Labels!Merge(keep, retire, code)
<1> DEFINE Kept == LabelsInv' /\ \A c \in Codes : Stays(c)
<1>1. ASSUME NEW p \in Products, NEW c \in Codes,
             \/ Labels!Clone(p, c) \/ Labels!Adopt(p, c) \/ Labels!BindGuess(p, c)
             \/ Labels!BindFirst(p, c) \/ Labels!Promote(p, c) \/ Labels!BindNext(p, c)
      PROVE  Kept
  BY <1>1, CloneKeeps, BindGuessKeeps, BindFirstKeeps, PromoteKeeps DEF Labels!Adopt, Labels!BindNext
<1>2. ASSUME NEW p \in Products, NEW q \in Products, NEW c \in Codes, NEW d \in Codes,
             Labels!Import(p, c, q, d)
      PROVE  Kept
  BY <1>2, ImportKeeps
<1>3. ASSUME NEW p \in Products, Labels!SetActive(p, "active") \/ Labels!SetActive(p, "inactive")
      PROVE  Kept
  BY <1>3, SetActiveKeeps
<1>4. ASSUME NEW p \in Products, NEW q \in Products, NEW c \in Codes \cup {NoCode}, Labels!Merge(p, q, c)
      PROVE  LabelsInv'
  BY <1>4, MergeKeeps
<1>5. ASSUME Labels!Captured
      PROVE  \/ Kept
             \/ LabelsInv' /\ \E keep, retire \in Products, code \in Codes \cup {NoCode} :
                                 Labels!Merge(keep, retire, code)
  BY <1>1, <1>2, <1>3, <1>4, <1>5 DEF Labels!Captured
<1>6. ASSUME Labels!Edited PROVE LabelsInv'
  BY <1>6, CreateKeeps, RewriteKeeps, PurgeKeeps DEF Labels!Edited
<1>7. ASSUME UNCHANGED Labels!vars PROVE Kept
  BY <1>7 DEF Labels!vars, LabelsInv, LabelsTyped, OnePrimary, AliasesExist, NoneWithoutRow,
              Labels!Exists, Stays, Bare
<1> QED BY <1>5, <1>6, <1>7 DEF Labels!Next

LEMMA LabelsKeepScanning ==
    ASSUME Labels!BarcodesAssumption, LabelsInv, [Labels!Next]_(Labels!vars)
    PROVE  Labels!KeepsScanning
<1>1. LabelsInv'
  BY LabelsStay
<1>2. NoProduct \notin Products
  BY DEF Labels!BarcodesAssumption
<1>3. ASSUME Labels!Captured, NEW c \in Codes, Labels!Scans(c) # NoProduct
      PROVE  \/ Labels!Scans(c)' = Labels!Scans(c)
             \/ /\ Labels!Scans(c)' # NoProduct
                /\ Labels!MergedInto(Labels!Scans(c), Labels!Scans(c)')
  <2>1. CASE \A x \in Codes : Stays(x)
    BY <1>1, <1>3, <2>1, StaysScanned
  <2>2. ASSUME NEW keep \in Products, NEW retire \in Products, NEW code \in Codes \cup {NoCode},
               Labels!Merge(keep, retire, code)
        PROVE  \/ Labels!Scans(c)' = Labels!Scans(c)
               \/ Labels!Scans(c) = retire /\ Labels!Scans(c)' = keep /\ Labels!MergedInto(retire, keep)
    BY <1>3, <2>2, MergeHandsOver, Merged DEF Labels!MergedInto, Labels!Retired
  <2> QED BY <1>2, <1>3, <2>1, <2>2, LabelsStay
<1>4. ASSUME NEW p \in Products, NEW q \in Products, Labels!MergedInto(p, q), NEW c \in Codes
      PROVE  Labels!Scans(c)' # p
  BY <1>4, MergedScansNoMore DEF Labels!MergedInto
<1> QED BY <1>3, <1>4 DEF Labels!KeepsScanning
-----------------------------------------------------------------------------
(***************************************************************************)
(* Workshop.  What a handler has read of the job shows no more deposit and *)
(* no more hours than were ever handed over and logged, because those only *)
(* grow: so neither does what it commits.                                  *)
(***************************************************************************)
Jobs == INSTANCE Workshop

POStatus == {"unused", "open", "received", "cancelled"}
JobOps == {"update", "status", "approve", "complete", "submit", "pass", "fail", "check_in",
           "check_out", "deposit", "invoice", "order", "log", "wait", "resume"}
QuoteOps == {"edit_quote", "send", "accept", "reject"}

JobRequests ==
    {Jobs!Idle}
    \cup [op : JobOps, seen : Jobs!JobRows]
    \cup [op : {"logged"}, seen : Jobs!JobRows, hours : 1 .. MaxHours, sum : 0 .. MaxHours]
    \cup [op : QuoteOps, id : Quotes, was : Jobs!QuoteRows]
    \cup [op : {"accepted"}, id : Quotes, was : Jobs!QuoteRows, seen : Jobs!JobRows]
    \cup [op : {"po_status"}, id : POs, was : POStatus, to : POStatus]
    \cup [op : {"po_counted"}, id : POs, was : POStatus, pending : BOOLEAN]
    \cup [op : {"po_received"}, id : POs, was : POStatus, pending : BOOLEAN, seen : Jobs!JobRows]

Reads == JobOps \cup {"logged", "accepted", "po_received"}

JobTyped ==
    /\ job \in Jobs!JobRows
    /\ quote \in [Quotes -> Jobs!QuoteRows]
    /\ po \in [POs -> POStatus]
    /\ logged \in 0 .. MaxHours /\ received \in Jobs!Deposits
    /\ byHand \subseteq {"need", "hours", "parts"}
    /\ h \in [Handlers -> JobRequests]

(* A row of the job that does not overstate. *)
Modest(row) == row.paid <= received /\ ("hours" \in byHand \/ row.hours <= logged)

JobInv ==
    /\ JobTyped
    /\ Modest(job)
    /\ \A p \in Handlers : /\ h[p].op \in Reads => Modest(h[p].seen)
                           /\ h[p].op = "logged" => h[p].sum <= logged + h[p].hours

(* What the handler holds, by what it does. *)
LEMMA RequestFields ==
    ASSUME NEW r \in JobRequests
    PROVE  /\ r.op \in Reads => r.seen \in Jobs!JobRows
           /\ r.op = "logged" => r.hours \in 1 .. MaxHours /\ r.sum \in 0 .. MaxHours
           /\ r.op \in QuoteOps \cup {"accepted"} => r.id \in Quotes /\ r.was \in Jobs!QuoteRows
           /\ r.op \in {"po_status", "po_counted", "po_received"} => r.id \in POs /\ r.was \in POStatus
           /\ r.op = "po_status" => r.to \in POStatus
           /\ r.op \in {"po_counted", "po_received"} => r.pending \in BOOLEAN
           /\ "seen" \in DOMAIN r => r.seen \in Jobs!JobRows
<1>1. CASE r = Jobs!Idle
  BY <1>1 DEF Jobs!Idle, Reads, JobOps, QuoteOps
<1>2. CASE r \in [op : JobOps, seen : Jobs!JobRows]
  BY <1>2 DEF Reads, JobOps, QuoteOps
<1>3. CASE r \in [op : {"logged"}, seen : Jobs!JobRows, hours : 1 .. MaxHours, sum : 0 .. MaxHours]
  BY <1>3 DEF Reads, JobOps, QuoteOps
<1>4. CASE r \in [op : QuoteOps, id : Quotes, was : Jobs!QuoteRows]
  BY <1>4 DEF Reads, JobOps, QuoteOps
<1>5. CASE r \in [op : {"accepted"}, id : Quotes, was : Jobs!QuoteRows, seen : Jobs!JobRows]
  BY <1>5 DEF Reads, JobOps, QuoteOps
<1>6. CASE r \in [op : {"po_status"}, id : POs, was : POStatus, to : POStatus]
  BY <1>6 DEF Reads, JobOps, QuoteOps
<1>7. CASE r \in [op : {"po_counted"}, id : POs, was : POStatus, pending : BOOLEAN]
  BY <1>7 DEF Reads, JobOps, QuoteOps
<1>8. CASE r \in [op : {"po_received"}, id : POs, was : POStatus, pending : BOOLEAN, seen : Jobs!JobRows]
  BY <1>8 DEF Reads, JobOps, QuoteOps
<1> QED BY <1>1, <1>2, <1>3, <1>4, <1>5, <1>6, <1>7, <1>8 DEF JobRequests

(* The row of the job after a commit has each column from before or from the commit. *)
LEMMA FlushedJob ==
    ASSUME NEW cur \in Jobs!JobRows, NEW new \in Jobs!JobRows, NEW seen
    PROVE  LET row == Jobs!Flushed(cur, seen, new)
           IN  /\ row \in Jobs!JobRows
               /\ row.paid \in {cur.paid, new.paid}
               /\ row.hours \in {cur.hours, new.hours}
<1> DEFINE row == Jobs!Flushed(cur, seen, new)
<1>1. row = [status |-> IF new.status = seen.status THEN cur.status ELSE new.status,
             need |-> IF new.need = seen.need THEN cur.need ELSE new.need,
             paid |-> IF new.paid = seen.paid THEN cur.paid ELSE new.paid,
             hours |-> IF new.hours = seen.hours THEN cur.hours ELSE new.hours,
             parts |-> IF new.parts = seen.parts THEN cur.parts ELSE new.parts,
             waiting |-> IF new.waiting = seen.waiting THEN cur.waiting ELSE new.waiting,
             place |-> IF new.place = seen.place THEN cur.place ELSE new.place,
             passed |-> IF new.passed = seen.passed THEN cur.passed ELSE new.passed]
  BY DEF Jobs!Flushed, Jobs!JobRows
<1> HIDE DEF row
<1>2. row \in Jobs!JobRows
  BY <1>1 DEF Jobs!JobRows
<1> QED BY <1>1, <1>2 DEF row

(* A commit of a row that does not overstate. *)
LEMMA SaveKeeps ==
    ASSUME Jobs!WorkshopAssumption, JobInv, NEW p \in Handlers, NEW op, NEW new \in Jobs!JobRows,
           Jobs!Save(p, op, new),
           logged' \in 0 .. MaxHours, received' \in Jobs!Deposits,
           byHand' \subseteq {"need", "hours", "parts"},
           quote' \in [Quotes -> Jobs!QuoteRows], po' \in [POs -> POStatus],
           logged <= logged', received <= received', byHand \subseteq byHand',
           new.paid <= received', "hours" \in byHand' \/ new.hours <= logged'
    PROVE  JobInv'
<1> USE DEF JobInv
<1>1. /\ job' \in Jobs!JobRows
      /\ job'.paid \in {job.paid, new.paid} /\ job'.hours \in {job.hours, new.hours}
  BY FlushedJob DEF Jobs!Save, JobTyped
<1>2. h' = [h EXCEPT ![p] = Jobs!Idle] /\ h \in [Handlers -> JobRequests]
  BY DEF Jobs!Save, JobTyped
<1>3. /\ h' \in [Handlers -> JobRequests] /\ h'[p].op = "none"
      /\ \A q \in Handlers : q # p => h'[q] = h[q]
  BY <1>2 DEF Jobs!Idle, JobRequests
<1>4. JobTyped'
  BY <1>1, <1>3 DEF JobTyped
<1>5. {MaxDeposit, MaxHours} \subseteq Nat /\ logged \in Int /\ received \in Int /\ logged' \in Int /\ received' \in Int
  BY DEF Jobs!WorkshopAssumption, JobTyped, Jobs!Deposits
<1>6. ASSUME NEW row \in Jobs!JobRows, Modest(row)
      PROVE  row.paid <= received' /\ ("hours" \in byHand' \/ row.hours <= logged')
  <2>1. row.paid \in Int /\ row.hours \in Int
    BY <1>5 DEF Jobs!JobRows, Jobs!Deposits
  <2> QED BY <1>5, <1>6, <2>1 DEF Modest
<1>7. Modest(job)'
  BY <1>1, <1>6 DEF Modest, JobTyped
<1>8. ASSUME NEW q \in Handlers
      PROVE  (/\ h[q].op \in Reads => Modest(h[q].seen)
              /\ h[q].op = "logged" => h[q].sum <= logged + h[q].hours)'
  <2>1. CASE q = p
    BY <1>3, <2>1 DEF Reads, JobOps
  <2>2. CASE q # p
    <3>1. h'[q] = h[q] /\ h[q] \in JobRequests
      BY <1>2, <1>3, <2>2
    <3>2. h[q].op \in Reads => Modest(h[q].seen)'
      BY <1>6, <3>1, RequestFields DEF Modest
    <3>3. h[q].op = "logged" => h[q].sum <= logged' + h[q].hours
      BY <1>5, <3>1, RequestFields
    <3> QED BY <3>1, <3>2, <3>3 DEF Modest
  <2> QED BY <2>1, <2>2
<1> QED BY <1>4, <1>7, <1>8

(* A handler goes on without a commit. *)
LEMMA GoesOn ==
    ASSUME JobInv, NEW p \in Handlers, NEW r \in JobRequests, h' = [h EXCEPT ![p] = r],
           r.op \in Reads => Modest(r.seen), r.op = "logged" => r.sum <= logged + r.hours,
           UNCHANGED <<job, quote, po, logged, received, byHand>>
    PROVE  JobInv'
<1>1. /\ h' \in [Handlers -> JobRequests] /\ h'[p] = r
      /\ \A q \in Handlers : q # p => h'[q] = h[q]
  BY DEF JobInv, JobTyped
<1>2. \A row : Modest(row) => Modest(row)'
  BY DEF Modest
<1>3. \A q \in Handlers : /\ h'[q].op \in Reads => Modest(h'[q].seen)
                          /\ h'[q].op = "logged" => h'[q].sum <= logged' + h'[q].hours
  BY <1>1 DEF JobInv
<1>4. JobTyped' /\ Modest(job)'
  BY <1>1 DEF JobInv, JobTyped, Modest
<1> QED BY <1>3, <1>4 DEF JobInv, Modest

LEMMA NoneIsRequest == Jobs!Idle \in JobRequests /\ Jobs!Idle.op = "none"
BY DEF JobRequests, Jobs!Idle

(* What a handler with the job in hand knows of it. *)
LEMMA SeenIsModest ==
    ASSUME Jobs!WorkshopAssumption, JobInv, NEW p \in Handlers, h[p].op \in Reads
    PROVE  /\ Jobs!Saw(p) \in Jobs!JobRows
           /\ Jobs!Saw(p).paid \in Nat /\ Jobs!Saw(p).paid <= received
           /\ Jobs!Saw(p).hours \in Nat /\ ("hours" \in byHand \/ Jobs!Saw(p).hours <= logged)
<1>1. h[p] \in JobRequests
  BY DEF JobInv, JobTyped
<1>2. Jobs!Saw(p) \in Jobs!JobRows /\ Modest(Jobs!Saw(p))
  BY <1>1, RequestFields DEF JobInv, Jobs!Saw
<1> QED BY <1>2 DEF Modest, Jobs!JobRows, Jobs!Deposits, Jobs!WorkshopAssumption

(* The handlers that set a status, a flag or a place of the job, or hours by hand. *)
LEMMA ColumnKeeps ==
    ASSUME Jobs!WorkshopAssumption, JobInv, NEW p \in Handlers, NEW op \in Reads,
           NEW new \in Jobs!JobRows, Jobs!Save(p, op, new), new.paid = Jobs!Saw(p).paid,
           new.hours = Jobs!Saw(p).hours \/ "hours" \in byHand',
           UNCHANGED <<quote, po, logged, received>>,
           byHand \subseteq byHand', byHand' \subseteq {"need", "hours", "parts"}
    PROVE  JobInv'
<1>1. h[p].op \in Reads
  BY DEF Jobs!Save
<1>2. /\ quote \in [Quotes -> Jobs!QuoteRows] /\ po \in [POs -> POStatus]
      /\ logged \in 0 .. MaxHours /\ received \in Jobs!Deposits
  BY DEF JobInv, JobTyped
<1>3. logged <= logged /\ received <= received
  BY <1>2 DEF Jobs!Deposits, Jobs!WorkshopAssumption
<1> QED BY <1>1, <1>2, <1>3, SeenIsModest, SaveKeeps

(* The handlers that only set a status, a flag or a place of the job. *)
JobOnlyStep(p) ==
    \/ Jobs!Assign(p) \/ Jobs!Approve(p) \/ Jobs!Complete(p) \/ Jobs!Submit(p)
    \/ Jobs!Pass(p) \/ Jobs!Fail(p) \/ Jobs!CheckIn(p) \/ Jobs!CheckOut(p)
    \/ Jobs!StartWait(p) \/ Jobs!EndWait(p) \/ Jobs!Invoice(p)
    \/ \E s \in Jobs!JobStatus : Jobs!SetStatus(p, s)

(* What they save. *)
JobOnlyAs(p, op, new) ==
    /\ op \in JobOps
    /\ Jobs!Save(p, op, new)
    /\ UNCHANGED <<quote, po, logged, received, byHand>>
    /\ \/ \E s \in Jobs!JobStatus : new = [Jobs!Saw(p) EXCEPT !.status = s]
       \/ new = [Jobs!Saw(p) EXCEPT !.status = IF @ \in {"quoted", "approved"} THEN "in_progress" ELSE @]
       \/ new = [Jobs!Saw(p) EXCEPT !.status = "completed", !.passed = "yes"]
       \/ new = [Jobs!Saw(p) EXCEPT !.status = "in_progress", !.passed = "failed"]
       \/ \E b \in BOOLEAN : new = [Jobs!Saw(p) EXCEPT !.waiting = b]
       \/ \E x \in {"here", "gone"} : new = [Jobs!Saw(p) EXCEPT !.place = x]

LEMMA JobOnlySaves ==
    ASSUME NEW p \in Handlers, JobOnlyStep(p) PROVE \E op, new : JobOnlyAs(p, op, new)
<1>1. CASE Jobs!Assign(p)
  <2>1. JobOnlyAs(p, "update", [Jobs!Saw(p) EXCEPT !.status = IF @ \in {"quoted", "approved"} THEN "in_progress" ELSE @])
    BY <1>1 DEF Jobs!Assign, Jobs!JobOnly, JobOnlyAs, JobOps
  <2> QED BY <2>1
<1>2. CASE Jobs!Approve(p)
  <2>1. JobOnlyAs(p, "approve", [Jobs!Saw(p) EXCEPT !.status = "approved"])
    BY <1>2 DEF Jobs!Approve, Jobs!JobOnly, JobOnlyAs, JobOps, Jobs!JobStatus
  <2> QED BY <2>1
<1>3. CASE Jobs!Complete(p)
  <2>1. JobOnlyAs(p, "complete", [Jobs!Saw(p) EXCEPT !.status = "completed"])
    BY <1>3 DEF Jobs!Complete, Jobs!JobOnly, JobOnlyAs, JobOps, Jobs!JobStatus
  <2> QED BY <2>1
<1>4. CASE Jobs!Submit(p)
  <2>1. JobOnlyAs(p, "submit", [Jobs!Saw(p) EXCEPT !.status = "inspection"])
    BY <1>4 DEF Jobs!Submit, Jobs!JobOnly, JobOnlyAs, JobOps, Jobs!JobStatus
  <2> QED BY <2>1
<1>5. CASE Jobs!Pass(p)
  <2>1. JobOnlyAs(p, "pass", [Jobs!Saw(p) EXCEPT !.status = "completed", !.passed = "yes"])
    BY <1>5 DEF Jobs!Pass, Jobs!JobOnly, JobOnlyAs, JobOps
  <2> QED BY <2>1
<1>6. CASE Jobs!Fail(p)
  <2>1. JobOnlyAs(p, "fail", [Jobs!Saw(p) EXCEPT !.status = "in_progress", !.passed = "failed"])
    BY <1>6 DEF Jobs!Fail, Jobs!JobOnly, JobOnlyAs, JobOps
  <2> QED BY <2>1
<1>7. CASE Jobs!CheckIn(p)
  <2>1. JobOnlyAs(p, "check_in", [Jobs!Saw(p) EXCEPT !.place = "here"])
    BY <1>7 DEF Jobs!CheckIn, Jobs!JobOnly, JobOnlyAs, JobOps
  <2> QED BY <2>1
<1>8. CASE Jobs!CheckOut(p)
  <2>1. JobOnlyAs(p, "check_out", [Jobs!Saw(p) EXCEPT !.place = "gone"])
    BY <1>8 DEF Jobs!CheckOut, Jobs!JobOnly, JobOnlyAs, JobOps
  <2> QED BY <2>1
<1>9. CASE Jobs!StartWait(p)
  <2>1. JobOnlyAs(p, "wait", [Jobs!Saw(p) EXCEPT !.waiting = TRUE])
    BY <1>9 DEF Jobs!StartWait, Jobs!JobOnly, JobOnlyAs, JobOps
  <2> QED BY <2>1
<1>10. CASE Jobs!EndWait(p)
  <2>1. JobOnlyAs(p, "resume", [Jobs!Saw(p) EXCEPT !.waiting = FALSE])
    BY <1>10 DEF Jobs!EndWait, Jobs!JobOnly, JobOnlyAs, JobOps
  <2> QED BY <2>1
<1>11. CASE Jobs!Invoice(p)
  <2>1. JobOnlyAs(p, "invoice", [Jobs!Saw(p) EXCEPT !.status = "invoiced"])
    BY <1>11 DEF Jobs!Invoice, Jobs!JobOnly, JobOnlyAs, JobOps, Jobs!JobStatus
  <2> QED BY <2>1
<1>12. ASSUME NEW s \in Jobs!JobStatus, Jobs!SetStatus(p, s) PROVE \E op, new : JobOnlyAs(p, op, new)
  <2>1. JobOnlyAs(p, "status", [Jobs!Saw(p) EXCEPT !.status = s])
    BY <1>12 DEF Jobs!SetStatus, Jobs!JobOnly, JobOnlyAs, JobOps
  <2> QED BY <2>1
<1> QED BY <1>1, <1>2, <1>3, <1>4, <1>5, <1>6, <1>7, <1>8, <1>9, <1>10, <1>11, <1>12 DEF JobOnlyStep

LEMMA JobOnlyKeeps ==
    ASSUME Jobs!WorkshopAssumption, JobInv, NEW p \in Handlers, JobOnlyStep(p) PROVE JobInv'
<1>1. byHand \subseteq byHand /\ byHand \subseteq {"need", "hours", "parts"}
  BY DEF JobInv, JobTyped
<1>2. PICK op, new : JobOnlyAs(p, op, new)
  BY JobOnlySaves
<1>3. h[p].op \in Reads /\ op \in Reads
  BY <1>2 DEF JobOnlyAs, Jobs!Save, Reads
<1>4. Jobs!Saw(p) \in Jobs!JobRows
  BY <1>3, SeenIsModest
<1>5. new \in Jobs!JobRows /\ new.paid = Jobs!Saw(p).paid /\ new.hours = Jobs!Saw(p).hours
  BY <1>2, <1>4 DEF JobOnlyAs, Jobs!JobRows, Jobs!JobStatus
<1> QED BY <1>1, <1>2, <1>3, <1>5, ColumnKeeps DEF JobOnlyAs

LEMMA ByHandKeeps ==
    ASSUME Jobs!WorkshopAssumption, JobInv, NEW p \in Handlers,
           \/ \E n \in Jobs!Deposits : Jobs!SetByHand(p, "need", n)
           \/ \E n \in 0 .. MaxHours : Jobs!SetByHand(p, "hours", n) \/ Jobs!CompleteWith(p, n)
           \/ \E b \in BOOLEAN : Jobs!SetByHand(p, "parts", b)
    PROVE  JobInv'
<1>1. h[p].op \in Reads
  BY DEF Jobs!SetByHand, Jobs!CompleteWith, Jobs!Save, Reads, JobOps
<1>2. Jobs!Saw(p) \in Jobs!JobRows /\ byHand \subseteq {"need", "hours", "parts"}
  BY <1>1, SeenIsModest DEF JobInv, JobTyped
<1>3. ASSUME NEW n \in Jobs!Deposits, Jobs!SetByHand(p, "need", n) PROVE JobInv'
  <2>1. PICK new : new = [Jobs!Saw(p) EXCEPT !["need"] = n]
    OBVIOUS
  <2>2. new \in Jobs!JobRows /\ new.paid = Jobs!Saw(p).paid /\ new.hours = Jobs!Saw(p).hours
    BY <1>2, <2>1 DEF Jobs!JobRows
  <2>3. Jobs!Save(p, "update", new) /\ byHand' = byHand \cup {"need"} /\ UNCHANGED <<quote, po, logged, received>>
    BY <1>3, <2>1 DEF Jobs!SetByHand, Jobs!JobOnly
  <2> QED BY <1>2, <2>2, <2>3, ColumnKeeps DEF Reads, JobOps
<1>4. ASSUME NEW n \in 0 .. MaxHours, Jobs!SetByHand(p, "hours", n) PROVE JobInv'
  <2>1. PICK new : new = [Jobs!Saw(p) EXCEPT !["hours"] = n]
    OBVIOUS
  <2>2. new \in Jobs!JobRows /\ new.paid = Jobs!Saw(p).paid
    BY <1>2, <2>1 DEF Jobs!JobRows
  <2>3. Jobs!Save(p, "update", new) /\ byHand' = byHand \cup {"hours"} /\ UNCHANGED <<quote, po, logged, received>>
    BY <1>4, <2>1 DEF Jobs!SetByHand, Jobs!JobOnly
  <2> QED BY <1>2, <2>2, <2>3, ColumnKeeps DEF Reads, JobOps
<1>5. ASSUME NEW n \in 0 .. MaxHours, Jobs!CompleteWith(p, n) PROVE JobInv'
  <2>1. PICK new : new = [Jobs!Saw(p) EXCEPT !.status = "completed", !.hours = n]
    OBVIOUS
  <2>2. new \in Jobs!JobRows /\ new.paid = Jobs!Saw(p).paid
    BY <1>2, <2>1 DEF Jobs!JobRows, Jobs!JobStatus
  <2>3. Jobs!Save(p, "complete", new) /\ byHand' = byHand \cup {"hours"} /\ UNCHANGED <<quote, po, logged, received>>
    BY <1>5, <2>1 DEF Jobs!CompleteWith, Jobs!JobOnly
  <2> QED BY <1>2, <2>2, <2>3, ColumnKeeps DEF Reads, JobOps
<1>6. ASSUME NEW b \in BOOLEAN, Jobs!SetByHand(p, "parts", b) PROVE JobInv'
  <2>1. PICK new : new = [Jobs!Saw(p) EXCEPT !["parts"] = b]
    OBVIOUS
  <2>2. new \in Jobs!JobRows /\ new.paid = Jobs!Saw(p).paid /\ new.hours = Jobs!Saw(p).hours
    BY <1>2, <2>1 DEF Jobs!JobRows
  <2>3. Jobs!Save(p, "update", new) /\ byHand' = byHand \cup {"parts"} /\ UNCHANGED <<quote, po, logged, received>>
    BY <1>6, <2>1 DEF Jobs!SetByHand, Jobs!JobOnly
  <2> QED BY <1>2, <2>2, <2>3, ColumnKeeps DEF Reads, JobOps
<1> QED BY <1>3, <1>4, <1>5, <1>6

LEMMA LogKeeps ==
    ASSUME Jobs!WorkshopAssumption, JobInv, NEW p \in Handlers,
           (\E n \in 0 .. MaxHours : Jobs!LogSum(p, n)) \/ Jobs!LogCommit(p)
    PROVE  JobInv'
<1>1. h[p].op \in Reads /\ h[p] \in JobRequests
  BY DEF Jobs!LogSum, Jobs!LogCommit, Jobs!Save, Reads, JobOps, JobInv, JobTyped
<1>2. /\ Jobs!Saw(p) \in Jobs!JobRows /\ Modest(Jobs!Saw(p))
      /\ logged \in 0 .. MaxHours /\ MaxHours \in Nat /\ received \in Jobs!Deposits
      /\ received \in Nat /\ quote \in [Quotes -> Jobs!QuoteRows] /\ po \in [POs -> POStatus]
      /\ byHand \subseteq {"need", "hours", "parts"}
  BY <1>1, SeenIsModest DEF JobInv, JobTyped, Jobs!WorkshopAssumption, Jobs!Deposits, Jobs!Saw
<1>3. ASSUME NEW n \in 0 .. MaxHours, Jobs!LogSum(p, n) PROVE JobInv'
  <2>1. PICK r : r = [op |-> "logged", seen |-> Jobs!Saw(p), hours |-> n, sum |-> logged + n]
    OBVIOUS
  <2>2. n \in 1 .. MaxHours /\ logged + n \in 0 .. MaxHours
    BY <1>2, <1>3 DEF Jobs!LogSum
  <2>3. r \in JobRequests /\ r.seen = Jobs!Saw(p) /\ r.sum <= logged + r.hours
    BY <1>2, <2>1, <2>2 DEF JobRequests
  <2>4. h' = [h EXCEPT ![p] = r] /\ UNCHANGED <<job, quote, po, logged, received, byHand>>
    BY <1>3, <2>1 DEF Jobs!LogSum
  <2> QED BY <1>2, <2>3, <2>4, GoesOn
<1>4. ASSUME Jobs!LogCommit(p) PROVE JobInv'
  <2>1. PICK new : new = [Jobs!Saw(p) EXCEPT !.hours = h[p].sum]
    OBVIOUS
  <2>2. h[p].sum \in 0 .. MaxHours /\ h[p].hours \in 1 .. MaxHours /\ h[p].sum <= logged + h[p].hours
    BY <1>1, <1>4, RequestFields DEF Jobs!LogCommit, JobInv
  <2>3. new \in Jobs!JobRows /\ new.paid = Jobs!Saw(p).paid /\ new.hours = h[p].sum
    BY <1>2, <2>1, <2>2 DEF Jobs!JobRows
  <2>4. /\ Jobs!Save(p, "logged", new) /\ UNCHANGED <<quote, po, received, byHand>>
        /\ logged' = logged + h[p].hours /\ logged + h[p].hours <= MaxHours
    BY <1>4, <2>1 DEF Jobs!LogCommit
  <2>5. logged' \in 0 .. MaxHours /\ logged <= logged' /\ received <= received'
    BY <1>2, <2>2, <2>4
  <2>6. new.paid <= received' /\ new.hours <= logged'
    BY <1>2, <2>2, <2>3, <2>4 DEF Modest
  <2> QED BY <1>2, <2>3, <2>4, <2>5, <2>6, SaveKeeps
<1> QED BY <1>3, <1>4

LEMMA DepositKeeps ==
    ASSUME Jobs!WorkshopAssumption, JobInv, NEW p \in Handlers, NEW n \in Jobs!Deposits,
           Jobs!Deposit(p, n)
    PROVE  JobInv'
<1>1. h[p].op \in Reads
  BY DEF Jobs!Deposit, Jobs!Save, Reads, JobOps
<1>2. /\ Jobs!Saw(p) \in Jobs!JobRows /\ Modest(Jobs!Saw(p)) /\ Jobs!Saw(p).paid \in Nat
      /\ logged \in 0 .. MaxHours /\ logged \in Nat /\ MaxDeposit \in Nat /\ received \in 0 .. MaxDeposit
      /\ quote \in [Quotes -> Jobs!QuoteRows] /\ po \in [POs -> POStatus]
      /\ byHand \subseteq {"need", "hours", "parts"} /\ n \in Nat
  BY <1>1, SeenIsModest DEF JobInv, JobTyped, Jobs!WorkshopAssumption, Jobs!Deposits, Jobs!Saw
<1>3. PICK new : new = [Jobs!Saw(p) EXCEPT !.paid = @ + n]
  OBVIOUS
<1>4. /\ Jobs!Save(p, "deposit", new) /\ UNCHANGED <<quote, po, logged, byHand>>
      /\ received' = received + n /\ received + n <= MaxDeposit
  BY <1>3 DEF Jobs!Deposit
<1>5. Jobs!Saw(p).paid + n <= received' /\ received <= received' /\ received' \in 0 .. MaxDeposit
  BY <1>2, <1>4 DEF Modest
<1>6. Jobs!Saw(p).paid + n \in Jobs!Deposits
  BY <1>2, <1>5 DEF Jobs!Deposits
<1>7. /\ new \in Jobs!JobRows /\ new.paid = Jobs!Saw(p).paid + n
      /\ new.hours = Jobs!Saw(p).hours
  BY <1>2, <1>3, <1>6 DEF Jobs!JobRows
<1>8. "hours" \in byHand' \/ new.hours <= logged'
  BY <1>2, <1>4, <1>7 DEF Modest
<1> QED BY <1>2, <1>4, <1>5, <1>7, <1>8, SaveKeeps DEF Jobs!Deposits

LEMMA QuoteTyped ==
    ASSUME NEW cur \in Jobs!QuoteRows, NEW new \in Jobs!QuoteRows, NEW seen
    PROVE  LET row == Jobs!Flushed(cur, seen, new)
           IN  /\ row \in Jobs!QuoteRows
               /\ row.status = IF new.status = seen.status THEN cur.status ELSE new.status
               /\ row.deposit = IF new.deposit = seen.deposit THEN cur.deposit ELSE new.deposit
<1>1. Jobs!Flushed(cur, seen, new)
      = [status |-> IF new.status = seen.status THEN cur.status ELSE new.status,
         deposit |-> IF new.deposit = seen.deposit THEN cur.deposit ELSE new.deposit]
  BY DEF Jobs!Flushed, Jobs!QuoteRows
<1> QED BY <1>1 DEF Jobs!QuoteRows

LEMMA QuotesKeep ==
    ASSUME Jobs!WorkshopAssumption, JobInv,
           \/ \E q \in Quotes, n \in Jobs!Deposits : Jobs!CreateQuote(q, n)
           \/ \E p \in Handlers : \/ \E op \in Ops, q \in Quotes : Jobs!QuoteLoad(p, op, q)
                                  \/ \E n \in Jobs!Deposits : Jobs!QuoteCommit(p, n)
                                  \/ Jobs!AcceptJob(p) \/ Jobs!AcceptCommit(p)
    PROVE  JobInv'
<1>1. /\ job \in Jobs!JobRows /\ Modest(job) /\ quote \in [Quotes -> Jobs!QuoteRows]
      /\ po \in [POs -> POStatus] /\ h \in [Handlers -> JobRequests]
      /\ logged \in 0 .. MaxHours /\ received \in Jobs!Deposits
      /\ byHand \subseteq {"need", "hours", "parts"}
      /\ logged <= logged /\ received <= received
  BY DEF JobInv, JobTyped, Jobs!WorkshopAssumption, Jobs!Deposits
<1>2. ASSUME NEW q \in Quotes, NEW n \in Jobs!Deposits, Jobs!CreateQuote(q, n) PROVE JobInv'
  <2>1. [status |-> "draft", deposit |-> n] \in Jobs!QuoteRows
    BY DEF Jobs!QuoteRows
  <2>2. quote' \in [Quotes -> Jobs!QuoteRows]
    BY <1>1, <1>2, <2>1 DEF Jobs!CreateQuote
  <2> QED BY <1>2, <2>2 DEF JobInv, JobTyped, Modest, Jobs!CreateQuote
<1>3. ASSUME NEW p \in Handlers, NEW op \in Ops, NEW q \in Quotes, Jobs!QuoteLoad(p, op, q)
      PROVE  JobInv'
  <2>1. PICK r : r = [op |-> op, id |-> q, was |-> quote[q]]
    OBVIOUS
  <2>2. op \in QuoteOps
    BY <1>3 DEF Jobs!QuoteLoad, QuoteOps
  <2>3. r \in JobRequests /\ r.op \notin Reads
    BY <1>1, <2>1, <2>2 DEF JobRequests, QuoteOps, Reads, JobOps
  <2>4. h' = [h EXCEPT ![p] = r] /\ UNCHANGED <<job, quote, po, logged, received, byHand>>
    BY <1>3, <2>1 DEF Jobs!QuoteLoad
  <2> QED BY <2>3, <2>4, GoesOn DEF Reads
<1>4. ASSUME NEW p \in Handlers, NEW n \in Jobs!Deposits, Jobs!QuoteCommit(p, n) PROVE JobInv'
  <2>1. h[p].id \in Quotes /\ h[p].was \in Jobs!QuoteRows
    BY <1>1, <1>4, RequestFields DEF Jobs!QuoteCommit, QuoteOps
  <2>2. PICK new : /\ quote' = [quote EXCEPT ![h[p].id] = Jobs!Flushed(quote[h[p].id], h[p].was, new)]
                   /\ \/ new = [h[p].was EXCEPT !.deposit = n]
                      \/ new = [h[p].was EXCEPT !.status = "sent"]
                      \/ new = [h[p].was EXCEPT !.status = "rejected"]
    BY <1>4 DEF Jobs!QuoteCommit, Jobs!SaveQuote
  <2>3. new \in Jobs!QuoteRows
    BY <2>1, <2>2 DEF Jobs!QuoteRows
  <2>4. Jobs!Flushed(quote[h[p].id], h[p].was, new) \in Jobs!QuoteRows
    BY <1>1, <2>1, <2>3, QuoteTyped
  <2>5. quote' \in [Quotes -> Jobs!QuoteRows]
    BY <1>1, <2>1, <2>2, <2>4
  <2>6. /\ h' = [h EXCEPT ![p] = Jobs!Idle] /\ UNCHANGED <<job, po, logged, received, byHand>>
    BY <1>4 DEF Jobs!QuoteCommit
  <2>7. /\ h' \in [Handlers -> JobRequests]
        /\ \A q \in Handlers : h'[q] = h[q] \/ h'[q].op = "none"
    BY <1>1, <2>6, NoneIsRequest
  <2>8. JobTyped'
    BY <1>1, <2>5, <2>6, <2>7 DEF JobTyped
  <2> QED BY <2>6, <2>7, <2>8 DEF JobInv, Modest, Reads, JobOps
<1>5. ASSUME NEW p \in Handlers, Jobs!AcceptJob(p) PROVE JobInv'
  <2>1. h[p].id \in Quotes /\ h[p].was \in Jobs!QuoteRows
    BY <1>1, <1>5, RequestFields DEF Jobs!AcceptJob, QuoteOps
  <2>2. PICK r : r = [op |-> "accepted", id |-> h[p].id, was |-> h[p].was, seen |-> job]
    OBVIOUS
  <2>3. r \in JobRequests /\ r.op = "accepted" /\ r.seen = job
    BY <1>1, <2>1, <2>2 DEF JobRequests
  <2>4. h' = [h EXCEPT ![p] = r] /\ UNCHANGED <<job, quote, po, logged, received, byHand>>
    BY <1>5, <2>2 DEF Jobs!AcceptJob
  <2> QED BY <1>1, <2>3, <2>4, GoesOn
<1>6. ASSUME NEW p \in Handlers, Jobs!AcceptCommit(p) PROVE JobInv'
  <2>1. /\ h[p].id \in Quotes /\ h[p].was \in Jobs!QuoteRows /\ h[p].op \in Reads
        /\ h[p].was.deposit \in Jobs!Deposits
    BY <1>1, <1>6, RequestFields DEF Jobs!AcceptCommit, Reads, Jobs!QuoteRows
  <2>2. PICK row : row = [h[p].was EXCEPT !.status = "accepted"]
    OBVIOUS
  <2>3. row \in Jobs!QuoteRows
    BY <2>1, <2>2 DEF Jobs!QuoteRows
  <2>4. Jobs!Flushed(quote[h[p].id], h[p].was, row) \in Jobs!QuoteRows
    BY <1>1, <2>1, <2>3, QuoteTyped
  <2>5. quote' \in [Quotes -> Jobs!QuoteRows]
    BY <1>1, <1>6, <2>1, <2>2, <2>4 DEF Jobs!AcceptCommit, Jobs!SaveQuote
  <2>6. PICK new : new = IF Jobs!Saw(p).status # "quoted" THEN Jobs!Saw(p)
                         ELSE [Jobs!Saw(p) EXCEPT !.status = "approved", !.need = h[p].was.deposit]
    OBVIOUS
  <2>7. /\ new \in Jobs!JobRows /\ new.paid = Jobs!Saw(p).paid /\ new.hours = Jobs!Saw(p).hours
    BY <2>1, <2>6, SeenIsModest DEF Jobs!JobRows, Jobs!JobStatus
  <2>8. Jobs!Save(p, "accepted", new) /\ UNCHANGED <<po, logged, received, byHand>>
    BY <1>6, <2>6 DEF Jobs!AcceptCommit
  <2> QED BY <1>1, <2>1, <2>5, <2>7, <2>8, SeenIsModest, SaveKeeps
<1> QED BY <1>2, <1>3, <1>4, <1>5, <1>6

LEMMA OrdersKeep ==
    ASSUME Jobs!WorkshopAssumption, JobInv, NEW p \in Handlers,
           \/ \E o \in POs : \/ Jobs!Order(p, o)
                             \/ \E s \in {"open", "received", "cancelled"} : Jobs!POLoad(p, o, s)
           \/ Jobs!POCount(p) \/ Jobs!POJob(p) \/ Jobs!POCommit(p) \/ Jobs!POReceived(p)
    PROVE  JobInv'
<1>1. /\ job \in Jobs!JobRows /\ Modest(job) /\ quote \in [Quotes -> Jobs!QuoteRows]
      /\ po \in [POs -> POStatus] /\ h \in [Handlers -> JobRequests]
      /\ logged \in 0 .. MaxHours /\ received \in Jobs!Deposits
      /\ byHand \subseteq {"need", "hours", "parts"}
      /\ logged <= logged /\ received <= received
  BY DEF JobInv, JobTyped, Jobs!WorkshopAssumption, Jobs!Deposits
<1>2. ASSUME NEW o \in POs, Jobs!Order(p, o) PROVE JobInv'
  <2>1. h[p].op \in Reads
    BY <1>2 DEF Jobs!Order, Reads, JobOps
  <2>2. PICK new : new = [Jobs!Saw(p) EXCEPT !.parts = TRUE]
    OBVIOUS
  <2>3. new \in Jobs!JobRows /\ new.paid = Jobs!Saw(p).paid /\ new.hours = Jobs!Saw(p).hours
    BY <2>1, <2>2, SeenIsModest DEF Jobs!JobRows
  <2>4. /\ Jobs!Save(p, "order", new) /\ UNCHANGED <<quote, logged, received, byHand>>
        /\ po' \in [POs -> POStatus]
    BY <1>1, <1>2, <2>2 DEF Jobs!Order, POStatus
  <2> QED BY <1>1, <2>1, <2>3, <2>4, SeenIsModest, SaveKeeps
<1>3. ASSUME NEW o \in POs, NEW s \in {"open", "received", "cancelled"}, Jobs!POLoad(p, o, s) PROVE JobInv'
  <2>1. PICK r : r = [op |-> "po_status", id |-> o, was |-> po[o], to |-> s]
    OBVIOUS
  <2>2. r \in JobRequests /\ r.op = "po_status"
    BY <1>1, <2>1 DEF JobRequests, POStatus
  <2>3. h' = [h EXCEPT ![p] = r] /\ UNCHANGED <<job, quote, po, logged, received, byHand>>
    BY <1>3, <2>1 DEF Jobs!POLoad
  <2> QED BY <2>2, <2>3, GoesOn DEF Reads, JobOps
<1>4. ASSUME Jobs!POCount(p) PROVE JobInv'
  <2>1. h[p].id \in POs /\ h[p].was \in POStatus
    BY <1>1, <1>4, RequestFields DEF Jobs!POCount
  <2>2. PICK r : r = [op |-> "po_counted", id |-> h[p].id, was |-> h[p].was,
                      pending |-> Jobs!Pending(h[p].id) # {}]
    OBVIOUS
  <2>3. r \in JobRequests /\ r.op = "po_counted"
    BY <2>1, <2>2 DEF JobRequests
  <2>4. h' = [h EXCEPT ![p] = r] /\ UNCHANGED <<job, quote, po, logged, received, byHand>>
    BY <1>4, <2>2 DEF Jobs!POCount
  <2> QED BY <2>3, <2>4, GoesOn DEF Reads, JobOps
<1>5. ASSUME Jobs!POJob(p) PROVE JobInv'
  <2>1. h[p].id \in POs /\ h[p].was \in POStatus /\ h[p].pending \in BOOLEAN
    BY <1>1, <1>5, RequestFields DEF Jobs!POJob
  <2>2. PICK r : r = [op |-> "po_received", id |-> h[p].id, was |-> h[p].was,
                      pending |-> h[p].pending, seen |-> job]
    OBVIOUS
  <2>3. r \in JobRequests /\ r.op = "po_received" /\ r.seen = job
    BY <1>1, <2>1, <2>2 DEF JobRequests
  <2>4. h' = [h EXCEPT ![p] = r] /\ UNCHANGED <<job, quote, po, logged, received, byHand>>
    BY <1>5, <2>2 DEF Jobs!POJob
  <2> QED BY <1>1, <2>3, <2>4, GoesOn
<1>6. ASSUME Jobs!POCommit(p) PROVE JobInv'
  <2>1. h[p].id \in POs /\ h[p].to \in POStatus
    BY <1>1, <1>6, RequestFields DEF Jobs!POCommit
  <2>2. /\ po' \in [POs -> POStatus] /\ h' = [h EXCEPT ![p] = Jobs!Idle]
        /\ UNCHANGED <<job, quote, logged, received, byHand>>
    BY <1>1, <1>6, <2>1 DEF Jobs!POCommit, Jobs!SavePO
  <2>3. /\ h' \in [Handlers -> JobRequests]
        /\ \A q \in Handlers : h'[q] = h[q] \/ h'[q].op = "none"
    BY <1>1, <2>2, NoneIsRequest
  <2>4. JobTyped'
    BY <1>1, <2>2, <2>3 DEF JobTyped
  <2> QED BY <2>2, <2>3, <2>4 DEF JobInv, Modest, Reads, JobOps
<1>7. ASSUME Jobs!POReceived(p) PROVE JobInv'
  <2>1. h[p].id \in POs /\ h[p].pending \in BOOLEAN /\ h[p].op \in Reads
    BY <1>1, <1>7, RequestFields DEF Jobs!POReceived, Reads
  <2>2. PICK new : new = [Jobs!Saw(p) EXCEPT !.parts = @ /\ h[p].pending]
    OBVIOUS
  <2>3. new \in Jobs!JobRows /\ new.paid = Jobs!Saw(p).paid /\ new.hours = Jobs!Saw(p).hours
    BY <2>1, <2>2, SeenIsModest DEF Jobs!JobRows
  <2>4. /\ Jobs!Save(p, "po_received", new) /\ UNCHANGED <<quote, logged, received, byHand>>
        /\ po' \in [POs -> POStatus]
    BY <1>1, <1>7, <2>1, <2>2 DEF Jobs!POReceived, Jobs!SavePO, POStatus
  <2> QED BY <1>1, <2>1, <2>3, <2>4, SeenIsModest, SaveKeeps
<1> QED BY <1>2, <1>3, <1>4, <1>5, <1>6, <1>7

LEMMA AbortKeeps ==
    ASSUME JobInv, NEW p \in Handlers, Jobs!Abort(p) PROVE JobInv'
BY NoneIsRequest, GoesOn DEF Jobs!Abort, Reads, JobOps

LEMMA LoadKeeps ==
    ASSUME JobInv, Jobs!WorkshopAssumption, NEW p \in Handlers, NEW op \in Ops, Jobs!Load(p, op)
    PROVE  JobInv'
<1>1. PICK r : r = [op |-> op, seen |-> job]
  OBVIOUS
<1>2. op \in JobOps
  BY DEF Jobs!Load, Jobs!WorkshopAssumption, Jobs!AllOps, JobOps
<1>3. r \in JobRequests /\ r.seen = job /\ r.op # "logged"
  BY <1>1, <1>2 DEF JobInv, JobTyped, JobRequests, JobOps
<1>4. h' = [h EXCEPT ![p] = r] /\ UNCHANGED <<job, quote, po, logged, received, byHand>>
  BY <1>1 DEF Jobs!Load
<1> QED BY <1>3, <1>4, GoesOn DEF JobInv

LEMMA CreateKeepsJob == ASSUME JobInv, Jobs!Create PROVE JobInv'
<1>1. job \in Jobs!JobRows /\ job' = [job EXCEPT !.status = "quoted"]
  BY DEF JobInv, JobTyped, Jobs!Create
<1>2. job' \in Jobs!JobRows /\ job'.paid = job.paid /\ job'.hours = job.hours
  BY <1>1 DEF Jobs!JobRows, Jobs!JobStatus
<1> QED BY <1>2 DEF JobInv, JobTyped, Modest, Jobs!Create

LEMMA JobInit == ASSUME Jobs!WorkshopAssumption, Jobs!Init PROVE JobInv
<1>1. job \in Jobs!JobRows /\ Modest(job)
  BY DEF Jobs!WorkshopAssumption, Jobs!Init, Jobs!JobRows, Jobs!Deposits, Modest
<1>2. [status |-> "unused", deposit |-> 0] \in Jobs!QuoteRows
  BY DEF Jobs!WorkshopAssumption, Jobs!QuoteRows, Jobs!Deposits
<1>3. JobTyped
  BY <1>1, <1>2, NoneIsRequest
     DEF Jobs!WorkshopAssumption, Jobs!Init, JobTyped, Jobs!Deposits, POStatus
<1> QED BY <1>1, <1>3, NoneIsRequest DEF Jobs!Init, JobInv, Reads, JobOps

LEMMA JobNextKeeps ==
    ASSUME Jobs!WorkshopAssumption, JobInv, [Jobs!Next]_(Jobs!vars) PROVE JobInv'
<1>1. ASSUME UNCHANGED Jobs!vars PROVE JobInv'
  BY <1>1 DEF Jobs!vars, JobInv, JobTyped, Modest
<1> QED BY <1>1, CreateKeepsJob, QuotesKeep, JobOnlyKeeps, ByHandKeeps, LogKeeps, DepositKeeps, OrdersKeep,
           AbortKeeps, LoadKeeps DEF Jobs!Next, JobOnlyStep

(* camper_router.py: every column of a job, its quotations and orders holds what it may,
   however requests interleave. *)
THEOREM JobTypedHolds ==
    ASSUME Jobs!WorkshopAssumption PROVE Jobs!Spec => []Jobs!TypeOK
<1>1. Jobs!Init => JobInv
  BY JobInit
<1>2. JobInv /\ [Jobs!Next]_(Jobs!vars) => JobInv'
  BY JobNextKeeps
<1>3. JobInv => Jobs!TypeOK
  BY RequestFields DEF JobInv, JobTyped, Jobs!TypeOK, POStatus
<1> QED BY <1>1, <1>2, <1>3, PTL DEF Jobs!Spec

LEMMA JobShows == JobInv => Jobs!NeverOverstated
BY DEF JobInv, Modest, Jobs!NeverOverstated

(* record_deposit and log_work: however requests interleave, a job shows no more deposit than
   was handed over and no more hours than were logged; it may show less. *)
THEOREM NeverOverstatedHolds ==
    ASSUME Jobs!WorkshopAssumption PROVE Jobs!Spec => []Jobs!NeverOverstated
<1>1. Jobs!Init => JobInv
  BY JobInit
<1>2. JobInv /\ [Jobs!Next]_(Jobs!vars) => JobInv'
  BY JobNextKeeps
<1> QED BY <1>1, <1>2, JobShows, PTL DEF Jobs!Spec
-----------------------------------------------------------------------------
(***************************************************************************)
(* One request at a time.  What it has read is still so when it commits;   *)
(* a quotation that was accepted or rejected keeps the deposit it says.    *)
(***************************************************************************)
StillSo(r) ==
    /\ r.op \in Reads => r.seen = job
    /\ r.op \in QuoteOps \cup {"accepted"}
       => /\ r.was = quote[r.id] /\ r.was.status # "unused"
          /\ r.op # "reject" => r.was.status \in {"draft", "sent"}
    /\ r.op \in {"po_status", "po_counted", "po_received"} => r.was = po[r.id]
    /\ r.op \in {"po_counted", "po_received"} => (r.pending <=> Jobs!Pending(r.id) # {})

(* Before the job is created there is nothing else. *)
NothingYet ==
    job.status = "unused" => /\ \A q \in Quotes : quote[q].status = "unused"
                             /\ \A o \in POs : po[o] = "unused"
                             /\ \A p \in Handlers : h[p].op = "none"

SoloInv ==
    /\ JobInv
    /\ NothingYet
    /\ \A p \in Handlers : StillSo(h[p])
    /\ Jobs!DepositAsAgreed

(* A row that is as it was read is committed as it is. *)
LEMMA FlushedAsIs ==
    ASSUME NEW row \in Jobs!JobRows, NEW new \in Jobs!JobRows
    PROVE  Jobs!Flushed(row, row, new) = new
<1>1. Jobs!Flushed(row, row, new) = [c \in DOMAIN row |-> new[c]]
  BY DEF Jobs!Flushed
<1>2. DOMAIN row = DOMAIN new /\ new = [c \in DOMAIN new |-> new[c]]
  BY DEF Jobs!JobRows
<1> QED BY <1>1, <1>2

(* A commit of the job, its quotations or orders. *)
LEMMA SoloCommits ==
    ASSUME OneHandler, JobInv', NEW p \in Handlers, h \in [Handlers -> JobRequests],
           h' = [h EXCEPT ![p] = Jobs!Idle], job'.status # "unused", Jobs!DepositAsAgreed'
    PROVE  SoloInv'
<1>1. \A q \in Handlers : h'[q] = Jobs!Idle
  BY DEF OneHandler
<1>2. \A q \in Handlers : StillSo(h[q])'
  BY <1>1 DEF StillSo, Jobs!Idle, Reads, JobOps, QuoteOps
<1> QED BY <1>2 DEF SoloInv, NothingYet

(* A handler goes on without a commit. *)
LEMMA SoloGoesOn ==
    ASSUME OneHandler, SoloInv, JobInv', NEW p \in Handlers, NEW r, h' = [h EXCEPT ![p] = r],
           UNCHANGED <<job, quote, po, logged, received, byHand>>, StillSo(r), job.status # "unused"
    PROVE  SoloInv'
<1>1. \A q \in Handlers : h'[q] = r
  BY DEF OneHandler, SoloInv, JobInv, JobTyped
<1>2. \A q \in Handlers : StillSo(h[q])'
  BY <1>1 DEF StillSo, Jobs!Pending
<1> QED BY <1>2 DEF SoloInv, NothingYet, Jobs!DepositAsAgreed

(* What a handler that saves the job does to it. *)
LEMMA SoloSaves ==
    ASSUME SoloInv, NEW p \in Handlers, NEW op \in Reads, NEW new \in Jobs!JobRows, Jobs!Save(p, op, new)
    PROVE  /\ Jobs!Saw(p) = job /\ job \in Jobs!JobRows /\ job' = new
           /\ job.status # "unused"
           /\ h' = [h EXCEPT ![p] = Jobs!Idle] /\ h \in [Handlers -> JobRequests]
<1>1. h[p].op = op /\ op # "none" /\ job' = Jobs!Flushed(job, h[p].seen, new)
  BY DEF Jobs!Save, Reads, JobOps
<1>2. h[p].seen = job /\ job \in Jobs!JobRows
  BY <1>1 DEF SoloInv, StillSo, JobInv, JobTyped
<1>3. job.status # "unused"
  BY <1>1 DEF SoloInv, NothingYet
<1> QED BY <1>1, <1>2, <1>3, FlushedAsIs DEF Jobs!Saw, Jobs!Save, SoloInv, JobInv, JobTyped

(* A column of the job other than the deposits. *)
LEMMA SoloColumn ==
    ASSUME Jobs!WorkshopAssumption, OneHandler, SoloInv, JobInv', NEW p \in Handlers, NEW op \in Reads,
           NEW new \in Jobs!JobRows, Jobs!Save(p, op, new), new.paid = Jobs!Saw(p).paid,
           new.need = Jobs!Saw(p).need \/ "need" \in byHand', new.status # "unused",
           UNCHANGED <<quote, received>>, byHand \subseteq byHand'
    PROVE  SoloInv'
<1>1. Jobs!Saw(p) = job /\ job' = new /\ h' = [h EXCEPT ![p] = Jobs!Idle] /\ h \in [Handlers -> JobRequests]
  BY SoloSaves
<1>2. Jobs!DepositAsAgreed'
  BY <1>1 DEF SoloInv, Jobs!DepositAsAgreed
<1> QED BY <1>1, <1>2, SoloCommits

LEMMA SoloReads ==
    ASSUME SoloInv, NEW p \in Handlers, h[p].op \in Reads
    PROVE  Jobs!Saw(p) = job /\ job \in Jobs!JobRows /\ job.status # "unused"
BY DEF SoloInv, StillSo, NothingYet, Jobs!Saw, JobInv, JobTyped, Reads, JobOps

LEMMA SoloJobOnly ==
    ASSUME Jobs!WorkshopAssumption, OneHandler, SoloInv, NEW p \in Handlers, JobOnlyStep(p)
    PROVE  SoloInv'
<1>1. JobInv'
  BY JobOnlyKeeps DEF SoloInv
<1>2. PICK op, new : JobOnlyAs(p, op, new)
  BY JobOnlySaves
<1>3. h[p].op \in Reads /\ op \in Reads
  BY <1>2 DEF JobOnlyAs, Jobs!Save, Reads
<1>4. Jobs!Saw(p) \in Jobs!JobRows /\ Jobs!Saw(p).status # "unused"
  BY <1>3, SoloReads
<1>5. /\ new \in Jobs!JobRows /\ new.paid = Jobs!Saw(p).paid /\ new.need = Jobs!Saw(p).need
      /\ new.status # "unused"
  BY <1>2, <1>4 DEF JobOnlyAs, Jobs!JobRows, Jobs!JobStatus
<1> QED BY <1>1, <1>2, <1>3, <1>5, SoloColumn DEF JobOnlyAs

LEMMA SoloByHand ==
    ASSUME Jobs!WorkshopAssumption, OneHandler, SoloInv, NEW p \in Handlers,
           \/ \E n \in Jobs!Deposits : Jobs!SetByHand(p, "need", n)
           \/ \E n \in 0 .. MaxHours : Jobs!SetByHand(p, "hours", n) \/ Jobs!CompleteWith(p, n)
           \/ \E b \in BOOLEAN : Jobs!SetByHand(p, "parts", b)
    PROVE  SoloInv'
<1>1. JobInv'
  BY ByHandKeeps DEF SoloInv
<1>2. h[p].op \in Reads
  BY DEF Jobs!SetByHand, Jobs!CompleteWith, Jobs!Save, Reads, JobOps
<1>3. Jobs!Saw(p) \in Jobs!JobRows /\ Jobs!Saw(p).status # "unused"
  BY <1>2, SoloReads
<1>4. PICK op, new :
         /\ op \in JobOps
         /\ Jobs!Save(p, op, new) /\ UNCHANGED <<quote, po, logged, received>>
         /\ \/ \E n \in Jobs!Deposits : new = [Jobs!Saw(p) EXCEPT !["need"] = n] /\ byHand' = byHand \cup {"need"}
            \/ \E n \in 0 .. MaxHours : /\ \/ new = [Jobs!Saw(p) EXCEPT !["hours"] = n]
                                           \/ new = [Jobs!Saw(p) EXCEPT !.status = "completed", !.hours = n]
                                        /\ byHand' = byHand \cup {"hours"}
            \/ \E b \in BOOLEAN : new = [Jobs!Saw(p) EXCEPT !["parts"] = b] /\ byHand' = byHand \cup {"parts"}
  <2>1. ASSUME NEW n \in Jobs!Deposits, Jobs!SetByHand(p, "need", n)
        PROVE  /\ Jobs!Save(p, "update", [Jobs!Saw(p) EXCEPT !["need"] = n])
               /\ byHand' = byHand \cup {"need"} /\ UNCHANGED <<quote, po, logged, received>>
    BY <2>1 DEF Jobs!SetByHand, Jobs!JobOnly
  <2>2. ASSUME NEW n \in 0 .. MaxHours, Jobs!SetByHand(p, "hours", n)
        PROVE  /\ Jobs!Save(p, "update", [Jobs!Saw(p) EXCEPT !["hours"] = n])
               /\ byHand' = byHand \cup {"hours"} /\ UNCHANGED <<quote, po, logged, received>>
    BY <2>2 DEF Jobs!SetByHand, Jobs!JobOnly
  <2>3. ASSUME NEW n \in 0 .. MaxHours, Jobs!CompleteWith(p, n)
        PROVE  /\ Jobs!Save(p, "complete", [Jobs!Saw(p) EXCEPT !.status = "completed", !.hours = n])
               /\ byHand' = byHand \cup {"hours"} /\ UNCHANGED <<quote, po, logged, received>>
    BY <2>3 DEF Jobs!CompleteWith, Jobs!JobOnly
  <2>4. ASSUME NEW b \in BOOLEAN, Jobs!SetByHand(p, "parts", b)
        PROVE  /\ Jobs!Save(p, "update", [Jobs!Saw(p) EXCEPT !["parts"] = b])
               /\ byHand' = byHand \cup {"parts"} /\ UNCHANGED <<quote, po, logged, received>>
    BY <2>4 DEF Jobs!SetByHand, Jobs!JobOnly
  <2>5. {"update", "complete"} \subseteq JobOps
    BY DEF JobOps
  <2> QED BY <2>1, <2>2, <2>3, <2>4, <2>5
<1>5. /\ new \in Jobs!JobRows /\ new.paid = Jobs!Saw(p).paid
      /\ new.need = Jobs!Saw(p).need \/ "need" \in byHand'
      /\ new.status # "unused" /\ byHand \subseteq byHand'
  BY <1>3, <1>4 DEF Jobs!JobRows, Jobs!JobStatus
<1> QED BY <1>1, <1>4, <1>5, SoloColumn DEF Reads

LEMMA SoloLogs ==
    ASSUME Jobs!WorkshopAssumption, OneHandler, SoloInv, NEW p \in Handlers,
           (\E n \in 0 .. MaxHours : Jobs!LogSum(p, n)) \/ Jobs!LogCommit(p)
    PROVE  SoloInv'
<1>1. JobInv'
  BY LogKeeps DEF SoloInv
<1>2. h[p].op \in Reads /\ h[p] \in JobRequests
  BY DEF Jobs!LogSum, Jobs!LogCommit, Jobs!Save, Reads, JobOps, SoloInv, JobInv, JobTyped
<1>3. Jobs!Saw(p) = job /\ job \in Jobs!JobRows /\ job.status # "unused"
  BY <1>2, SoloReads
<1>4. ASSUME NEW n \in 0 .. MaxHours, Jobs!LogSum(p, n) PROVE SoloInv'
  <2>1. PICK r : r = [op |-> "logged", seen |-> Jobs!Saw(p), hours |-> n, sum |-> logged + n]
    OBVIOUS
  <2>2. StillSo(r)
    BY <1>3, <2>1 DEF StillSo, QuoteOps
  <2>3. h' = [h EXCEPT ![p] = r] /\ UNCHANGED <<job, quote, po, logged, received, byHand>>
    BY <1>4, <2>1 DEF Jobs!LogSum
  <2> QED BY <1>1, <1>3, <2>2, <2>3, SoloGoesOn
<1>5. ASSUME Jobs!LogCommit(p) PROVE SoloInv'
  <2>1. PICK new : new = [Jobs!Saw(p) EXCEPT !.hours = h[p].sum]
    OBVIOUS
  <2>2. h[p].sum \in 0 .. MaxHours
    BY <1>2, <1>5, RequestFields DEF Jobs!LogCommit
  <2>3. /\ new \in Jobs!JobRows /\ new.paid = Jobs!Saw(p).paid /\ new.need = Jobs!Saw(p).need
        /\ new.status # "unused"
    BY <1>3, <2>1, <2>2 DEF Jobs!JobRows
  <2>4. Jobs!Save(p, "logged", new) /\ UNCHANGED <<quote, received, byHand>>
    BY <1>5, <2>1 DEF Jobs!LogCommit
  <2> QED BY <1>1, <2>3, <2>4, SoloColumn DEF Reads
<1> QED BY <1>4, <1>5

LEMMA SoloDeposits ==
    ASSUME Jobs!WorkshopAssumption, OneHandler, SoloInv, NEW p \in Handlers,
           NEW n \in Jobs!Deposits, Jobs!Deposit(p, n)
    PROVE  SoloInv'
<1>1. JobInv'
  BY DepositKeeps DEF SoloInv
<1>2. h[p].op \in Reads
  BY DEF Jobs!Deposit, Jobs!Save, Reads, JobOps
<1>3. /\ Jobs!Saw(p) = job /\ job \in Jobs!JobRows /\ job.status # "unused"
      /\ job.paid = received /\ received \in Nat /\ MaxDeposit \in Nat /\ n \in Nat
  BY <1>2, SoloReads
     DEF SoloInv, Jobs!DepositAsAgreed, JobInv, JobTyped, Jobs!Deposits, Jobs!WorkshopAssumption
<1>4. PICK new : new = [Jobs!Saw(p) EXCEPT !.paid = @ + n]
  OBVIOUS
<1>5. /\ Jobs!Save(p, "deposit", new) /\ UNCHANGED <<quote, po, logged, byHand>>
      /\ received' = received + n /\ received + n <= MaxDeposit
  BY <1>4 DEF Jobs!Deposit
<1>6. job.paid + n \in Jobs!Deposits
  BY <1>3, <1>5 DEF Jobs!Deposits
<1>7. new \in Jobs!JobRows /\ new.paid = received' /\ new.need = job.need /\ new.status # "unused"
  BY <1>3, <1>4, <1>5, <1>6 DEF Jobs!JobRows
<1>8. job' = new /\ h' = [h EXCEPT ![p] = Jobs!Idle] /\ h \in [Handlers -> JobRequests]
  BY <1>5, <1>7, SoloSaves DEF Reads, JobOps
<1>9. Jobs!DepositAsAgreed'
  BY <1>5, <1>7, <1>8 DEF SoloInv, Jobs!DepositAsAgreed
<1> QED BY <1>1, <1>7, <1>8, <1>9, SoloCommits

LEMMA SoloQuotes ==
    ASSUME Jobs!WorkshopAssumption, OneHandler, SoloInv,
           \/ \E q \in Quotes, n \in Jobs!Deposits : Jobs!CreateQuote(q, n)
           \/ \E p \in Handlers : \/ \E op \in Ops, q \in Quotes : Jobs!QuoteLoad(p, op, q)
                                  \/ \E n \in Jobs!Deposits : Jobs!QuoteCommit(p, n)
                                  \/ Jobs!AcceptJob(p) \/ Jobs!AcceptCommit(p)
    PROVE  SoloInv'
<1>1. JobInv'
  BY QuotesKeep DEF SoloInv
<1>2. /\ job \in Jobs!JobRows /\ quote \in [Quotes -> Jobs!QuoteRows] /\ h \in [Handlers -> JobRequests]
  BY DEF SoloInv, JobInv, JobTyped
<1>3. ASSUME NEW q \in Quotes, NEW n \in Jobs!Deposits, Jobs!CreateQuote(q, n) PROVE SoloInv'
  <2>1. /\ quote[q].status = "unused" /\ job.status # "unused"
        /\ UNCHANGED <<job, po, logged, received, byHand, h>>
        /\ \A x \in Quotes : x # q => quote'[x] = quote[x]
    BY <1>2, <1>3 DEF Jobs!CreateQuote
  <2>2. Jobs!DepositAsAgreed'
    BY <2>1 DEF SoloInv, Jobs!DepositAsAgreed
  <2>3. ASSUME NEW p \in Handlers PROVE StillSo(h[p])'
    <3>1. h[p].op \in QuoteOps \cup {"accepted"} => h[p].id \in Quotes
      BY <1>2, RequestFields
    <3>2. h[p].op \in QuoteOps \cup {"accepted"} => h[p].id # q
      BY <1>2, <2>1, <3>1 DEF SoloInv, StillSo
    <3> QED BY <2>1, <3>1, <3>2 DEF SoloInv, StillSo, Jobs!Pending
  <2> QED BY <1>1, <2>1, <2>2, <2>3 DEF SoloInv, NothingYet
<1>4. ASSUME NEW p \in Handlers, NEW op \in Ops, NEW q \in Quotes, Jobs!QuoteLoad(p, op, q)
      PROVE  SoloInv'
  <2>1. PICK r : r = [op |-> op, id |-> q, was |-> quote[q]]
    OBVIOUS
  <2>2. op \in QuoteOps /\ quote[q].status \in Jobs!OpenFor(op)
    BY <1>4 DEF Jobs!QuoteLoad, QuoteOps
  <2>3. StillSo(r)
    BY <2>1, <2>2 DEF StillSo, QuoteOps, Reads, JobOps, Jobs!OpenFor
  <2>4. job.status # "unused"
    BY <2>2 DEF SoloInv, NothingYet, Jobs!OpenFor, QuoteOps
  <2>5. h' = [h EXCEPT ![p] = r] /\ UNCHANGED <<job, quote, po, logged, received, byHand>>
    BY <1>4, <2>1 DEF Jobs!QuoteLoad
  <2> QED BY <1>1, <2>3, <2>4, <2>5, SoloGoesOn
<1>5. ASSUME NEW p \in Handlers, NEW n \in Jobs!Deposits, Jobs!QuoteCommit(p, n) PROVE SoloInv'
  <2>1. PICK q \in Quotes : q = h[p].id
    BY <1>2, <1>5, RequestFields DEF Jobs!QuoteCommit, QuoteOps
  <2>2. /\ h[p].was = quote[q] /\ h[p].op \in {"edit_quote", "send", "reject"}
        /\ h[p].op # "reject" => quote[q].status \in {"draft", "sent"}
        /\ job.status # "unused"
    BY <1>5, <2>1 DEF Jobs!QuoteCommit, SoloInv, StillSo, NothingYet, QuoteOps
  <2>3. PICK new : /\ quote' = [quote EXCEPT ![q] = Jobs!Flushed(quote[q], quote[q], new)]
                   /\ \/ h[p].op # "reject" /\ new = [quote[q] EXCEPT !.deposit = n]
                      \/ h[p].op # "reject" /\ new = [quote[q] EXCEPT !.status = "sent"]
                      \/ h[p].op = "reject" /\ new = [quote[q] EXCEPT !.status = "rejected"]
    BY <1>5, <2>1, <2>2 DEF Jobs!QuoteCommit, Jobs!SaveQuote
  <2>4. new \in Jobs!QuoteRows /\ (h[p].op = "reject" => new.status = "rejected" /\ new.deposit = quote[q].deposit)
    BY <1>2, <2>3 DEF Jobs!QuoteRows
  <2>5. /\ quote'[q].status = new.status /\ quote'[q].deposit = new.deposit
        /\ \A x \in Quotes : x # q => quote'[x] = quote[x]
    BY <1>2, <2>3, <2>4, QuoteTyped
  <2>6. UNCHANGED <<job, received, byHand>> /\ h' = [h EXCEPT ![p] = Jobs!Idle]
    BY <1>5 DEF Jobs!QuoteCommit
  <2>7. Jobs!DepositAsAgreed'
    BY <2>2, <2>4, <2>5, <2>6 DEF SoloInv, Jobs!DepositAsAgreed
  <2> QED BY <1>1, <1>2, <2>2, <2>6, <2>7, SoloCommits
<1>6. ASSUME NEW p \in Handlers, Jobs!AcceptJob(p) PROVE SoloInv'
  <2>1. PICK r : r = [op |-> "accepted", id |-> h[p].id, was |-> h[p].was, seen |-> job]
    OBVIOUS
  <2>2. StillSo(r) /\ job.status # "unused"
    BY <1>6, <2>1 DEF Jobs!AcceptJob, SoloInv, StillSo, NothingYet, QuoteOps, Reads, JobOps
  <2>3. h' = [h EXCEPT ![p] = r] /\ UNCHANGED <<job, quote, po, logged, received, byHand>>
    BY <1>6, <2>1 DEF Jobs!AcceptJob
  <2> QED BY <1>1, <2>2, <2>3, SoloGoesOn
<1>7. ASSUME NEW p \in Handlers, Jobs!AcceptCommit(p) PROVE SoloInv'
  <2>1. h[p].op = "accepted" /\ h[p].op \in Reads
    BY <1>7 DEF Jobs!AcceptCommit, Reads
  <2>2. PICK q \in Quotes : q = h[p].id
    BY <1>2, <2>1, RequestFields
  <2>3. h[p].was = quote[q] /\ quote[q].status \in {"draft", "sent"} /\ quote[q] \in Jobs!QuoteRows
    BY <1>2, <2>1, <2>2 DEF SoloInv, StillSo
  <2>4. PICK row : row = [quote[q] EXCEPT !.status = "accepted"]
    OBVIOUS
  <2>5. row \in Jobs!QuoteRows /\ row.status = "accepted" /\ row.deposit = quote[q].deposit
    BY <2>3, <2>4 DEF Jobs!QuoteRows
  <2>6. quote' = [quote EXCEPT ![q] = Jobs!Flushed(quote[q], quote[q], row)]
    BY <1>7, <2>2, <2>3, <2>4 DEF Jobs!AcceptCommit, Jobs!SaveQuote
  <2>7. /\ quote'[q].status = "accepted" /\ quote'[q].deposit = quote[q].deposit
        /\ \A x \in Quotes : x # q => quote'[x] = quote[x]
    BY <1>2, <2>3, <2>5, <2>6, QuoteTyped
  <2>8. PICK new : new = IF Jobs!Saw(p).status # "quoted" THEN Jobs!Saw(p)
                         ELSE [Jobs!Saw(p) EXCEPT !.status = "approved", !.need = h[p].was.deposit]
    OBVIOUS
  <2>9. Jobs!Saw(p) = job /\ job.status # "unused"
    BY <2>1, SoloReads
  <2>10. /\ new \in Jobs!JobRows /\ new.paid = job.paid /\ new.status # "unused"
         /\ new.need \in {job.need, quote[q].deposit}
    BY <1>2, <2>3, <2>8, <2>9 DEF Jobs!JobRows, Jobs!JobStatus, Jobs!QuoteRows
  <2>11. Jobs!Save(p, "accepted", new) /\ UNCHANGED <<po, logged, received, byHand>>
    BY <1>7, <2>8 DEF Jobs!AcceptCommit
  <2>12. job' = new /\ h' = [h EXCEPT ![p] = Jobs!Idle]
    BY <2>10, <2>11, SoloSaves DEF Reads
  <2>13. Jobs!DepositAsAgreed'
    BY <2>3, <2>7, <2>10, <2>11, <2>12 DEF SoloInv, Jobs!DepositAsAgreed
  <2> QED BY <1>1, <1>2, <2>10, <2>12, <2>13, SoloCommits
<1> QED BY <1>3, <1>4, <1>5, <1>6, <1>7

LEMMA SoloOrders ==
    ASSUME Jobs!WorkshopAssumption, OneHandler, SoloInv, NEW p \in Handlers,
           \/ \E o \in POs : \/ Jobs!Order(p, o)
                             \/ \E s \in {"open", "received", "cancelled"} : Jobs!POLoad(p, o, s)
           \/ Jobs!POCount(p) \/ Jobs!POJob(p) \/ Jobs!POCommit(p) \/ Jobs!POReceived(p)
    PROVE  SoloInv'
<1>1. JobInv'
  BY OrdersKeep DEF SoloInv
<1>2. job \in Jobs!JobRows /\ po \in [POs -> POStatus] /\ h \in [Handlers -> JobRequests]
  BY DEF SoloInv, JobInv, JobTyped
<1>3. ASSUME NEW o \in POs, Jobs!Order(p, o) PROVE SoloInv'
  <2>1. h[p].op \in Reads
    BY <1>3 DEF Jobs!Order, Reads, JobOps
  <2>2. Jobs!Saw(p) = job /\ job.status # "unused"
    BY <2>1, SoloReads
  <2>3. PICK new : new = [Jobs!Saw(p) EXCEPT !.parts = TRUE]
    OBVIOUS
  <2>4. new \in Jobs!JobRows /\ new.paid = job.paid /\ new.need = job.need /\ new.status # "unused"
    BY <1>2, <2>2, <2>3 DEF Jobs!JobRows
  <2>5. Jobs!Save(p, "order", new) /\ UNCHANGED <<quote, logged, received, byHand>>
    BY <1>3, <2>3 DEF Jobs!Order
  <2> QED BY <1>1, <2>2, <2>4, <2>5, SoloColumn DEF Reads, JobOps
<1>4. ASSUME NEW o \in POs, NEW s \in {"open", "received", "cancelled"}, Jobs!POLoad(p, o, s) PROVE SoloInv'
  <2>1. PICK r : r = [op |-> "po_status", id |-> o, was |-> po[o], to |-> s]
    OBVIOUS
  <2>2. StillSo(r)
    BY <2>1 DEF StillSo, Reads, JobOps, QuoteOps
  <2>3. /\ job.status # "unused" /\ h' = [h EXCEPT ![p] = r]
        /\ UNCHANGED <<job, quote, po, logged, received, byHand>>
    BY <1>4, <2>1 DEF Jobs!POLoad, SoloInv, NothingYet
  <2> QED BY <1>1, <2>2, <2>3, SoloGoesOn
<1>5. ASSUME Jobs!POCount(p) PROVE SoloInv'
  <2>1. PICK r : r = [op |-> "po_counted", id |-> h[p].id, was |-> h[p].was,
                      pending |-> Jobs!Pending(h[p].id) # {}]
    OBVIOUS
  <2>2. StillSo(r)
    BY <1>5, <2>1 DEF Jobs!POCount, SoloInv, StillSo, Reads, JobOps, QuoteOps
  <2>3. /\ job.status # "unused" /\ h' = [h EXCEPT ![p] = r]
        /\ UNCHANGED <<job, quote, po, logged, received, byHand>>
    BY <1>5, <2>1 DEF Jobs!POCount, SoloInv, NothingYet
  <2> QED BY <1>1, <2>2, <2>3, SoloGoesOn
<1>6. ASSUME Jobs!POJob(p) PROVE SoloInv'
  <2>1. PICK r : r = [op |-> "po_received", id |-> h[p].id, was |-> h[p].was,
                      pending |-> h[p].pending, seen |-> job]
    OBVIOUS
  <2>2. StillSo(r)
    BY <1>6, <2>1 DEF Jobs!POJob, SoloInv, StillSo, Reads, JobOps, QuoteOps
  <2>3. /\ job.status # "unused" /\ h' = [h EXCEPT ![p] = r]
        /\ UNCHANGED <<job, quote, po, logged, received, byHand>>
    BY <1>6, <2>1 DEF Jobs!POJob, SoloInv, NothingYet
  <2> QED BY <1>1, <2>2, <2>3, SoloGoesOn
<1>7. ASSUME Jobs!POCommit(p) PROVE SoloInv'
  <2>1. /\ job.status # "unused" /\ UNCHANGED <<job, quote, received, byHand>>
        /\ h' = [h EXCEPT ![p] = Jobs!Idle]
    BY <1>7 DEF Jobs!POCommit, SoloInv, NothingYet
  <2>2. Jobs!DepositAsAgreed'
    BY <2>1 DEF SoloInv, Jobs!DepositAsAgreed
  <2> QED BY <1>1, <1>2, <2>1, <2>2, SoloCommits
<1>8. ASSUME Jobs!POReceived(p) PROVE SoloInv'
  <2>1. h[p].pending \in BOOLEAN /\ h[p].op \in Reads
    BY <1>2, <1>8, RequestFields DEF Jobs!POReceived, Reads
  <2>2. Jobs!Saw(p) = job /\ job.status # "unused"
    BY <2>1, SoloReads
  <2>3. PICK new : new = [Jobs!Saw(p) EXCEPT !.parts = @ /\ h[p].pending]
    OBVIOUS
  <2>4. new \in Jobs!JobRows /\ new.paid = job.paid /\ new.need = job.need /\ new.status # "unused"
    BY <1>2, <2>1, <2>2, <2>3 DEF Jobs!JobRows
  <2>5. Jobs!Save(p, "po_received", new) /\ UNCHANGED <<quote, logged, received, byHand>>
    BY <1>8, <2>3 DEF Jobs!POReceived
  <2> QED BY <1>1, <2>2, <2>4, <2>5, SoloColumn DEF Reads
<1> QED BY <1>3, <1>4, <1>5, <1>6, <1>7, <1>8

LEMMA SoloOthers ==
    ASSUME Jobs!WorkshopAssumption, OneHandler, SoloInv, NEW p \in Handlers,
           (\E op \in Ops : Jobs!Load(p, op)) \/ Jobs!Abort(p)
    PROVE  SoloInv'
<1>1. ASSUME NEW op \in Ops, Jobs!Load(p, op) PROVE SoloInv'
  <2>1. JobInv'
    BY <1>1, LoadKeeps DEF SoloInv
  <2>2. op \in JobOps /\ job.status # "unused"
    BY <1>1 DEF Jobs!Load, Jobs!Ready, Jobs!WorkshopAssumption, Jobs!AllOps, JobOps
  <2>3. PICK r : r = [op |-> op, seen |-> job]
    OBVIOUS
  <2>4. StillSo(r)
    BY <2>2, <2>3 DEF StillSo, JobOps, QuoteOps
  <2>5. h' = [h EXCEPT ![p] = r] /\ UNCHANGED <<job, quote, po, logged, received, byHand>>
    BY <1>1, <2>3 DEF Jobs!Load
  <2> QED BY <2>1, <2>2, <2>4, <2>5, SoloGoesOn
<1>2. ASSUME Jobs!Abort(p) PROVE SoloInv'
  <2>1. JobInv' /\ StillSo(Jobs!Idle)
    BY <1>2, AbortKeeps DEF SoloInv, StillSo, Jobs!Idle, Reads, JobOps, QuoteOps
  <2>2. h[p].op # "none"
    BY <1>2, RequestFields DEF Jobs!Abort, SoloInv, JobInv, JobTyped, JobRequests, JobOps, QuoteOps, Jobs!Idle
  <2>3. job.status # "unused"
    BY <2>2 DEF SoloInv, NothingYet
  <2> QED BY <1>2, <2>1, <2>3, SoloGoesOn DEF Jobs!Abort
<1> QED BY <1>1, <1>2

LEMMA SoloCreates ==
    ASSUME OneHandler, SoloInv, Jobs!Create PROVE SoloInv'
<1>1. JobInv'
  BY CreateKeepsJob DEF SoloInv
<1>2. /\ job \in Jobs!JobRows /\ job' = [job EXCEPT !.status = "quoted"]
      /\ UNCHANGED <<quote, po, logged, received, byHand, h>> /\ job.status = "unused"
  BY DEF Jobs!Create, SoloInv, JobInv, JobTyped
<1>3. job'.status = "quoted" /\ job'.need = job.need /\ job'.paid = job.paid
  BY <1>2 DEF Jobs!JobRows
<1>4. \A p \in Handlers : h[p].op = "none"
  BY <1>2 DEF SoloInv, NothingYet
<1>5. \A p \in Handlers : StillSo(h[p])'
  BY <1>2, <1>4 DEF StillSo, Reads, JobOps, QuoteOps
<1>6. Jobs!DepositAsAgreed'
  BY <1>2, <1>3 DEF SoloInv, Jobs!DepositAsAgreed
<1> QED BY <1>1, <1>3, <1>5, <1>6 DEF SoloInv, NothingYet

LEMMA SoloInit == ASSUME Jobs!WorkshopAssumption, Jobs!Init PROVE SoloInv
<1>1. JobInv
  BY JobInit
<1> QED BY <1>1 DEF Jobs!Init, SoloInv, NothingYet, StillSo, Jobs!DepositAsAgreed, Jobs!Idle, Reads,
                    JobOps, QuoteOps

LEMMA SoloNext ==
    ASSUME Jobs!WorkshopAssumption, OneHandler, SoloInv, [Jobs!Next]_(Jobs!vars) PROVE SoloInv'
<1>1. ASSUME UNCHANGED Jobs!vars PROVE SoloInv'
  <2>1. JobInv'
    BY <1>1 DEF Jobs!vars, SoloInv, JobInv, JobTyped, Modest
  <2> QED BY <1>1, <2>1 DEF Jobs!vars, SoloInv, NothingYet, StillSo, Jobs!Pending, Jobs!DepositAsAgreed
<1> QED BY <1>1, SoloCreates, SoloQuotes, SoloJobOnly, SoloByHand, SoloLogs, SoloDeposits, SoloOrders,
           SoloOthers DEF Jobs!Next, JobOnlyStep

(* accept_quotation, update_quotation and record_deposit, one request at a time: the deposit a
   job requires is one of a quotation that was accepted, or set by hand, and what it shows as
   paid is what was handed over. *)
THEOREM DepositAsAgreedHolds ==
    ASSUME Jobs!WorkshopAssumption, OneHandler PROVE Jobs!Spec => []Jobs!DepositAsAgreed
<1>1. Jobs!Init => SoloInv
  BY SoloInit
<1>2. SoloInv /\ [Jobs!Next]_(Jobs!vars) => SoloInv'
  BY SoloNext
<1>3. SoloInv => Jobs!DepositAsAgreed
  BY DEF SoloInv
<1> QED BY <1>1, <1>2, <1>3, PTL DEF Jobs!Spec

(* With one request at a time the flag goes only when the last open order has come in. *)
LEMMA ClearedByLast ==
    ASSUME Jobs!WorkshopAssumption, OneHandler, SoloInv, [Jobs!Next]_(Jobs!vars)
    PROVE  Jobs!ClearedStep
<1> SUFFICES ASSUME job.parts, ~job'.parts, NEW p \in Handlers, h[p].op = "po_received", NEW o \in POs
             PROVE  po'[o] # "open"
  BY DEF Jobs!ClearedStep
<1>1. /\ job \in Jobs!JobRows /\ h[p] \in JobRequests /\ Handlers = {p}
      /\ po \in [POs -> POStatus]
  BY DEF SoloInv, JobInv, JobTyped, OneHandler
<1>2. /\ h[p].id \in POs /\ h[p].pending \in BOOLEAN /\ h[p].seen = job /\ job.status # "unused"
      /\ h[p].was = po[h[p].id] /\ (h[p].pending <=> Jobs!Pending(h[p].id) # {})
  BY <1>1, RequestFields DEF SoloInv, StillSo, NothingYet, Reads
<1>3. Jobs!POReceived(p)
  <2>1. job' # job
    OBVIOUS
  <2>2. ~Jobs!Create
    BY <1>2 DEF Jobs!Create
  <2>3. \A x \in Handlers : ~JobOnlyStep(x)
    BY <1>1 DEF JobOnlyStep, Jobs!Assign, Jobs!Approve, Jobs!Complete, Jobs!Submit, Jobs!Pass,
                Jobs!Fail, Jobs!CheckIn, Jobs!CheckOut, Jobs!StartWait, Jobs!EndWait,
                Jobs!Invoice, Jobs!SetStatus, Jobs!Save
  <2>4. \A x \in Handlers : \A c, v, n, y :
           /\ ~Jobs!SetByHand(x, c, v) /\ ~Jobs!CompleteWith(x, n) /\ ~Jobs!LogSum(x, n)
           /\ ~Jobs!LogCommit(x) /\ ~Jobs!Deposit(x, n) /\ ~Jobs!AcceptCommit(x)
           /\ ~Jobs!Order(x, y)
    BY <1>1 DEF Jobs!SetByHand, Jobs!CompleteWith, Jobs!LogSum, Jobs!LogCommit, Jobs!Deposit,
                Jobs!AcceptCommit, Jobs!Order, Jobs!Save
  <2>5. \A x \in Handlers : \A op, q, n, y, s :
           /\ ~Jobs!CreateQuote(q, n) /\ ~Jobs!Load(x, op) /\ ~Jobs!QuoteLoad(x, op, q)
           /\ ~Jobs!QuoteCommit(x, n) /\ ~Jobs!AcceptJob(x) /\ ~Jobs!POLoad(x, y, s)
           /\ ~Jobs!POCount(x) /\ ~Jobs!POJob(x) /\ ~Jobs!POCommit(x) /\ ~Jobs!Abort(x)
    BY <2>1 DEF Jobs!CreateQuote, Jobs!Load, Jobs!QuoteLoad, Jobs!QuoteCommit, Jobs!AcceptJob,
                Jobs!POLoad, Jobs!POCount, Jobs!POJob, Jobs!POCommit, Jobs!Abort
  <2> QED BY <1>1, <2>1, <2>2, <2>3, <2>4, <2>5 DEF Jobs!Next, Jobs!vars, JobOnlyStep
<1>4. PICK new : new = [job EXCEPT !.parts = @ /\ h[p].pending]
  OBVIOUS
<1>5. new \in Jobs!JobRows /\ new.parts = (job.parts /\ h[p].pending)
  BY <1>1, <1>2, <1>4 DEF Jobs!JobRows
<1>6. job' = new
  BY <1>1, <1>2, <1>3, <1>4, <1>5, FlushedAsIs DEF Jobs!POReceived, Jobs!Save, Jobs!Saw
<1>7. Jobs!Pending(h[p].id) = {}
  BY <1>2, <1>5, <1>6
<1>8. /\ po'[h[p].id] = "received"
      /\ \A x \in POs : x # h[p].id => po'[x] = po[x]
  BY <1>1, <1>2, <1>3 DEF Jobs!POReceived, Jobs!SavePO
<1> QED BY <1>7, <1>8 DEF Jobs!Pending
-----------------------------------------------------------------------------
(***************************************************************************)
(* Logins.  A sub is issued to one username for good, so that of a row     *)
(* under a sub, or with one for its key, it is settled whose it is         *)
(* (Owned); what a request in flight has read may be overtaken, but not    *)
(* that.  What serves a sub stays with it through every commit but one: a  *)
(* request that read the sub its username had before may write that over   *)
(* the key of the row.  So either the username has no other sub (Only), or *)
(* there is one request at a time, and none that read the old one.         *)
(***************************************************************************)
Staff == INSTANCE Logins

LoginRows == [name : Names \cup Subs, kc : Subs \cup Fresh]
SoldRows == {Staff!NoSale} \cup [state : {"rung", "deleted"}, by : Subs, cashier : Staff!Ids]
StaffRequests ==
    {Staff!Idle}
    \cup [op : {"sale"}, by : Subs, row : Staff!Ids]
    \cup [op : {"first_sale"}, by : Subs, row : Subs, as : LoginRows]
    \cup [op : {"heal"}, row : Staff!Ids, seen : LoginRows, kc : Subs]
    \cup [op : {"link"}, emp : Emps, row : Staff!Ids, as : LoginRows \cup {Staff!NoUser}]
    \cup [op : {"provision"}, emp : Emps, name : Names, row : Subs]

StaffTyped ==
    /\ account \in [Names -> Subs \cup {None}] /\ issued \in [Subs -> Names \cup {None}]
    /\ user \in [Staff!Ids -> LoginRows \cup {Staff!NoUser}]
    /\ emp \in [Emps -> Staff!Ids \cup {None}]
    /\ sold \in [Sales -> SoldRows]
    /\ h \in [Handlers -> StaffRequests]

(* Whose a row is: under its sub for an id it bears the username the sub was issued for, or
   the sub; and its keycloak_id is a sub of the username, or of the one its id is of. *)
Owned(i, row) ==
    /\ i \in Subs => issued[i] # None /\ row.name \in {issued[i], i}
    /\ row.name \in Subs => row.name = i
    /\ row.kc \in Subs => /\ issued[row.kc] # None
                          /\ issued[row.kc] = row.name \/ (i \in Subs /\ issued[row.kc] = issued[i])
    /\ i = SeedRow => row.name = SeedName

(* A request knows what cannot change: the username of a sub. *)
Flight(r) ==
    /\ r.op = "sale" => issued[r.by] # None
    /\ r.op = "first_sale" => /\ r.row = r.by /\ r.as.kc = r.by /\ issued[r.by] # None
                              /\ r.as.name \in {issued[r.by], r.by}
    /\ r.op = "heal" => /\ issued[r.kc] = r.seen.name /\ r.seen.name \in Names
                        /\ IF r.row \in Subs THEN issued[r.row] = r.seen.name
                           ELSE r.row \in Staff!Known => user[r.row].name = r.seen.name
    /\ r.op = "link" /\ r.as # Staff!NoUser => /\ r.row \in Fresh /\ r.row \notin Staff!Known
                                               /\ r.as.name \in Names /\ r.as.kc = r.row
    /\ r.op = "provision" => issued[r.row] = r.name

AccountsInv == /\ \A n \in Names : account[n] # None => issued[account[n]] = n
               /\ issued[SeedSub] = SeedName
UsersInv == /\ \A i, j \in Staff!Known :
                  user[i].name = user[j].name \/ user[i].kc = user[j].kc => i = j
            /\ \A i \in Staff!Known : Owned(i, user[i])
(* The id of a new row is in one request only. *)
DrawnInv == \A p, q \in Handlers :
               p # q /\ h[p].op = "link" /\ h[p].as # Staff!NoUser /\ h[q] # Staff!Idle => h[q].row # h[p].row
LinksInv == /\ \A e \in Emps : emp[e] # None => emp[e] \in Staff!Known
            /\ \A e, f \in Emps : emp[e] = emp[f] /\ emp[e] # None => e = f
            /\ \A s \in Sales : sold[s] # Staff!NoSale => issued[sold[s].by] # None
            /\ \A s \in Sales : sold[s].state = "rung" => sold[s].cashier \in Staff!Known

StaffInv == /\ StaffTyped /\ AccountsInv /\ UsersInv /\ DrawnInv /\ LinksInv
            /\ \A p \in Handlers : Flight(h[p])

(* A sub whose username was never issued another. *)
Only(s) == issued[s] # None /\ \A t \in Subs : issued[t] = issued[s] => t = s

(* The row r is the one a token with the sub s resolves to. *)
Serves(s, r) == IF s \in Staff!Known THEN r = s ELSE r \in Staff!Known /\ user[r].kc = s

SoldWell(x) == x.state = "rung" /\ Only(x.by) => Serves(x.by, x.cashier)

(* A request that sells for a person does it on the row of that person, and one that links a
   row under a sub of its own links a person's. *)
FlightWell(r) ==
    /\ r.op = "sale" => /\ r.row \in Subs => issued[r.row] = issued[r.by]
                        /\ Only(r.by) /\ r.row \in Staff!Known => Serves(r.by, r.row)
    /\ r.op = "link" /\ r.as = Staff!NoUser /\ r.row \in Subs =>
          /\ issued[r.row] # None
          /\ Only(r.row) => r.row \in Staff!Known /\ user[r.row].name = issued[r.row]

LinkWell(i) == i \in Subs /\ Only(i) => user[i].name = issued[i]

SettledInv ==
    /\ StaffInv
    /\ \A s \in Sales : SoldWell(sold[s])
    /\ \A p \in Handlers : FlightWell(h[p])
    /\ \A e \in Emps : LinkWell(emp[e])

(* A sub that is the one of its username; not a seeded one that was made anew. *)
InUse(s) == issued[s] # None /\ account[issued[s]] = s /\ (issued[s] = SeedName => s = SeedSub)

(* Of a username that got another account since sub was read, no row knows the new one yet. *)
UnseenBut(n, sub) == account[n] # sub => account[n] \notin Staff!Known /\ Staff!Keyed(account[n]) = {}

SoldFirst(x) == x.state = "rung" /\ InUse(x.by) => Serves(x.by, x.cashier)
FlightFirst(r) ==
    /\ r.op = "sale" => Serves(r.by, r.row)
    /\ r.op = "heal" => UnseenBut(r.seen.name, r.kc)
    /\ r.op = "provision" => UnseenBut(r.name, r.row)
    /\ r.op = "link" /\ r.as = Staff!NoUser => r.row \in Staff!Known /\ user[r.row].name \in Names
LinkFirst(i) == i # None => user[i].name \in Names

(* One request at a time. *)
StaffSoloInv ==
    /\ StaffInv
    /\ \A s \in Sales : SoldFirst(sold[s])
    /\ \A p \in Handlers : FlightFirst(h[p])
    /\ \A e \in Emps : LinkFirst(emp[e])

LEMMA StaffAssumed ==
    ASSUME Staff!LoginsAssumption
    PROVE  /\ None \notin Names /\ None \notin Staff!Ids /\ SeedName \in Names /\ SeedSub \in Subs
           /\ SeedRow \in Staff!Ids /\ SeedRow \notin Subs \cup Fresh
           /\ Subs \subseteq Staff!Ids /\ Fresh \subseteq Staff!Ids
           /\ Subs \cap Fresh = {} /\ Names \cap Subs = {}
           /\ Staff!NoUser \notin LoginRows
           /\ Staff!NoSale.state = "unused" /\ Staff!Seeded \in LoginRows
           /\ \A row \in LoginRows : row.name # None /\ row.kc # None
BY DEF Staff!LoginsAssumption, Staff!Ids, Staff!NoUser, LoginRows, Staff!NoSale, Staff!Seeded

LEMMA StaffRequest ==
    ASSUME StaffTyped, NEW p \in Handlers
    PROVE  /\ h[p].op = "sale" => h[p].by \in Subs /\ h[p].row \in Staff!Ids
           /\ h[p].op = "first_sale" => h[p].by \in Subs /\ h[p].row \in Subs /\ h[p].as \in LoginRows
           /\ h[p].op = "heal" => h[p].row \in Staff!Ids /\ h[p].seen \in LoginRows /\ h[p].kc \in Subs
           /\ h[p].op = "link" => /\ h[p].emp \in Emps /\ h[p].row \in Staff!Ids
                                  /\ h[p].as \in LoginRows \cup {Staff!NoUser}
           /\ h[p].op = "provision" => h[p].emp \in Emps /\ h[p].name \in Names /\ h[p].row \in Subs
           /\ h[p] = Staff!Idle <=> h[p].op = "none"
           /\ h[p].op \in {"none", "sale", "first_sale", "heal", "link", "provision"}
<1> DEFINE r == h[p]
<1>1. r \in StaffRequests
  BY DEF StaffTyped
<1> HIDE DEF r
<1>2. CASE r = Staff!Idle
  BY <1>2 DEF Staff!Idle, r
<1>3. CASE r \in [op : {"sale"}, by : Subs, row : Staff!Ids]
  <2>1. r.op = "sale" /\ r.by \in Subs /\ r.row \in Staff!Ids
    BY <1>3
  <2> QED BY <2>1 DEF Staff!Idle, r
<1>4. CASE r \in [op : {"first_sale"}, by : Subs, row : Subs, as : LoginRows]
  <2>1. r.op = "first_sale" /\ r.by \in Subs /\ r.row \in Subs /\ r.as \in LoginRows
    BY <1>4
  <2>2. h[p] # Staff!Idle
    BY <2>1 DEF Staff!Idle, r
  <2> QED BY <2>1, <2>2 DEF r
<1>5. CASE r \in [op : {"heal"}, row : Staff!Ids, seen : LoginRows, kc : Subs]
  <2>1. r.op = "heal" /\ r.row \in Staff!Ids /\ r.seen \in LoginRows /\ r.kc \in Subs
    BY <1>5
  <2> QED BY <2>1 DEF Staff!Idle, r
<1>6. CASE r \in [op : {"link"}, emp : Emps, row : Staff!Ids, as : LoginRows \cup {Staff!NoUser}]
  <2>1. /\ r.op = "link" /\ r.emp \in Emps /\ r.row \in Staff!Ids
        /\ r.as \in LoginRows \cup {Staff!NoUser}
    BY <1>6
  <2> QED BY <2>1 DEF Staff!Idle, r
<1>7. CASE r \in [op : {"provision"}, emp : Emps, name : Names, row : Subs]
  <2>1. r.op = "provision" /\ r.emp \in Emps /\ r.name \in Names /\ r.row \in Subs
    BY <1>7
  <2> QED BY <2>1 DEF Staff!Idle, r
<1> QED BY <1>1, <1>2, <1>3, <1>4, <1>5, <1>6, <1>7 DEF StaffRequests

LEMMA KnownRows ==
    ASSUME Staff!LoginsAssumption, StaffTyped
    PROVE  \A i \in Staff!Ids : i \in Staff!Known <=> user[i] \in LoginRows
BY StaffAssumed DEF StaffTyped, Staff!Known

LEMMA KnownRowsNext ==
    ASSUME Staff!LoginsAssumption, StaffTyped'
    PROVE  \A i \in Staff!Ids : i \in Staff!Known' <=> user'[i] \in LoginRows
BY StaffAssumed DEF StaffTyped, Staff!Known

LEMMA IdleFlight == Flight(Staff!Idle)
BY DEF Flight, Staff!Idle

(* Subs are only issued. *)
Issued == \A s \in Subs : issued[s] # None => issued'[s] = issued[s]

LEMMA OwnedStays ==
    ASSUME Staff!LoginsAssumption, Issued, NEW i \in Staff!Ids, NEW row \in LoginRows, Owned(i, row)
    PROVE  Owned(i, row)'
BY StaffAssumed DEF Issued, Owned

(* A row that keeps a request in flight as it was. *)
Kept(i) == i \in Staff!Known /\ user'[i].name = user[i].name

LEMMA FlightStays ==
    ASSUME Staff!LoginsAssumption, StaffTyped, StaffTyped', Issued, NEW q \in Handlers, Flight(h[q]),
           h'[q] = h[q],
           \A i \in Staff!Known' \ Subs : Kept(i) \/ h[q] = Staff!Idle \/ h[q].row # i
    PROVE  Flight(h[q])'
<1> DEFINE r == h[q]
<1>1. r.op = "sale" => issued'[r.by] # None
  BY StaffRequest, StaffAssumed DEF Flight, Issued
<1>2. r.op = "first_sale" => /\ r.row = r.by /\ r.as.kc = r.by /\ issued'[r.by] # None
                             /\ r.as.name \in {issued'[r.by], r.by}
  BY StaffRequest, StaffAssumed DEF Flight, Issued
<1>3. ASSUME r.op = "heal"
      PROVE  /\ issued'[r.kc] = r.seen.name /\ r.seen.name \in Names
             /\ IF r.row \in Subs THEN issued'[r.row] = r.seen.name
                ELSE r.row \in Staff!Known' => user'[r.row].name = r.seen.name
  BY <1>3, StaffRequest, StaffAssumed DEF Flight, Issued, Kept
<1>4. ASSUME r.op = "link", r.as # Staff!NoUser
      PROVE  r.row \in Fresh /\ r.row \notin Staff!Known' /\ r.as.name \in Names /\ r.as.kc = r.row
  BY <1>4, StaffRequest, StaffAssumed DEF Flight, Kept
<1>5. r.op = "provision" => issued'[r.row] = r.name
  BY StaffRequest, StaffAssumed DEF Flight, Issued
<1> QED BY <1>1, <1>2, <1>3, <1>4, <1>5, h'[q] = h[q] DEF Flight

LEMMA UniqueMeans ==
    ASSUME NEW i, NEW row, Staff!Unique(i, row)
    PROVE  \A j \in Staff!Known : j # i => user[j].name # row.name /\ user[j].kc # row.kc
BY DEF Staff!Unique, Staff!Named, Staff!Keyed

(* What a request that only reads leaves. *)
LEMMA StaffLoads ==
    ASSUME Staff!LoginsAssumption, StaffInv, NEW p \in Handlers, NEW r \in StaffRequests,
           h' = [h EXCEPT ![p] = r], UNCHANGED <<user, emp, sold>>,
           account' \in [Names -> Subs \cup {None}], issued' \in [Subs -> Names \cup {None}],
           Issued, AccountsInv', Flight(r)',
           \A q \in Handlers : q # p /\ h[q].op = "link" /\ h[q].as # Staff!NoUser => r.row # h[q].row,
           r.op = "link" /\ r.as # Staff!NoUser =>
              \A q \in Handlers : q # p /\ h[q] # Staff!Idle => h[q].row # r.row
    PROVE  StaffInv'
<1>1. StaffTyped'
  BY DEF StaffInv, StaffTyped
<1>2. UsersInv'
  <2>1. Staff!Known' = Staff!Known
    BY DEF Staff!Known
  <2>2. ASSUME NEW i \in Staff!Known PROVE Owned(i, user[i])'
    <3>1. Owned(i, user[i]) /\ user[i] \in LoginRows /\ i \in Staff!Ids
      BY KnownRows DEF StaffInv, UsersInv, Staff!Known
    <3>2. PICK row : row = user[i]
      OBVIOUS
    <3>3. Owned(i, row)'
      BY <3>1, <3>2, OwnedStays
    <3> QED BY <3>2, <3>3
  <2> QED BY <2>1, <2>2 DEF StaffInv, UsersInv
<1>3. LinksInv'
  <2>1. Staff!Known' = Staff!Known
    BY DEF Staff!Known
  <2>2. ASSUME NEW s \in Sales, sold[s] # Staff!NoSale PROVE issued'[sold[s].by] # None
    <3>1. sold[s].by \in Subs /\ issued[sold[s].by] # None
      BY <2>2 DEF StaffInv, StaffTyped, SoldRows, LinksInv
    <3> QED BY <3>1 DEF Issued
  <2> QED BY <2>1, <2>2 DEF StaffInv, LinksInv
<1>4. DrawnInv'
  BY DEF StaffInv, DrawnInv, StaffTyped
<1>5. ASSUME NEW q \in Handlers PROVE Flight(h[q])'
  <2>1. CASE q = p
    BY <2>1 DEF StaffInv, StaffTyped
  <2>2. CASE q # p
    <3>1. \A i \in Staff!Known' : Kept(i)
      BY DEF Staff!Known, Kept
    <3>2. h'[q] = h[q] /\ Flight(h[q])
      BY <2>2 DEF StaffInv, StaffTyped
    <3> QED BY <1>1, <3>1, <3>2, FlightStays DEF StaffInv
  <2> QED BY <2>1, <2>2
<1> QED BY <1>1, <1>2, <1>3, <1>4, <1>5 DEF StaffInv

(* What a commit, or a request that ends, leaves. *)
LEMMA StaffCommits ==
    ASSUME Staff!LoginsAssumption, StaffInv, NEW p \in Handlers,
           h' = [h EXCEPT ![p] = Staff!Idle], UNCHANGED <<account, issued>>,
           user' \in [Staff!Ids -> LoginRows \cup {Staff!NoUser}],
           emp' \in [Emps -> Staff!Ids \cup {None}], sold' \in [Sales -> SoldRows],
           UsersInv', LinksInv',
           \A q \in Handlers, i \in Staff!Known' \ Subs :
              q # p => Kept(i) \/ h[q] = Staff!Idle \/ h[q].row # i
    PROVE  StaffInv'
<1>1. StaffTyped' /\ Issued
  BY DEF StaffInv, StaffTyped, StaffRequests, Issued
<1>2. AccountsInv' /\ DrawnInv'
  <2>1. Staff!Idle.op # "link"
    BY DEF Staff!Idle
  <2> QED BY <2>1 DEF StaffInv, AccountsInv, DrawnInv, StaffTyped
<1>3. ASSUME NEW q \in Handlers PROVE Flight(h[q])'
  <2>1. CASE q = p
    <3>1. h'[q] = Staff!Idle
      BY <2>1 DEF StaffInv, StaffTyped
    <3> QED BY <3>1 DEF Flight, Staff!Idle
  <2>2. CASE q # p
    <3>1. h'[q] = h[q] /\ Flight(h[q])
      BY <2>2 DEF StaffInv, StaffTyped
    <3> QED BY <1>1, <2>2, <3>1, FlightStays DEF StaffInv
  <2> QED BY <2>1, <2>2
<1> QED BY <1>1, <1>2, <1>3 DEF StaffInv

(* A row that is written, of its owner and unique, while others may go. *)
LEMMA UsersStay ==
    ASSUME Staff!LoginsAssumption, StaffInv, UNCHANGED issued,
           user' \in [Staff!Ids -> LoginRows \cup {Staff!NoUser}],
           NEW i \in Staff!Ids, NEW row \in LoginRows, Owned(i, row), user'[i] = row,
           \A j \in Staff!Ids : j # i => user'[j] = user[j] \/ user'[j] = Staff!NoUser,
           \A j \in Staff!Known : j # i => \/ user'[j] = Staff!NoUser
                                           \/ user[j].name # row.name /\ user[j].kc # row.kc
    PROVE  UsersInv' /\ Staff!Known' \subseteq Staff!Known \cup {i} /\ i \in Staff!Known'
<1>1. ASSUME NEW j \in Staff!Known', j # i
      PROVE  /\ j \in Staff!Known /\ user'[j] = user[j]
             /\ user[j].name # row.name /\ user[j].kc # row.kc
  BY <1>1 DEF Staff!Known
<1>2. i \in Staff!Known'
  BY StaffAssumed DEF Staff!Known
<1>3. ASSUME NEW j \in Staff!Known' PROVE Owned(j, user[j])'
  <2>1. CASE j = i
    BY <2>1 DEF Owned
  <2>2. CASE j # i
    BY <1>1, <2>2 DEF StaffInv, UsersInv, Owned
  <2> QED BY <2>1, <2>2
<1>4. ASSUME NEW j \in Staff!Known', NEW k \in Staff!Known',
             user'[j].name = user'[k].name \/ user'[j].kc = user'[k].kc
      PROVE  j = k
  <2>1. CASE j # i /\ k # i
    BY <1>1, <1>4, <2>1 DEF StaffInv, UsersInv
  <2>2. CASE j = i \/ k = i
    BY <1>1, <1>4, <2>2
  <2> QED BY <2>1, <2>2
<1> QED BY <1>1, <1>2, <1>3, <1>4 DEF UsersInv

LEMMA StaffBegins == ASSUME Staff!LoginsAssumption, Staff!Init PROVE StaffInv
<1>1. Staff!Known = {SeedRow} /\ user[SeedRow] = Staff!Seeded
  BY StaffAssumed DEF Staff!Init, Staff!Known, LoginRows
<1>2. Owned(SeedRow, Staff!Seeded)
  BY StaffAssumed DEF Owned, Staff!Seeded, Staff!Init
<1>3. StaffTyped
  BY StaffAssumed DEF StaffTyped, Staff!Init, StaffRequests, SoldRows
<1>4. AccountsInv /\ LinksInv
  BY StaffAssumed DEF AccountsInv, LinksInv, Staff!Init, Staff!NoSale
<1>5. Staff!Idle.op # "link"
  BY DEF Staff!Idle
<1> QED BY <1>1, <1>2, <1>3, <1>4, <1>5, IdleFlight DEF StaffInv, UsersInv, DrawnInv, Staff!Init

LEMMA AccountKeepsStaff ==
    ASSUME Staff!LoginsAssumption, StaffInv, NEW n \in Names, NEW s \in Subs, Staff!Account(n, s)
    PROVE  StaffInv' /\ Issued
<1>1. /\ StaffTyped' /\ Issued /\ Staff!Known' = Staff!Known /\ h' = h
      /\ \A t \in Subs : issued[t] # None => t # s
  BY DEF StaffInv, StaffTyped, Staff!Account, Issued, Staff!Known
<1>2. AccountsInv'
  BY StaffAssumed DEF StaffInv, AccountsInv, StaffTyped, Staff!Account
<1>3. ASSUME NEW i \in Staff!Known PROVE Owned(i, user[i])'
  <2>1. Owned(i, user[i]) /\ user[i] \in LoginRows /\ i \in Staff!Ids
    BY KnownRows DEF StaffInv, UsersInv, Staff!Known
  <2>2. PICK row : row = user[i]
    OBVIOUS
  <2>3. Owned(i, row)'
    BY <1>1, <2>1, <2>2, OwnedStays
  <2> QED BY <2>2, <2>3 DEF Staff!Account
<1>4. UsersInv'
  BY <1>1, <1>3 DEF StaffInv, UsersInv, Staff!Account
<1>5. LinksInv'
  <2>1. ASSUME NEW x \in Sales, sold[x] # Staff!NoSale PROVE issued'[sold[x].by] # None
    <3>1. sold[x].by \in Subs /\ issued[sold[x].by] # None
      BY <2>1 DEF StaffInv, StaffTyped, SoldRows, LinksInv
    <3> QED BY <1>1, <3>1 DEF Issued
  <2> QED BY <1>1, <2>1 DEF StaffInv, LinksInv, Staff!Account
<1>6. DrawnInv'
  BY <1>1 DEF StaffInv, DrawnInv
<1>7. ASSUME NEW q \in Handlers PROVE Flight(h[q])'
  <2>1. \A i \in Staff!Known' : Kept(i)
    BY <1>1 DEF Kept, Staff!Account
  <2> QED BY <1>1, <2>1, FlightStays DEF StaffInv
<1> QED BY <1>1, <1>2, <1>4, <1>5, <1>6, <1>7 DEF StaffInv

LEMMA RestartKeepsStaff ==
    ASSUME Staff!LoginsAssumption, StaffInv, Staff!Restart
    PROVE  StaffInv'
<1>1. StaffTyped' /\ AccountsInv'
  BY StaffAssumed DEF StaffInv, StaffTyped, AccountsInv, Staff!Restart, StaffRequests
<1>2. UsersInv' /\ Staff!Known \subseteq Staff!Known'
  <2>1. CASE user' = user
    BY <2>1 DEF StaffInv, UsersInv, Staff!Known, Owned, Staff!Restart
  <2>2. CASE user' # user
    <3>1. Staff!Unique(SeedRow, Staff!Seeded) /\ user' = [user EXCEPT ![SeedRow] = Staff!Seeded]
      BY <2>2 DEF Staff!Restart
    <3>2. Owned(SeedRow, Staff!Seeded)
      BY StaffAssumed DEF Owned, Staff!Seeded, StaffInv, AccountsInv
    <3>3. /\ user'[SeedRow] = Staff!Seeded /\ \A j \in Staff!Ids : j # SeedRow => user'[j] = user[j]
          /\ user' \in [Staff!Ids -> LoginRows \cup {Staff!NoUser}]
      BY <1>1, <3>1, StaffAssumed DEF StaffInv, StaffTyped
    <3>4. issued' = issued
      BY DEF Staff!Restart
    <3>5. UsersInv'
      BY <3>1, <3>2, <3>3, <3>4, StaffAssumed, UniqueMeans, UsersStay
    <3>6. Staff!Known \subseteq Staff!Known'
      BY <3>3, StaffAssumed DEF Staff!Known
    <3> QED BY <3>5, <3>6
  <2> QED BY <2>1, <2>2
<1>3. LinksInv'
  BY <1>2 DEF StaffInv, LinksInv, Staff!Restart
<1>4. Staff!Idle.op # "link"
  BY DEF Staff!Idle
<1>5. DrawnInv' /\ \A q \in Handlers : Flight(h[q])'
  <2>1. \A q \in Handlers : h'[q] = Staff!Idle
    BY DEF Staff!Restart
  <2>2. DrawnInv'
    BY <2>1, <1>4 DEF DrawnInv
  <2>3. ASSUME NEW q \in Handlers PROVE Flight(h[q])'
    BY <2>1 DEF Flight, Staff!Idle
  <2> QED BY <2>2, <2>3
<1> QED BY <1>1, <1>2, <1>3, <1>5 DEF StaffInv

LEMMA SaleLoadKeepsStaff ==
    ASSUME Staff!LoginsAssumption, StaffInv, NEW p \in Handlers, NEW n \in Names, Staff!SaleLoad(p, n)
    PROVE  StaffInv'
<1> DEFINE s == account[n]
<1>1. s \in Subs /\ issued[s] = n /\ UNCHANGED <<account, issued, user, emp, sold>> /\ h[p] = Staff!Idle
  BY StaffAssumed DEF Staff!SaleLoad, StaffInv, StaffTyped, AccountsInv, Staff!Begin
<1>2. CASE \E i \in Staff!Resolved(s) : h' = [h EXCEPT ![p] = [op |-> "sale", by |-> s, row |-> i]]
  <2>1. PICK i \in Staff!Resolved(s) : h' = [h EXCEPT ![p] = [op |-> "sale", by |-> s, row |-> i]]
    BY <1>2
  <2>2. i \in Staff!Known /\ i \in Staff!Ids
    BY <2>1 DEF Staff!Resolved, Staff!Keyed, Staff!Known
  <2>3. PICK r : r = [op |-> "sale", by |-> s, row |-> i]
    OBVIOUS
  <2>4. r \in StaffRequests /\ r.op = "sale" /\ r.by = s /\ r.row = i
    BY <1>1, <2>2, <2>3 DEF StaffRequests
  <2>5. Flight(r)'
    BY <1>1, <2>4, StaffAssumed DEF Flight
  <2>6. \A q \in Handlers : h[q].op = "link" /\ h[q].as # Staff!NoUser => r.row # h[q].row
    BY <2>2, <2>4 DEF StaffInv, Flight
  <2> QED BY <1>1, <2>1, <2>3, <2>4, <2>5, <2>6, StaffLoads DEF StaffInv, StaffTyped, AccountsInv, Issued
<1>3. CASE \E name \in {n, s} :
             h' = [h EXCEPT ![p] = [op |-> "first_sale", by |-> s, row |-> s, as |-> [name |-> name, kc |-> s]]]
  <2>1. PICK name \in {n, s} :
           h' = [h EXCEPT ![p] = [op |-> "first_sale", by |-> s, row |-> s, as |-> [name |-> name, kc |-> s]]]
    BY <1>3
  <2>2. PICK as : as = [name |-> name, kc |-> s]
    OBVIOUS
  <2>3. as \in LoginRows /\ as.name = name /\ as.kc = s
    BY <1>1, <2>2 DEF LoginRows
  <2>4. PICK r : r = [op |-> "first_sale", by |-> s, row |-> s, as |-> as]
    OBVIOUS
  <2>5. r \in StaffRequests /\ r.op = "first_sale" /\ r.by = s /\ r.row = s /\ r.as = as
    BY <1>1, <2>3, <2>4 DEF StaffRequests
  <2>6. Flight(r)'
    BY <1>1, <2>3, <2>5, StaffAssumed DEF Flight
  <2>7. \A q \in Handlers : h[q].op = "link" /\ h[q].as # Staff!NoUser => r.row # h[q].row
    BY <1>1, <2>5, StaffAssumed DEF StaffInv, Flight
  <2> QED BY <1>1, <2>1, <2>2, <2>4, <2>5, <2>6, <2>7, StaffLoads DEF StaffInv, StaffTyped, AccountsInv, Issued
<1> QED BY <1>2, <1>3 DEF Staff!SaleLoad, Staff!Begin

LEMMA HealLoadKeepsStaff ==
    ASSUME Staff!LoginsAssumption, StaffInv, NEW p \in Handlers, NEW n \in Names, Staff!HealLoad(p, n)
    PROVE  StaffInv'
<1> DEFINE s == account[n]
<1>1. s \in Subs /\ issued[s] = n /\ UNCHANGED <<account, issued, user, emp, sold>>
  BY StaffAssumed DEF Staff!HealLoad, StaffInv, StaffTyped, AccountsInv
<1>2. PICK i \in Staff!Named(n) : h' = [h EXCEPT ![p] = [op |-> "heal", row |-> i, seen |-> user[i], kc |-> s]]
  BY DEF Staff!HealLoad, Staff!Begin
<1>3. i \in Staff!Known /\ i \in Staff!Ids /\ user[i] \in LoginRows /\ user[i].name = n
  BY KnownRows DEF Staff!Named, Staff!Known, StaffInv
<1>4. PICK r : r = [op |-> "heal", row |-> i, seen |-> user[i], kc |-> s]
  OBVIOUS
<1>5. r \in StaffRequests /\ r.op = "heal" /\ r.row = i /\ r.seen = user[i] /\ r.kc = s
  BY <1>1, <1>3, <1>4 DEF StaffRequests
<1>6. i \in Subs => issued[i] = n
  BY <1>3, StaffAssumed DEF StaffInv, UsersInv, Owned
<1>7. Flight(r)'
  BY <1>1, <1>3, <1>5, <1>6, StaffAssumed DEF Flight
<1>8. \A q \in Handlers : h[q].op = "link" /\ h[q].as # Staff!NoUser => r.row # h[q].row
  BY <1>3, <1>5 DEF StaffInv, Flight
<1> QED BY <1>1, <1>2, <1>4, <1>5, <1>7, <1>8, StaffLoads DEF StaffInv, StaffTyped, AccountsInv, Issued

LEMMA LinkLoadKeepsStaff ==
    ASSUME Staff!LoginsAssumption, StaffInv, NEW p \in Handlers, NEW e \in Emps, NEW n \in Names,
           Staff!LinkLoad(p, e, n)
    PROVE  StaffInv'
<1>1. UNCHANGED <<account, issued, user, emp, sold>> /\ h[p] = Staff!Idle
  BY DEF Staff!LinkLoad, Staff!Begin
<1>2. CASE \E i \in Staff!Named(n) :
              h' = [h EXCEPT ![p] = [op |-> "link", emp |-> e, row |-> i, as |-> Staff!NoUser]]
  <2>1. PICK i \in Staff!Named(n) :
           h' = [h EXCEPT ![p] = [op |-> "link", emp |-> e, row |-> i, as |-> Staff!NoUser]]
    BY <1>2
  <2>2. i \in Staff!Known /\ i \in Staff!Ids
    BY DEF Staff!Named, Staff!Known
  <2>3. PICK r : r = [op |-> "link", emp |-> e, row |-> i, as |-> Staff!NoUser]
    OBVIOUS
  <2>4. r \in StaffRequests /\ r.op = "link" /\ r.row = i /\ r.as = Staff!NoUser
    BY <2>2, <2>3 DEF StaffRequests
  <2>5. Flight(r)'
    BY <2>4 DEF Flight, Staff!NoUser
  <2>6. \A q \in Handlers : h[q].op = "link" /\ h[q].as # Staff!NoUser => r.row # h[q].row
    BY <2>2, <2>4 DEF StaffInv, Flight
  <2> QED BY <1>1, <2>1, <2>3, <2>4, <2>5, <2>6, StaffLoads DEF StaffInv, StaffTyped, AccountsInv, Issued
<1>3. CASE \E i \in Fresh :
              /\ Staff!Unheard(i)
              /\ h' = [h EXCEPT ![p] = [op |-> "link", emp |-> e, row |-> i, as |-> [name |-> n, kc |-> i]]]
  <2>1. PICK i \in Fresh :
           /\ Staff!Unheard(i)
           /\ h' = [h EXCEPT ![p] = [op |-> "link", emp |-> e, row |-> i, as |-> [name |-> n, kc |-> i]]]
    BY <1>3
  <2>2. PICK as : as = [name |-> n, kc |-> i]
    OBVIOUS
  <2>3. as \in LoginRows /\ as.name = n /\ as.kc = i /\ as # Staff!NoUser
    BY <2>2, StaffAssumed DEF LoginRows
  <2>4. PICK r : r = [op |-> "link", emp |-> e, row |-> i, as |-> as]
    OBVIOUS
  <2>5. r \in StaffRequests /\ r.op = "link" /\ r.row = i /\ r.as = as
    BY <2>3, <2>4, StaffAssumed DEF StaffRequests
  <2>6. i \notin Staff!Known' /\ \A q \in Handlers : h[q] # Staff!Idle => h[q].row # i
    BY <1>1, <2>1 DEF Staff!Unheard, Staff!Known
  <2>7. Flight(r)'
    BY <2>1, <2>3, <2>5, <2>6 DEF Flight
  <2>8. \A q \in Handlers : h[q].op = "link" => r.row # h[q].row
    BY <2>5, <2>6 DEF Staff!Idle
  <2> QED BY <1>1, <2>1, <2>2, <2>4, <2>5, <2>6, <2>7, <2>8, StaffLoads
          DEF StaffInv, StaffTyped, AccountsInv, Issued
<1> QED BY <1>2, <1>3 DEF Staff!LinkLoad, Staff!Begin

LEMMA ProvisionLoadKeepsStaff ==
    ASSUME Staff!LoginsAssumption, StaffInv, NEW p \in Handlers, NEW e \in Emps, NEW n \in Names,
           NEW s \in Subs, Staff!ProvisionLoad(p, e, n, s)
    PROVE  /\ StaffInv' /\ Issued /\ issued'[s] = n
           /\ \A t \in Subs : issued'[t] # issued[t] => t = s /\ issued[s] = None
<1>1. /\ h' = [h EXCEPT ![p] = [op |-> "provision", emp |-> e, name |-> n, row |-> s]]
      /\ account' = [account EXCEPT ![n] = s] /\ issued' = [issued EXCEPT ![s] = n]
      /\ UNCHANGED <<user, emp, sold>>
      /\ issued[s] = None \/ (account[n] = s /\ issued[s] = n)
  BY StaffAssumed DEF Staff!ProvisionLoad, Staff!Begin, StaffInv, AccountsInv
<1>2. PICK r : r = [op |-> "provision", emp |-> e, name |-> n, row |-> s]
  OBVIOUS
<1>3. r \in StaffRequests /\ r.op = "provision" /\ r.name = n /\ r.row = s
  BY <1>2 DEF StaffRequests
<1>4. /\ account' \in [Names -> Subs \cup {None}] /\ issued' \in [Subs -> Names \cup {None}]
      /\ issued'[s] = n /\ \A t \in Subs : t # s => issued'[t] = issued[t]
  BY <1>1 DEF StaffInv, StaffTyped
<1>5. Issued /\ \A t \in Subs : issued'[t] # issued[t] => t = s /\ issued[s] = None
  BY <1>1, <1>4, StaffAssumed DEF Issued
<1>6. AccountsInv'
  <2>1. ASSUME NEW m \in Names, account'[m] # None PROVE issued'[account'[m]] = m
    <3>1. CASE m = n
      BY <1>1, <1>4, <3>1 DEF StaffInv, StaffTyped
    <3>2. CASE m # n
      <4>1. account'[m] = account[m] /\ account[m] \in Subs /\ issued[account[m]] = m
        BY <1>1, <2>1, <3>2 DEF StaffInv, StaffTyped, AccountsInv
      <4> QED BY <1>1, <1>4, <3>2, <4>1, StaffAssumed
    <3> QED BY <3>1, <3>2
  <2>2. issued'[SeedSub] = SeedName
    BY <1>5, StaffAssumed DEF Issued, StaffInv, AccountsInv
  <2> QED BY <2>1, <2>2 DEF AccountsInv
<1>7. Flight(r)'
  BY <1>3, <1>4 DEF Flight
<1>8. \A q \in Handlers : h[q].op = "link" /\ h[q].as # Staff!NoUser => r.row # h[q].row
  BY <1>3, StaffAssumed DEF StaffInv, Flight
<1>9. StaffInv'
  BY <1>1, <1>2, <1>3, <1>4, <1>5, <1>6, <1>7, <1>8, StaffLoads
<1> QED BY <1>4, <1>5, <1>9

LEMMA AbortKeepsStaff ==
    ASSUME Staff!LoginsAssumption, StaffInv, NEW p \in Handlers, Staff!Abort(p)
    PROVE  StaffInv'
<1>1. UsersInv' /\ LinksInv'
  BY DEF StaffInv, UsersInv, LinksInv, Owned, Staff!Known, Staff!Abort
<1>2. \A i \in Staff!Known' : Kept(i)
  BY DEF Staff!Known, Kept, Staff!Abort
<1> QED BY <1>1, <1>2, StaffCommits DEF Staff!Abort, StaffInv, StaffTyped

LEMMA UnlinkKeepsStaff ==
    ASSUME Staff!LoginsAssumption, StaffInv, NEW e \in Emps, Staff!Unlink(e)
    PROVE  StaffInv'
<1>1. StaffTyped' /\ AccountsInv' /\ DrawnInv' /\ UsersInv'
  BY DEF StaffInv, StaffTyped, AccountsInv, DrawnInv, UsersInv, Owned, Staff!Known, Staff!Unlink
<1>2. LinksInv'
  BY DEF StaffInv, StaffTyped, LinksInv, Staff!Known, Staff!Unlink
<1>3. \A p \in Handlers : Flight(h[p])'
  BY DEF StaffInv, Flight, Staff!Known, Staff!Unlink
<1> QED BY <1>1, <1>2, <1>3 DEF StaffInv

LEMMA RungIsTyped ==
    ASSUME StaffInv, NEW s, NEW by \in Subs, NEW row \in Staff!Ids, Staff!Rung(s, by, row)
    PROVE  /\ sold' \in [Sales -> SoldRows]
           /\ \A x \in Sales : \/ sold'[x] = sold[x]
                               \/ sold'[x].state = "rung" /\ sold'[x].by = by /\ sold'[x].cashier = row
BY DEF Staff!Rung, StaffInv, StaffTyped, SoldRows

LEMMA SaleKeepsStaff ==
    ASSUME Staff!LoginsAssumption, StaffInv, NEW p \in Handlers, NEW s \in Sales, Staff!SaleCommit(p, s)
    PROVE  StaffInv'
<1>1. /\ h[p].op = "sale" /\ h[p].by \in Subs /\ h[p].row \in Staff!Known /\ h[p].row \in Staff!Ids
      /\ issued[h[p].by] # None
      /\ Staff!Rung(s, h[p].by, h[p].row) /\ UNCHANGED <<account, issued, user, emp>>
      /\ h' = [h EXCEPT ![p] = Staff!Idle]
  BY StaffRequest DEF Staff!SaleCommit, Staff!Finish, StaffInv, Flight
<1>2. Staff!Known' = Staff!Known /\ UsersInv' /\ \A i \in Staff!Known' : Kept(i)
  BY <1>1 DEF StaffInv, UsersInv, Owned, Staff!Known, Kept
<1>3. LinksInv'
  <2>1. \A x \in Sales : \/ sold'[x] = sold[x]
                         \/ sold'[x].state = "rung" /\ sold'[x].by = h[p].by /\ sold'[x].cashier = h[p].row
    <3>1. PICK by, row : by = h[p].by /\ row = h[p].row
      OBVIOUS
    <3>2. by \in Subs /\ row \in Staff!Ids /\ Staff!Rung(s, by, row)
      BY <1>1, <3>1
    <3> QED BY <3>1, <3>2, RungIsTyped
  <2>2. UNCHANGED <<issued, emp>>
    BY <1>1
  <2> QED BY <1>1, <1>2, <2>1, <2>2 DEF StaffInv, LinksInv
<1> QED BY <1>1, <1>2, <1>3, RungIsTyped, StaffCommits DEF StaffInv, StaffTyped

LEMMA FirstSaleKeepsStaff ==
    ASSUME Staff!LoginsAssumption, StaffInv, NEW p \in Handlers, NEW s \in Sales,
           Staff!FirstSaleCommit(p, s)
    PROVE  StaffInv'
<1> DEFINE i == h[p].row
           row == h[p].as
<1>1. /\ h[p].op = "first_sale" /\ h[p].by = i /\ i \in Subs /\ i \in Staff!Ids /\ row \in LoginRows
      /\ i \notin Staff!Known /\ Staff!Unique(i, row)
      /\ row.kc = i /\ issued[i] # None /\ row.name \in {issued[i], i}
      /\ Staff!Rung(s, i, i) /\ UNCHANGED <<account, issued, emp>>
      /\ user' = [user EXCEPT ![i] = row] /\ h' = [h EXCEPT ![p] = Staff!Idle]
  BY StaffRequest, StaffAssumed DEF Staff!FirstSaleCommit, Staff!Finish, StaffInv, Flight
<1>2. Owned(i, row)
  BY <1>1, StaffAssumed DEF Owned, StaffInv, StaffTyped
<1>3. /\ user'[i] = row /\ \A j \in Staff!Ids : j # i => user'[j] = user[j]
      /\ user' \in [Staff!Ids -> LoginRows \cup {Staff!NoUser}]
  BY <1>1 DEF StaffInv, StaffTyped
<1>4. UsersInv' /\ Staff!Known' \subseteq Staff!Known \cup {i} /\ i \in Staff!Known'
  BY <1>1, <1>2, <1>3, UniqueMeans, UsersStay
<1>5. Staff!Known \subseteq Staff!Known'
  BY <1>1, <1>3 DEF Staff!Known
<1>6. LinksInv'
  <2>1. \A x \in Sales : \/ sold'[x] = sold[x]
                         \/ sold'[x].state = "rung" /\ sold'[x].by = i /\ sold'[x].cashier = i
    BY <1>1 DEF Staff!Rung, StaffInv, StaffTyped
  <2>2. UNCHANGED <<issued, emp>> /\ issued[i] # None
    BY <1>1
  <2> QED BY <1>4, <1>5, <2>1, <2>2 DEF StaffInv, LinksInv
<1>7. \A j \in Staff!Known' \ Subs : Kept(j)
  BY <1>1, <1>3, <1>4 DEF Kept, Staff!Known
<1> QED BY <1>1, <1>3, <1>4, <1>6, <1>7, RungIsTyped, StaffCommits DEF StaffInv, StaffTyped

(* A heal writes the keycloak_id of a row, at most. *)
LEMMA Healed ==
    ASSUME Staff!LoginsAssumption, StaffInv, NEW p \in Handlers, Staff!HealCommit(p)
    PROVE  LET i == h[p].row
           IN  /\ h[p].op = "heal" /\ i \in Staff!Known /\ i \in Staff!Ids
               /\ h[p].kc \in Subs /\ h[p].seen \in LoginRows
               /\ h' = [h EXCEPT ![p] = Staff!Idle] /\ UNCHANGED <<account, issued, emp, sold>>
               /\ \A j \in Staff!Known : j # i => user[j].kc # h[p].kc
               /\ user' \in [Staff!Ids -> LoginRows \cup {Staff!NoUser}]
               /\ \A j \in Staff!Ids : j # i => user'[j] = user[j]
               /\ user'[i] \in LoginRows /\ user'[i].name = user[i].name
               /\ user'[i].kc = user[i].kc \/ user'[i].kc = h[p].kc
               /\ Staff!Known' = Staff!Known
<1> DEFINE i == h[p].row
<1>1. PICK new : new = [h[p].seen EXCEPT !.kc = h[p].kc]
  OBVIOUS
<1>2. /\ h[p].op = "heal" /\ i \in Staff!Known /\ i \in Staff!Ids
      /\ h[p].kc \in Subs /\ h[p].seen \in LoginRows
      /\ h' = [h EXCEPT ![p] = Staff!Idle] /\ UNCHANGED <<account, issued, emp, sold>>
      /\ Staff!Unique(i, new) /\ user' = [user EXCEPT ![i] = Staff!Flushed(user[i], h[p].seen, new)]
  BY <1>1, StaffRequest DEF Staff!HealCommit, Staff!Finish, StaffInv
<1>3. new = [name |-> h[p].seen.name, kc |-> h[p].kc]
  BY <1>1, <1>2 DEF LoginRows
<1>4. user[i] \in LoginRows
  BY <1>2, KnownRows DEF StaffInv
<1>5. PICK kc : kc = IF h[p].kc = h[p].seen.kc THEN user[i].kc ELSE h[p].kc
  OBVIOUS
<1>6. Staff!Flushed(user[i], h[p].seen, new) = [name |-> user[i].name, kc |-> kc]
  BY <1>3, <1>4, <1>5 DEF Staff!Flushed, LoginRows
<1>7. kc \in Subs \cup Fresh /\ kc \in {user[i].kc, h[p].kc}
  BY <1>2, <1>4, <1>5 DEF LoginRows
<1>8. PICK row : row = [name |-> user[i].name, kc |-> kc]
  OBVIOUS
<1>9. row \in LoginRows /\ row.name = user[i].name /\ row.kc = kc
  BY <1>4, <1>7, <1>8 DEF LoginRows
<1>10. user' = [user EXCEPT ![i] = row]
  BY <1>2, <1>6, <1>8
<1>11. user'[i] = row /\ \A j \in Staff!Ids : j # i => user'[j] = user[j]
  BY <1>2, <1>10 DEF StaffInv, StaffTyped
<1>12. user' \in [Staff!Ids -> LoginRows \cup {Staff!NoUser}]
  BY <1>9, <1>10 DEF StaffInv, StaffTyped
<1>13. Staff!Known' = Staff!Known
  BY <1>2, <1>9, <1>11, StaffAssumed DEF Staff!Known
<1>14. \A j \in Staff!Known : j # i => user[j].kc # h[p].kc
  BY <1>2, <1>3, UniqueMeans
<1> QED BY <1>2, <1>7, <1>9, <1>11, <1>12, <1>13, <1>14

LEMMA HealKeepsStaff ==
    ASSUME Staff!LoginsAssumption, StaffInv, NEW p \in Handlers, Staff!HealCommit(p)
    PROVE  StaffInv'
<1> DEFINE i == h[p].row
<1>1. PICK row : row = user'[i]
  OBVIOUS
<1>2. Owned(i, row)
  <2>1. Owned(i, user[i]) /\ user[i] \in LoginRows
    BY Healed, KnownRows DEF StaffInv, UsersInv
  <2>2. /\ issued[h[p].kc] = h[p].seen.name /\ h[p].seen.name \in Names
        /\ IF i \in Subs THEN issued[i] = h[p].seen.name ELSE user[i].name = h[p].seen.name
    BY Healed DEF StaffInv, Flight
  <2> QED BY <1>1, <2>1, <2>2, Healed, StaffAssumed DEF Owned
<1>3. \A j \in Staff!Known : j # i => user[j].name # row.name /\ user[j].kc # row.kc
  BY <1>1, Healed DEF StaffInv, UsersInv
<1>4. UsersInv'
  BY <1>1, <1>2, <1>3, Healed, UsersStay
<1>5. LinksInv'
  BY Healed DEF StaffInv, LinksInv
<1>6. \A j \in Staff!Known' : Kept(j)
  BY Healed DEF Kept, Staff!Known
<1> QED BY <1>4, <1>5, <1>6, Healed, StaffCommits DEF StaffInv, StaffTyped

LEMMA LinkKeepsStaff ==
    ASSUME Staff!LoginsAssumption, StaffInv, NEW p \in Handlers, Staff!LinkCommit(p)
    PROVE  StaffInv'
<1> DEFINE i == h[p].row
           as == h[p].as
<1>1. /\ h[p].op = "link" /\ h[p].emp \in Emps /\ i \in Staff!Ids /\ as \in LoginRows \cup {Staff!NoUser}
      /\ Staff!LinkedTo(i) \subseteq {h[p].emp} /\ emp' = [emp EXCEPT ![h[p].emp] = i]
      /\ h' = [h EXCEPT ![p] = Staff!Idle] /\ UNCHANGED <<account, issued, sold>>
  BY StaffRequest DEF Staff!LinkCommit, Staff!Finish, StaffInv
<1>2. ASSUME i \in Staff!Known', Staff!Known \subseteq Staff!Known'
      PROVE  LinksInv'
  <2>1. /\ emp'[h[p].emp] = i /\ \A e \in Emps : e # h[p].emp => emp'[e] = emp[e]
        /\ \A e \in Emps : emp[e] = i => e = h[p].emp
    BY <1>1 DEF Staff!LinkedTo, StaffInv, StaffTyped
  <2> QED BY <1>1, <1>2, <2>1 DEF StaffInv, LinksInv
<1>3. emp' \in [Emps -> Staff!Ids \cup {None}]
  BY <1>1 DEF StaffInv, StaffTyped
<1>4. CASE as = Staff!NoUser
  <2>1. user' = user /\ i \in Staff!Known
    BY <1>4 DEF Staff!LinkCommit
  <2>2. Staff!Known' = Staff!Known /\ UsersInv' /\ \A j \in Staff!Known' : Kept(j)
    BY <1>1, <2>1 DEF StaffInv, UsersInv, Owned, Staff!Known, Kept
  <2>3. LinksInv'
    BY <1>2, <2>1, <2>2
  <2> QED BY <1>1, <1>3, <2>1, <2>2, <2>3, StaffCommits DEF StaffInv, StaffTyped
<1>5. CASE as # Staff!NoUser
  <2>1. /\ user' = [user EXCEPT ![i] = as] /\ i \notin Staff!Known /\ Staff!Unique(i, as)
        /\ as \in LoginRows
    BY <1>1, <1>5 DEF Staff!LinkCommit
  <2>2. i \in Fresh /\ as.name \in Names /\ as.kc = i
    BY <1>1, <1>5 DEF StaffInv, Flight
  <2>3. Owned(i, as)
    BY <2>2, StaffAssumed DEF Owned
  <2>4. /\ user'[i] = as /\ \A j \in Staff!Ids : j # i => user'[j] = user[j]
        /\ user' \in [Staff!Ids -> LoginRows \cup {Staff!NoUser}]
    BY <1>1, <2>1 DEF StaffInv, StaffTyped
  <2>5. UsersInv' /\ Staff!Known' \subseteq Staff!Known \cup {i} /\ i \in Staff!Known'
    BY <1>1, <2>1, <2>3, <2>4, UniqueMeans, UsersStay
  <2>6. Staff!Known \subseteq Staff!Known'
    BY <2>1, <2>4 DEF Staff!Known
  <2>7. LinksInv'
    BY <1>2, <2>5, <2>6
  <2>8. ASSUME NEW q \in Handlers, NEW j \in Staff!Known', q # p
        PROVE  Kept(j) \/ h[q] = Staff!Idle \/ h[q].row # j
    <3>1. j # i => Kept(j)
      BY <2>4 DEF Kept, Staff!Known
    <3>2. h[q] # Staff!Idle => h[q].row # i
      BY <1>1, <1>5, <2>8 DEF StaffInv, DrawnInv
    <3> QED BY <3>1, <3>2
  <2>9. sold' \in [Sales -> SoldRows]
    BY <1>1 DEF StaffInv, StaffTyped
  <2>10. \A q \in Handlers, j \in Staff!Known' \ Subs :
            q # p => Kept(j) \/ h[q] = Staff!Idle \/ h[q].row # j
    BY <2>8
  <2>11. h' = [h EXCEPT ![p] = Staff!Idle] /\ UNCHANGED <<account, issued>>
    BY <1>1
  <2> QED BY <1>3, <2>4, <2>5, <2>7, <2>9, <2>10, <2>11, StaffCommits
<1> QED BY <1>4, <1>5

(* What provision_login makes of users, links and sales. *)
Provision(p, i, n, stale) ==
    /\ i = h[p].row /\ n = h[p].name /\ stale = Staff!Named(n) \ {i}
    /\ h[p].op = "provision" /\ i \in Subs /\ i \in Staff!Ids /\ n \in Names /\ h[p].emp \in Emps
    /\ issued[i] = n
    /\ h' = [h EXCEPT ![p] = Staff!Idle] /\ UNCHANGED <<account, issued>>
    /\ \A j \in Staff!Known : user[j].kc = i => j = i \/ j \in stale
    /\ \A e \in Emps : emp[e] = i => e = h[p].emp
    /\ user' \in [Staff!Ids -> LoginRows \cup {Staff!NoUser}]
    /\ user'[i] = [name |-> n, kc |-> i] /\ user'[i] \in LoginRows
    /\ \A j \in Staff!Ids : j # i => user'[j] = IF j \in stale THEN Staff!NoUser ELSE user[j]
    /\ Staff!Known' = (Staff!Known \ stale) \cup {i}
    /\ emp' \in [Emps -> Staff!Ids \cup {None}]
    /\ \A e \in Emps : emp'[e] = IF e = h[p].emp THEN i ELSE IF emp[e] \in stale THEN None ELSE emp[e]
    /\ sold' \in [Sales -> SoldRows]
    /\ \A s \in Sales : sold'[s].state = "rung" => sold'[s] = sold[s] /\ sold[s].cashier \notin stale
    /\ \A s \in Sales : sold'[s] # Staff!NoSale => sold[s] # Staff!NoSale /\ sold'[s].by = sold[s].by

LEMMA Provisioned ==
    ASSUME Staff!LoginsAssumption, StaffInv, NEW p \in Handlers, Staff!ProvisionCommit(p)
    PROVE  \E i, n, stale : Provision(p, i, n, stale)
<1>0. PICK i, n, stale : i = h[p].row /\ n = h[p].name /\ stale = Staff!Named(n) \ {i}
  OBVIOUS
<1>1. /\ h[p].op = "provision" /\ i \in Subs /\ i \in Staff!Ids /\ n \in Names /\ h[p].emp \in Emps
      /\ issued[i] = n
      /\ h' = [h EXCEPT ![p] = Staff!Idle] /\ UNCHANGED <<account, issued>>
      /\ Staff!Keyed(i) \subseteq stale \cup {i} /\ Staff!LinkedTo(i) \subseteq {h[p].emp}
  BY <1>0, StaffRequest, StaffAssumed DEF Staff!ProvisionCommit, Staff!Finish, StaffInv, Flight
<1>2. PICK row : row = [name |-> n, kc |-> i]
  OBVIOUS
<1>3. row \in LoginRows
  BY <1>1, <1>2 DEF LoginRows
<1>4. user' = [j \in Staff!Ids |-> IF j = i THEN row ELSE IF j \in stale THEN Staff!NoUser ELSE user[j]]
  BY <1>0, <1>2 DEF Staff!ProvisionCommit
<1>5. /\ user'[i] = row /\ user' \in [Staff!Ids -> LoginRows \cup {Staff!NoUser}]
      /\ \A j \in Staff!Ids : j # i => user'[j] = IF j \in stale THEN Staff!NoUser ELSE user[j]
  BY <1>1, <1>3, <1>4 DEF StaffInv, StaffTyped
<1>6. Staff!Known' = (Staff!Known \ stale) \cup {i}
  BY <1>1, <1>3, <1>5, StaffAssumed DEF Staff!Known
<1>7. /\ emp' \in [Emps -> Staff!Ids \cup {None}]
      /\ \A e \in Emps : emp'[e] = IF e = h[p].emp THEN i ELSE IF emp[e] \in stale THEN None ELSE emp[e]
  BY <1>0, <1>1 DEF Staff!ProvisionCommit, StaffInv, StaffTyped
<1>8. sold' = [s \in Sales |-> IF sold[s].state = "rung" /\ sold[s].cashier \in stale
                               THEN [sold[s] EXCEPT !.state = "deleted"] ELSE sold[s]]
  BY <1>0 DEF Staff!ProvisionCommit
<1>9. ASSUME NEW s \in Sales
      PROVE  /\ sold'[s] \in SoldRows
             /\ sold'[s].state = "rung" => sold'[s] = sold[s] /\ sold[s].cashier \notin stale
             /\ sold'[s] # Staff!NoSale => sold[s] # Staff!NoSale /\ sold'[s].by = sold[s].by
  <2>1. CASE sold[s].state = "rung" /\ sold[s].cashier \in stale
    <3>1. sold[s] \in [state : {"rung", "deleted"}, by : Subs, cashier : Staff!Ids]
      BY <2>1, StaffAssumed DEF StaffInv, StaffTyped, SoldRows
    <3>2. PICK by, cashier : by = sold[s].by /\ cashier = sold[s].cashier
      OBVIOUS
    <3>3. sold'[s] = [state |-> "deleted", by |-> by, cashier |-> cashier]
      BY <1>8, <2>1, <3>1, <3>2
    <3>4. sold'[s] \in [state : {"rung", "deleted"}, by : Subs, cashier : Staff!Ids]
      BY <3>1, <3>2, <3>3
    <3>5. sold'[s].state = "deleted" /\ sold'[s].by = sold[s].by
      BY <3>2, <3>3
    <3>6. sold[s] # Staff!NoSale
      BY <2>1, StaffAssumed
    <3> QED BY <3>4, <3>5, <3>6 DEF SoldRows
  <2>2. CASE ~(sold[s].state = "rung" /\ sold[s].cashier \in stale)
    BY <1>8, <2>2 DEF StaffInv, StaffTyped
  <2> QED BY <2>1, <2>2
<1>10. sold' \in [Sales -> SoldRows]
  BY <1>8, <1>9
<1>11. /\ \A j \in Staff!Known : user[j].kc = i => j = i \/ j \in stale
       /\ \A e \in Emps : emp[e] = i => e = h[p].emp
  BY <1>1 DEF Staff!Keyed, Staff!LinkedTo
<1>12. Provision(p, i, n, stale)
  BY <1>0, <1>1, <1>2, <1>3, <1>5, <1>6, <1>7, <1>9, <1>10, <1>11 DEF Provision
<1> QED BY <1>12

LEMMA ProvisionKeepsStaff ==
    ASSUME Staff!LoginsAssumption, StaffInv, NEW p \in Handlers, Staff!ProvisionCommit(p)
    PROVE  StaffInv'
<1>0. PICK i, n, stale : Provision(p, i, n, stale)
  BY Provisioned
<1>1. PICK row : row = [name |-> n, kc |-> i]
  OBVIOUS
<1>2. row \in LoginRows /\ row.name = n /\ row.kc = i /\ user'[i] = row
  BY <1>1, <1>0 DEF Provision
<1>3. Owned(i, row)
  BY <1>2, <1>0, StaffAssumed DEF Provision, Owned
<1>4. ASSUME NEW j \in Staff!Known, j # i
      PROVE  user'[j] = Staff!NoUser \/ (user[j].name # row.name /\ user[j].kc # row.kc)
  <2>1. j \in stale \/ (user[j].name # n /\ user[j].kc # i)
    BY <1>4, <1>0 DEF Provision, Staff!Named
  <2> QED BY <1>2, <1>4, <2>1, <1>0 DEF Provision, Staff!Known
<1>5. \A j \in Staff!Ids : j # i => user'[j] = user[j] \/ user'[j] = Staff!NoUser
  BY <1>0 DEF Provision
<1>6. UsersInv'
  BY <1>2, <1>3, <1>4, <1>5, <1>0, UsersStay DEF Provision
<1>7. LinksInv'
  <2>1. \A e \in Emps : emp'[e] # None => emp'[e] \in Staff!Known'
    BY <1>0 DEF Provision, StaffInv, LinksInv
  <2>2. \A e, f \in Emps : emp'[e] = emp'[f] /\ emp'[e] # None => e = f
    BY <1>0 DEF Provision, StaffInv, LinksInv
  <2>3. \A s \in Sales : sold'[s] # Staff!NoSale => issued'[sold'[s].by] # None
    BY <1>0 DEF Provision, StaffInv, LinksInv
  <2>4. \A s \in Sales : sold'[s].state = "rung" => sold'[s].cashier \in Staff!Known'
    BY <1>0 DEF Provision, StaffInv, LinksInv
  <2> QED BY <2>1, <2>2, <2>3, <2>4 DEF LinksInv
<1>8. ASSUME NEW j \in Staff!Known' \ Subs PROVE Kept(j)
  <2>1. j \in Staff!Known /\ j \notin stale /\ j # i /\ j \in Staff!Ids
    BY <1>0 DEF Provision, Staff!Known
  <2> QED BY <2>1, <1>0 DEF Provision, Kept
<1> QED BY <1>6, <1>7, <1>8, <1>0, StaffCommits DEF Provision

LEMMA StaffStays ==
    ASSUME Staff!LoginsAssumption, StaffInv, [Staff!Next]_(Staff!vars)
    PROVE  StaffInv'
<1>1. CASE UNCHANGED Staff!vars
  <2>1. StaffTyped' /\ AccountsInv' /\ UsersInv' /\ DrawnInv' /\ LinksInv'
    BY <1>1 DEF StaffInv, Staff!vars, StaffTyped, AccountsInv, UsersInv, DrawnInv, LinksInv, Staff!Known, Owned
  <2>2. \A p \in Handlers : Flight(h[p])'
    BY <1>1 DEF StaffInv, Staff!vars, Flight, Staff!Known
  <2> QED BY <2>1, <2>2 DEF StaffInv
<1>2. CASE Staff!Restart
  BY <1>2, RestartKeepsStaff
<1>3. CASE \E n \in Names, s \in Subs : Staff!Account(n, s)
  BY <1>3, AccountKeepsStaff
<1>4. CASE \E e \in Emps : Staff!Unlink(e)
  BY <1>4, UnlinkKeepsStaff
<1>5. CASE \E p \in Handlers, n \in Names : Staff!SaleLoad(p, n) \/ Staff!HealLoad(p, n)
  BY <1>5, SaleLoadKeepsStaff, HealLoadKeepsStaff
<1>6. CASE \E p \in Handlers, n \in Names, e \in Emps : Staff!LinkLoad(p, e, n)
  BY <1>6, LinkLoadKeepsStaff
<1>7. CASE \E p \in Handlers, n \in Names, e \in Emps, s \in Subs : Staff!ProvisionLoad(p, e, n, s)
  BY <1>7, ProvisionLoadKeepsStaff
<1>8. CASE \E p \in Handlers, s \in Sales : Staff!SaleCommit(p, s) \/ Staff!FirstSaleCommit(p, s)
  BY <1>8, SaleKeepsStaff, FirstSaleKeepsStaff
<1>9. CASE \E p \in Handlers : Staff!HealCommit(p) \/ Staff!LinkCommit(p) \/ Staff!ProvisionCommit(p) \/ Staff!Abort(p)
  BY <1>9, HealKeepsStaff, LinkKeepsStaff, ProvisionKeepsStaff, AbortKeepsStaff
<1> QED BY <1>1, <1>2, <1>3, <1>4, <1>5, <1>6, <1>7, <1>8, <1>9 DEF Staff!Next

LEMMA ServesSame ==
    ASSUME user' = user, NEW s, NEW r
    PROVE  Serves(s, r)' <=> Serves(s, r)
BY DEF Serves, Staff!Known

LEMMA ServesFirst ==
    ASSUME Staff!LoginsAssumption, StaffInv, NEW p \in Handlers, NEW x \in Sales,
           Staff!FirstSaleCommit(p, x), NEW s \in Subs, NEW r, Serves(s, r)
    PROVE  Serves(s, r)'
<1> PICK i, row : i = h[p].row /\ row = h[p].as
  OBVIOUS
<1>1. /\ h[p].op = "first_sale" /\ i \in Subs /\ i \in Staff!Ids /\ row \in LoginRows
      /\ i \notin Staff!Known /\ Staff!Unique(i, row) /\ row.kc = i
      /\ user' = [user EXCEPT ![i] = row]
  BY StaffRequest, StaffAssumed, i = h[p].row, row = h[p].as DEF Staff!FirstSaleCommit, Staff!Finish, StaffInv, Flight
<1>2. user'[i] = row /\ (\A j \in Staff!Ids : j # i => user'[j] = user[j]) /\ Staff!Known' = Staff!Known \cup {i}
  BY <1>1, StaffAssumed DEF StaffInv, StaffTyped, Staff!Known
<1>3. \A j \in Staff!Known : user[j].kc # i /\ j \in Staff!Ids
  BY <1>1, UniqueMeans DEF Staff!Known
<1> QED BY <1>1, <1>2, <1>3 DEF Serves

LEMMA ServesLink ==
    ASSUME Staff!LoginsAssumption, StaffInv, NEW p \in Handlers, Staff!LinkCommit(p),
           NEW s \in Subs, NEW r, Serves(s, r)
    PROVE  Serves(s, r)'
<1> PICK i, as : i = h[p].row /\ as = h[p].as
  OBVIOUS
<1>1. /\ h[p].op = "link" /\ i \in Staff!Ids /\ as \in LoginRows \cup {Staff!NoUser}
      /\ user' = IF as # Staff!NoUser THEN [user EXCEPT ![i] = as] ELSE user
      /\ as # Staff!NoUser => i \in Fresh /\ i \notin Staff!Known
  BY StaffRequest, i = h[p].row, as = h[p].as DEF Staff!LinkCommit, Staff!Finish, StaffInv, Flight
<1>2. CASE as = Staff!NoUser
  BY <1>1, <1>2, ServesSame
<1>3. CASE as # Staff!NoUser
  <2>1. user'[i] = as /\ (\A j \in Staff!Ids : j # i => user'[j] = user[j]) /\ Staff!Known' = Staff!Known \cup {i}
    BY <1>1, <1>3, StaffAssumed DEF StaffInv, StaffTyped, Staff!Known
  <2>2. s # i /\ \A j \in Staff!Known : j \in Staff!Ids
    BY <1>1, <1>3, StaffAssumed DEF Staff!Known
  <2> QED BY <1>1, <1>3, <2>1, <2>2 DEF Serves
<1> QED BY <1>2, <1>3

LEMMA ServesHeal ==
    ASSUME Staff!LoginsAssumption, StaffInv, NEW p \in Handlers, Staff!HealCommit(p),
           NEW s \in Subs, NEW r, Serves(s, r), s \notin Staff!Known /\ r = h[p].row => h[p].kc = s
    PROVE  Serves(s, r)'
<1>1. \A j \in Staff!Known : j \in Staff!Ids
  BY DEF Staff!Known
<1> QED BY <1>1, Healed DEF Serves

LEMMA ServesProvision ==
    ASSUME Staff!LoginsAssumption, StaffInv, NEW p \in Handlers, Staff!ProvisionCommit(p),
           NEW s \in Subs, NEW r, Serves(s, r), r \in Staff!Known', s \notin Staff!Known => r # h[p].row
    PROVE  Serves(s, r)'
<1>1. PICK i, n, stale : Provision(p, i, n, stale)
  BY Provisioned
<1>2. CASE s \in Staff!Known
  BY <1>2 DEF Serves
<1>3. CASE s \notin Staff!Known
  <2>1. r \in Staff!Known /\ user[r].kc = s /\ r # i /\ r \notin stale /\ r \in Staff!Ids
    BY <1>1, <1>3 DEF Serves, Provision, Staff!Known
  <2>2. s # i
    BY <1>1, <2>1 DEF Provision
  <2> QED BY <1>1, <1>3, <2>1, <2>2 DEF Serves, Provision
<1> QED BY <1>2, <1>3

LEMMA ServesRestart ==
    ASSUME Staff!LoginsAssumption, StaffInv, Staff!Restart, NEW s \in Subs, NEW r, Serves(s, r),
           s \notin Staff!Known /\ r = SeedRow => s = SeedSub
    PROVE  Serves(s, r)'
<1>1. CASE user' = user
  BY <1>1, ServesSame
<1>2. CASE user' = [user EXCEPT ![SeedRow] = Staff!Seeded]
  <2>1. /\ user'[SeedRow] = Staff!Seeded /\ user'[SeedRow].kc = SeedSub
        /\ \A j \in Staff!Ids : j # SeedRow => user'[j] = user[j]
        /\ Staff!Known' = Staff!Known \cup {SeedRow}
    BY <1>2, StaffAssumed DEF StaffInv, StaffTyped, Staff!Known, Staff!Seeded
  <2>2. s # SeedRow /\ \A j \in Staff!Known : j \in Staff!Ids
    BY StaffAssumed DEF Staff!Known
  <2> QED BY <2>1, <2>2 DEF Serves
<1> QED BY <1>1, <1>2 DEF Staff!Restart

(* Of whom the row is that a sub is the key of. *)
LEMMA KeyIsOf ==
    ASSUME Staff!LoginsAssumption, StaffInv, NEW r \in Staff!Known, NEW s \in Subs, user[r].kc = s
    PROVE  /\ issued[s] \in Names
           /\ r \in Subs => issued[r] = issued[s]
           /\ r \notin Subs => user[r].name = issued[s]
           /\ r = SeedRow => issued[s] = SeedName
<1>1. Owned(r, user[r])
  BY DEF StaffInv, UsersInv
<1>2. issued[s] \in Names
  BY <1>1 DEF Owned, StaffInv, StaffTyped
<1> QED BY <1>1, <1>2, StaffAssumed DEF Owned

(* What a token resolves to is what serves it. *)
LEMMA ResolvedServes ==
    ASSUME StaffInv, NEW s \in Subs, NEW r
    PROVE  /\ r \in Staff!Resolved(s) => Serves(s, r)
           /\ Serves(s, r) => Staff!Resolved(s) = {r}
BY DEF Serves, Staff!Resolved, Staff!Keyed, StaffInv, UsersInv

LEMMA OnlyBefore ==
    ASSUME Issued, NEW s \in Subs, issued[s] # None, Only(s)'
    PROVE  Only(s) /\ issued'[s] = issued[s]
<1>1. issued'[s] = issued[s]
  BY DEF Issued
<1>2. ASSUME NEW t \in Subs, issued[t] = issued[s] PROVE t = s
  <2>1. issued'[t] = issued'[s]
    BY <1>1, <1>2 DEF Issued
  <2> QED BY <2>1 DEF Only
<1> QED BY <1>1, <1>2 DEF Only

LEMMA SoldStaysWell ==
    ASSUME Issued, NEW x, x.state = "rung" => x.by \in Subs /\ issued[x.by] # None,
           SoldWell(x), Only(x.by) /\ Serves(x.by, x.cashier) => Serves(x.by, x.cashier)'
    PROVE  SoldWell(x)'
<1>1. ASSUME x.state = "rung", Only(x.by)' PROVE Serves(x.by, x.cashier)'
  <2>1. Only(x.by)
    BY <1>1, OnlyBefore
  <2> QED BY <1>1, <2>1 DEF SoldWell
<1> QED BY <1>1 DEF SoldWell

LEMMA FlightStaysWell ==
    ASSUME Issued, NEW r, FlightWell(r),
           r.op = "sale" => r.by \in Subs /\ issued[r.by] # None,
           r.op = "sale" /\ Only(r.by) /\ r.row \in Staff!Known' =>
              IF r.row \in Staff!Known THEN Serves(r.by, r.row) => Serves(r.by, r.row)'
              ELSE r.row \in Subs,
           r.op = "link" /\ r.as = Staff!NoUser /\ r.row \in Subs /\ Only(r.row) =>
              (LinkWell(r.row) /\ r.row \in Staff!Known => LinkWell(r.row)' /\ r.row \in Staff!Known')
    PROVE  FlightWell(r)'
<1>1. ASSUME r.op = "sale", r.row \in Subs PROVE issued'[r.row] = issued'[r.by]
  BY <1>1 DEF FlightWell, Issued
<1>2. ASSUME r.op = "sale", Only(r.by)', r.row \in Staff!Known' PROVE Serves(r.by, r.row)'
  <2>1. Only(r.by) /\ issued'[r.by] = issued[r.by]
    BY <1>2, OnlyBefore
  <2>2. CASE r.row \in Staff!Known
    BY <1>2, <2>1, <2>2 DEF FlightWell
  <2>3. CASE r.row \notin Staff!Known
    <3>1. r.row \in Subs /\ r.row = r.by
      BY <1>2, <2>1, <2>3 DEF FlightWell, Only
    <3> QED BY <1>2, <3>1 DEF Serves
  <2> QED BY <2>2, <2>3
<1>3. ASSUME r.op = "link", r.as = Staff!NoUser, r.row \in Subs
      PROVE  /\ issued'[r.row] # None
             /\ Only(r.row)' => r.row \in Staff!Known' /\ user'[r.row].name = issued'[r.row]
  <2>1. issued[r.row] # None /\ issued'[r.row] = issued[r.row]
    BY <1>3 DEF FlightWell, Issued
  <2>2. ASSUME Only(r.row)' PROVE r.row \in Staff!Known' /\ user'[r.row].name = issued'[r.row]
    <3>1. Only(r.row)
      BY <1>3, <2>1, <2>2, OnlyBefore
    <3>2. r.row \in Staff!Known /\ LinkWell(r.row)
      BY <1>3, <3>1 DEF FlightWell, LinkWell
    <3>3. r.row \in Staff!Known' /\ LinkWell(r.row)'
      BY <1>3, <3>1, <3>2
    <3> QED BY <1>3, <2>2, <3>3 DEF LinkWell
  <2> QED BY <2>1, <2>2
<1> QED BY <1>1, <1>2, <1>3 DEF FlightWell

LEMMA LinkStaysWell ==
    ASSUME Issued, NEW i, LinkWell(i), i \in Subs => issued[i] # None,
           i \in Subs /\ Only(i) /\ LinkWell(i) => user'[i].name = user[i].name
    PROVE  LinkWell(i)'
<1>1. ASSUME i \in Subs, Only(i)' PROVE user'[i].name = issued'[i]
  <2>1. Only(i) /\ issued'[i] = issued[i]
    BY <1>1, OnlyBefore
  <2> QED BY <1>1, <2>1 DEF LinkWell
<1> QED BY <1>1 DEF LinkWell

(* What a step may do to the rows, and to those that count on them. *)
LEMMA SettledKeeps ==
    ASSUME Staff!LoginsAssumption, SettledInv, StaffInv', Issued,
           \A s \in Subs, r \in Staff!Ids :
              Only(s) /\ Serves(s, r) /\ r \in Staff!Known' => Serves(s, r)',
           \A j \in Subs : Only(j) /\ LinkWell(j) /\ j \in Staff!Known =>
              j \in Staff!Known' /\ user'[j].name = user[j].name,
           \A x \in Sales : sold'[x] = sold[x] \/ SoldWell(sold[x])',
           \A q \in Handlers :
              \/ FlightWell(h[q])'
              \/ /\ h'[q] = h[q]
                 /\ \A j \in Staff!Known' \ Staff!Known : j \in Subs \/ h[q] = Staff!Idle \/ h[q].row # j,
           \A e \in Emps : emp'[e] = emp[e] \/ LinkWell(emp[e])'
    PROVE  SettledInv'
<1> USE DEF SettledInv
<1>1. ASSUME NEW x \in Sales PROVE SoldWell(sold[x])'
  <2>1. CASE SoldWell(sold[x])'
    BY <2>1
  <2>2. CASE sold'[x] = sold[x]
    <3>1. PICK y : y = sold[x]
      OBVIOUS
    <3>2. y.state = "rung" => y.by \in Subs /\ issued[y.by] # None /\ y.cashier \in Staff!Ids
      BY <3>1, StaffAssumed DEF StaffInv, StaffTyped, SoldRows, LinksInv
    <3>3. y.state = "rung" => y.cashier \in Staff!Known'
      BY <2>2, <3>1 DEF StaffInv, LinksInv
    <3>4. CASE y.state = "rung"
      <4>1. Only(y.by) /\ Serves(y.by, y.cashier) => Serves(y.by, y.cashier)'
        BY <3>2, <3>3, <3>4
      <4>2. SoldWell(y)
        BY <3>1
      <4>3. SoldWell(y)'
        BY <3>2, <4>1, <4>2, SoldStaysWell
      <4> QED BY <2>2, <3>1, <4>3
    <3>5. CASE y.state # "rung"
      BY <2>2, <3>1, <3>5 DEF SoldWell
    <3> QED BY <3>4, <3>5
  <2> QED BY <2>1, <2>2
<1>2. ASSUME NEW q \in Handlers PROVE FlightWell(h[q])'
  <2>1. CASE FlightWell(h[q])'
    BY <2>1
  <2>2. CASE /\ h'[q] = h[q]
             /\ \A j \in Staff!Known' \ Staff!Known : j \in Subs \/ h[q] = Staff!Idle \/ h[q].row # j
    <3>1. PICK r : r = h[q]
      OBVIOUS
    <3>2. /\ FlightWell(r)
          /\ r.op = "sale" => r.by \in Subs /\ issued[r.by] # None /\ r.row \in Staff!Ids
          /\ r.op # "none" => r # Staff!Idle
      BY <3>1, StaffRequest DEF StaffInv, Flight, Staff!Idle
    <3>3. r.op = "sale" /\ Only(r.by) /\ r.row \in Staff!Known' =>
             IF r.row \in Staff!Known THEN Serves(r.by, r.row) => Serves(r.by, r.row)'
             ELSE r.row \in Subs
      BY <2>2, <3>1, <3>2
    <3>4. r.op = "link" /\ r.as = Staff!NoUser /\ r.row \in Subs /\ Only(r.row) =>
             (LinkWell(r.row) /\ r.row \in Staff!Known => LinkWell(r.row)' /\ r.row \in Staff!Known')
      <4>1. ASSUME r.row \in Subs, Only(r.row), LinkWell(r.row), r.row \in Staff!Known
            PROVE  LinkWell(r.row)' /\ r.row \in Staff!Known'
        <5>1. r.row \in Staff!Known' /\ user'[r.row].name = user[r.row].name
          BY <4>1
        <5>2. issued[r.row] # None
          BY <4>1 DEF Only
        <5> QED BY <4>1, <5>1, <5>2, LinkStaysWell
      <4> QED BY <4>1
    <3>5. FlightWell(r)'
      BY <3>2, <3>3, <3>4, FlightStaysWell
    <3> QED BY <2>2, <3>1, <3>5
  <2> QED BY <2>1, <2>2
<1>3. ASSUME NEW e \in Emps PROVE LinkWell(emp[e])'
  <2>1. CASE LinkWell(emp[e])'
    BY <2>1
  <2>2. CASE emp'[e] = emp[e]
    <3>1. PICK i : i = emp[e]
      OBVIOUS
    <3>2. LinkWell(i) /\ (i \in Subs => issued[i] # None /\ i \in Staff!Known)
      <4>1. i \in Subs => i \in Staff!Known
        BY <3>1, StaffAssumed DEF StaffInv, LinksInv
      <4> QED BY <3>1, <4>1 DEF StaffInv, UsersInv, Owned
    <3>3. LinkWell(i)'
      BY <3>2, LinkStaysWell
    <3> QED BY <2>2, <3>1, <3>3
  <2> QED BY <2>1, <2>2
<1> QED BY <1>1, <1>2, <1>3

LEMMA SettledBegins == ASSUME Staff!LoginsAssumption, Staff!Init PROVE SettledInv
<1>1. StaffInv
  BY StaffBegins
<1> QED BY <1>1, StaffAssumed DEF SettledInv, Staff!Init, SoldWell, FlightWell, LinkWell, Staff!Idle

(* Rows and sales that stay as they are. *)
LEMMA SettledSame ==
    ASSUME Staff!LoginsAssumption, SettledInv, StaffInv', Issued, UNCHANGED <<user, sold>>,
           \A q \in Handlers : h'[q] = h[q] \/ FlightWell(h[q])',
           \A e \in Emps : emp'[e] = emp[e] \/ LinkWell(emp[e])'
    PROVE  SettledInv'
<1>1. Staff!Known' = Staff!Known
  BY DEF Staff!Known
<1>2. \A s \in Subs, r \in Staff!Ids : Serves(s, r) => Serves(s, r)'
  BY ServesSame
<1> QED BY <1>1, <1>2, SettledKeeps

LEMMA IdleIsWell == FlightWell(Staff!Idle)'
BY DEF FlightWell, Staff!Idle

(* Requests that only read. *)
LEMMA SettledReads ==
    ASSUME Staff!LoginsAssumption, SettledInv, NEW p \in Handlers, NEW n \in Names,
           \/ Staff!SaleLoad(p, n) \/ Staff!HealLoad(p, n)
           \/ \E e \in Emps : Staff!LinkLoad(p, e, n) \/ \E s \in Subs : Staff!ProvisionLoad(p, e, n, s)
    PROVE  SettledInv'
<1>1. StaffInv
  BY DEF SettledInv
<1>2. StaffInv' /\ Issued
  <2>1. CASE Staff!SaleLoad(p, n)
    BY <1>1, <2>1, SaleLoadKeepsStaff DEF Issued, Staff!SaleLoad
  <2>2. CASE Staff!HealLoad(p, n)
    BY <1>1, <2>2, HealLoadKeepsStaff DEF Issued, Staff!HealLoad
  <2>3. CASE \E e \in Emps : Staff!LinkLoad(p, e, n)
    BY <1>1, <2>3, LinkLoadKeepsStaff DEF Issued, Staff!LinkLoad
  <2>4. CASE \E e \in Emps : \E s \in Subs : Staff!ProvisionLoad(p, e, n, s)
    BY <1>1, <2>4, ProvisionLoadKeepsStaff
  <2> QED BY <2>1, <2>2, <2>3, <2>4
<1>3. UNCHANGED <<user, emp, sold>>
  BY DEF Staff!SaleLoad, Staff!HealLoad, Staff!LinkLoad, Staff!ProvisionLoad
<1>4. \A q \in Handlers : q # p => h'[q] = h[q]
  BY <1>1 DEF StaffInv, StaffTyped, Staff!SaleLoad, Staff!HealLoad, Staff!LinkLoad, Staff!ProvisionLoad, Staff!Begin
<1>5. FlightWell(h[p])'
  <2>1. CASE Staff!SaleLoad(p, n)
    <3> DEFINE s == account[n]
    <3>1. s \in Subs /\ issued'[s] = n
      BY <1>1, <2>1, StaffAssumed DEF Staff!SaleLoad, StaffInv, StaffTyped, AccountsInv
    <3>2. CASE \E i \in Staff!Resolved(s) : h'[p] = [op |-> "sale", by |-> s, row |-> i]
      <4>1. PICK i \in Staff!Resolved(s) : h'[p] = [op |-> "sale", by |-> s, row |-> i]
        BY <3>2
      <4>2. PICK t : t = s
        OBVIOUS
      <4>3. h'[p].op = "sale" /\ h'[p].by = t /\ h'[p].row = i
        BY <4>1, <4>2
      <4>4. Serves(t, i)'
        BY <1>1, <1>3, <3>1, <4>1, <4>2, ResolvedServes, ServesSame
      <4>5. i \in Subs => issued'[i] = issued'[t]
        <5>1. CASE i = s
          BY <4>2, <5>1
        <5>2. CASE i # s
          <6>1. i \in Staff!Known /\ user[i].kc = s
            BY <4>1, <5>2 DEF Staff!Resolved, Staff!Keyed
          <6>2. i \in Subs => issued[i] = issued[s]
            BY <1>1, <3>1, <6>1, KeyIsOf
          <6>3. issued' = issued
            BY <2>1 DEF Staff!SaleLoad
          <6> QED BY <4>2, <6>2, <6>3
        <5> QED BY <5>1, <5>2
      <4>6. Staff!Known' = Staff!Known
        BY <1>3 DEF Staff!Known
      <4>7. ASSUME NEW x, x.op = "sale", x.by = t, x.row = i PROVE FlightWell(x)'
        BY <4>4, <4>5, <4>7 DEF FlightWell
      <4> QED BY <4>3, <4>7
    <3>3. CASE \E as : h'[p] = [op |-> "first_sale", by |-> s, row |-> s, as |-> as]
      <4>1. h'[p].op = "first_sale"
        BY <3>3
      <4> QED BY <4>1 DEF FlightWell
    <3>4. \/ \E i \in Staff!Resolved(s) : h'[p] = [op |-> "sale", by |-> s, row |-> i]
          \/ \E as : h'[p] = [op |-> "first_sale", by |-> s, row |-> s, as |-> as]
      BY <1>1, <2>1 DEF Staff!SaleLoad, Staff!Begin, StaffInv, StaffTyped
    <3> QED BY <3>2, <3>3, <3>4
  <2>2. CASE Staff!HealLoad(p, n)
    <3>1. h'[p].op = "heal"
      BY <1>1, <2>2 DEF Staff!HealLoad, Staff!Begin, StaffInv, StaffTyped
    <3> QED BY <3>1 DEF FlightWell
  <2>3. ASSUME NEW e \in Emps, Staff!LinkLoad(p, e, n) PROVE FlightWell(h[p])'
    <3>1. CASE \E i \in Staff!Named(n) : h'[p] = [op |-> "link", emp |-> e, row |-> i, as |-> Staff!NoUser]
      <4>1. PICK i \in Staff!Named(n) : h'[p] = [op |-> "link", emp |-> e, row |-> i, as |-> Staff!NoUser]
        BY <3>1
      <4>2. h'[p].op = "link" /\ h'[p].row = i
        BY <4>1
      <4>3. i \in Staff!Known /\ user[i].name = n /\ Owned(i, user[i])
        BY <1>1 DEF Staff!Named, StaffInv, UsersInv
      <4>4. i \in Subs => /\ i \in Staff!Known' /\ user'[i].name = issued'[i] /\ issued'[i] # None
        BY <1>3, <2>3, <4>3, StaffAssumed DEF Owned, Staff!Known, Staff!LinkLoad
      <4> QED BY <4>2, <4>4 DEF FlightWell
    <3>2. CASE \E i \in Fresh : h'[p] = [op |-> "link", emp |-> e, row |-> i, as |-> [name |-> n, kc |-> i]]
      <4>1. h'[p].op = "link" /\ h'[p].row \in Fresh
        BY <3>2
      <4> QED BY <4>1, StaffAssumed DEF FlightWell
    <3> QED BY <1>1, <2>3, <3>1, <3>2 DEF Staff!LinkLoad, Staff!Begin, StaffInv, StaffTyped
  <2>4. ASSUME NEW e \in Emps, NEW s \in Subs, Staff!ProvisionLoad(p, e, n, s) PROVE FlightWell(h[p])'
    <3>1. h'[p].op = "provision"
      BY <1>1, <2>4 DEF Staff!ProvisionLoad, Staff!Begin, StaffInv, StaffTyped
    <3> QED BY <3>1 DEF FlightWell
  <2> QED BY <2>1, <2>2, <2>3, <2>4
<1> QED BY <1>2, <1>3, <1>4, <1>5, SettledSame

LEMMA SettledKnown ==
    ASSUME StaffInv
    PROVE  Staff!Known \subseteq Staff!Ids /\ (UNCHANGED issued => Issued)
BY DEF Staff!Known, Issued

LEMMA SettledStays ==
    ASSUME Staff!LoginsAssumption, SettledInv, [Staff!Next]_(Staff!vars)
    PROVE  SettledInv'
<1>1. StaffInv /\ StaffInv'
  BY StaffStays DEF SettledInv
<1>2. CASE UNCHANGED Staff!vars
  BY <1>1, <1>2, SettledSame, SettledKnown DEF Staff!vars
<1>3. CASE Staff!Restart
  <2>1. /\ Issued /\ UNCHANGED <<emp, sold>> /\ \A q \in Handlers : h'[q] = Staff!Idle
        /\ Staff!Known \subseteq Staff!Known'
        /\ user' = user \/ user' = [user EXCEPT ![SeedRow] = Staff!Seeded]
    BY <1>1, <1>3, StaffAssumed DEF Staff!Restart, Issued, Staff!Known, StaffInv, StaffTyped
  <2>2. ASSUME NEW s \in Subs, NEW r \in Staff!Ids, Only(s), Serves(s, r) PROVE Serves(s, r)'
    <3>1. s \notin Staff!Known /\ r = SeedRow => s = SeedSub
      BY <1>1, <2>2, KeyIsOf, StaffAssumed DEF Serves, Only, StaffInv, AccountsInv
    <3> QED BY <1>1, <1>3, <2>2, <3>1, ServesRestart
  <2>3. ASSUME NEW j \in Subs, j \in Staff!Known
        PROVE  j \in Staff!Known' /\ user'[j].name = user[j].name
    BY <1>1, <2>1, <2>3, StaffAssumed DEF StaffInv, StaffTyped
  <2>4. ASSUME NEW q \in Handlers PROVE FlightWell(h[q])'
    BY <2>1 DEF FlightWell, Staff!Idle
  <2> QED BY <1>1, <2>1, <2>2, <2>3, <2>4, SettledKeeps
<1>4. ASSUME NEW n \in Names, NEW s \in Subs, Staff!Account(n, s) PROVE SettledInv'
  BY <1>1, <1>4, AccountKeepsStaff, SettledSame DEF Staff!Account
<1>5. ASSUME NEW e \in Emps, Staff!Unlink(e) PROVE SettledInv'
  <2>1. ASSUME NEW f \in Emps PROVE emp'[f] = emp[f] \/ LinkWell(emp[f])'
    <3>1. emp'[f] = emp[f] \/ emp'[f] = None
      BY <1>1, <1>5 DEF Staff!Unlink, StaffInv, StaffTyped
    <3> QED BY <3>1, StaffAssumed DEF LinkWell
  <2> QED BY <1>1, <1>5, <2>1, SettledSame, SettledKnown DEF Staff!Unlink
<1>6. ASSUME NEW p \in Handlers, NEW n \in Names,
             \/ Staff!SaleLoad(p, n) \/ Staff!HealLoad(p, n)
             \/ \E e \in Emps : Staff!LinkLoad(p, e, n) \/ \E s \in Subs : Staff!ProvisionLoad(p, e, n, s)
      PROVE  SettledInv'
  BY <1>6, SettledReads
<1>7. ASSUME NEW p \in Handlers, NEW x \in Sales, Staff!SaleCommit(p, x) PROVE SettledInv'
  <2>1. /\ h[p].op = "sale" /\ h[p].row \in Staff!Known /\ h[p].by \in Subs
        /\ Staff!Rung(x, h[p].by, h[p].row) /\ UNCHANGED <<issued, user, emp>>
        /\ h' = [h EXCEPT ![p] = Staff!Idle]
    BY <1>1, <1>7, StaffRequest DEF Staff!SaleCommit, Staff!Finish, StaffInv
  <2>2. PICK s, r : s = h[p].by /\ r = h[p].row
    OBVIOUS
  <2>3. Only(s) => Serves(s, r)
    BY <2>1, <2>2 DEF SettledInv, FlightWell
  <2>4. ASSUME NEW y \in Sales PROVE sold'[y] = sold[y] \/ SoldWell(sold[y])'
    <3>1. \/ sold'[y] = sold[y]
          \/ sold'[y] = [state |-> "rung", by |-> s, cashier |-> r]
      BY <1>1, <2>1, <2>2 DEF Staff!Rung, StaffInv, StaffTyped
    <3>2. CASE sold'[y] = [state |-> "rung", by |-> s, cashier |-> r]
      <4>1. sold'[y].by = s /\ sold'[y].cashier = r
        BY <3>2
      <4>2. Only(s)' => Serves(s, r)'
        BY <2>1, <2>3, ServesSame DEF Only
      <4> QED BY <4>1, <4>2 DEF SoldWell
    <3> QED BY <3>1, <3>2
  <2>5. ASSUME NEW q \in Handlers PROVE h'[q] = h[q] \/ FlightWell(h[q])'
    <3>1. h'[q] = h[q] \/ h'[q] = Staff!Idle
      BY <1>1, <2>1 DEF StaffInv, StaffTyped
    <3> QED BY <3>1 DEF FlightWell, Staff!Idle
  <2>6. Staff!Known' = Staff!Known /\ \A t \in Subs, k \in Staff!Ids : Serves(t, k) => Serves(t, k)'
    BY <2>1, ServesSame DEF Staff!Known
  <2> QED BY <1>1, <2>1, <2>4, <2>5, <2>6, SettledKeeps, SettledKnown
<1>8. ASSUME NEW p \in Handlers, NEW x \in Sales, Staff!FirstSaleCommit(p, x) PROVE SettledInv'
  <2>1. PICK i, row : i = h[p].row /\ row = h[p].as
    OBVIOUS
  <2>2. /\ h[p].op = "first_sale" /\ i \in Subs /\ i \in Staff!Ids /\ row \in LoginRows /\ h[p].by = i
        /\ i \notin Staff!Known /\ Staff!Rung(x, i, i) /\ UNCHANGED <<issued, emp>>
        /\ user' = [user EXCEPT ![i] = row] /\ h' = [h EXCEPT ![p] = Staff!Idle]
    BY <1>1, <1>8, <2>1, StaffRequest, StaffAssumed
       DEF Staff!FirstSaleCommit, Staff!Finish, StaffInv, Flight
  <2>3. /\ user'[i] = row /\ \A j \in Staff!Ids : j # i => user'[j] = user[j]
        /\ Staff!Known' = Staff!Known \cup {i}
    BY <1>1, <2>2, StaffAssumed DEF StaffInv, StaffTyped, Staff!Known
  <2>4. ASSUME NEW y \in Sales PROVE sold'[y] = sold[y] \/ SoldWell(sold[y])'
    <3>1. sold'[y] = sold[y] \/ (sold'[y].by = i /\ sold'[y].cashier = i)
      BY <1>1, <2>2 DEF Staff!Rung, StaffInv, StaffTyped
    <3>2. Serves(i, i)'
      BY <2>3 DEF Serves
    <3> QED BY <3>1, <3>2 DEF SoldWell
  <2>5. ASSUME NEW q \in Handlers PROVE h'[q] = h[q] \/ FlightWell(h[q])'
    <3>1. h'[q] = h[q] \/ h'[q] = Staff!Idle
      BY <1>1, <2>2 DEF StaffInv, StaffTyped
    <3> QED BY <3>1 DEF FlightWell, Staff!Idle
  <2>6. \A s \in Subs, r \in Staff!Ids : Serves(s, r) => Serves(s, r)'
    BY <1>1, <1>8, ServesFirst
  <2>7. \A j \in Staff!Known : j \in Staff!Known' /\ user'[j].name = user[j].name
    BY <1>1, <2>2, <2>3, SettledKnown
  <2> QED BY <1>1, <2>2, <2>3, <2>4, <2>5, <2>6, <2>7, SettledKeeps, SettledKnown
<1>9. ASSUME NEW p \in Handlers, Staff!HealCommit(p) PROVE SettledInv'
  <2>1. ASSUME NEW s \in Subs, NEW r \in Staff!Ids, Only(s), Serves(s, r) PROVE Serves(s, r)'
    <3>1. ASSUME s \notin Staff!Known, r = h[p].row PROVE h[p].kc = s
      <4>1. /\ r \in Staff!Known /\ user[r].kc = s
            /\ issued[h[p].kc] = h[p].seen.name /\ h[p].kc \in Subs
            /\ IF r \in Subs THEN issued[r] = h[p].seen.name ELSE user[r].name = h[p].seen.name
        BY <1>1, <1>9, <2>1, <3>1, Healed DEF Serves, StaffInv, Flight
      <4> QED BY <1>1, <2>1, <4>1, KeyIsOf DEF Only
    <3> QED BY <1>1, <1>9, <2>1, <3>1, ServesHeal
  <2>2. ASSUME NEW q \in Handlers PROVE h'[q] = h[q] \/ FlightWell(h[q])'
    <3>1. h'[q] = h[q] \/ h'[q] = Staff!Idle
      BY <1>1, <1>9, Healed DEF StaffInv, StaffTyped
    <3> QED BY <3>1 DEF FlightWell, Staff!Idle
  <2>3. \A j \in Staff!Known : j \in Staff!Known' /\ user'[j].name = user[j].name
    BY <1>1, <1>9, Healed, SettledKnown
  <2> QED BY <1>1, <1>9, <2>1, <2>2, <2>3, Healed, SettledKeeps, SettledKnown
<1>10. ASSUME NEW p \in Handlers, Staff!LinkCommit(p) PROVE SettledInv'
  <2>1. PICK i, as : i = h[p].row /\ as = h[p].as
    OBVIOUS
  <2>2. /\ h[p].op = "link" /\ i \in Staff!Ids /\ as \in LoginRows \cup {Staff!NoUser} /\ h[p].emp \in Emps
        /\ user' = IF as # Staff!NoUser THEN [user EXCEPT ![i] = as] ELSE user
        /\ as # Staff!NoUser => i \in Fresh /\ i \notin Staff!Known
        /\ emp' = [emp EXCEPT ![h[p].emp] = i]
        /\ h' = [h EXCEPT ![p] = Staff!Idle] /\ UNCHANGED <<issued, sold>>
    BY <1>1, <1>10, <2>1, StaffRequest DEF Staff!LinkCommit, Staff!Finish, StaffInv, Flight
  <2>3. \A j \in Staff!Known : j \in Staff!Known' /\ user'[j] = user[j]
    BY <1>1, <2>2 DEF StaffInv, StaffTyped, Staff!Known
  <2>4. \A j \in Staff!Known' \ Staff!Known : j = i /\ as # Staff!NoUser
    BY <1>1, <2>2 DEF StaffInv, StaffTyped, Staff!Known
  <2>5. ASSUME NEW q \in Handlers
        PROVE  \/ FlightWell(h[q])'
               \/ /\ h'[q] = h[q]
                  /\ \A j \in Staff!Known' \ Staff!Known : j \in Subs \/ h[q] = Staff!Idle \/ h[q].row # j
    <3>1. CASE q = p
      <4>1. h'[q] = Staff!Idle
        BY <1>1, <2>2, <3>1 DEF StaffInv, StaffTyped
      <4> QED BY <4>1 DEF FlightWell, Staff!Idle
    <3>2. CASE q # p
      <4>1. h'[q] = h[q]
        BY <1>1, <2>2, <3>2 DEF StaffInv, StaffTyped
      <4>2. as # Staff!NoUser /\ h[q] # Staff!Idle => h[q].row # i
        BY <1>1, <2>1, <2>2, <3>2 DEF StaffInv, DrawnInv
      <4> QED BY <2>4, <4>1, <4>2
    <3> QED BY <3>1, <3>2
  <2>6. ASSUME NEW e \in Emps PROVE emp'[e] = emp[e] \/ LinkWell(emp[e])'
    <3>1. emp'[e] = emp[e] \/ emp'[e] = i
      BY <1>1, <2>2 DEF StaffInv, StaffTyped
    <3>2. ASSUME i \in Subs, Only(i)' PROVE user'[i].name = issued'[i]
      <4>1. as = Staff!NoUser /\ user' = user /\ Only(i)
        BY <2>2, <3>2, StaffAssumed DEF Only
      <4>2. user[i].name = issued[i]
        BY <2>1, <2>2, <3>2, <4>1 DEF SettledInv, FlightWell
      <4> QED BY <2>2, <4>1, <4>2
    <3> QED BY <3>1, <3>2 DEF LinkWell
  <2>7. \A s \in Subs, r \in Staff!Ids : Serves(s, r) => Serves(s, r)'
    BY <1>1, <1>10, ServesLink
  <2> QED BY <1>1, <2>2, <2>3, <2>5, <2>6, <2>7, SettledKeeps, SettledKnown
<1>11. ASSUME NEW p \in Handlers, Staff!ProvisionCommit(p) PROVE SettledInv'
  <2>1. PICK i, n, stale : Provision(p, i, n, stale)
    BY <1>1, <1>11, Provisioned
  <2> USE DEF Provision
  <2>2. ASSUME NEW s \in Subs, NEW r \in Staff!Ids, Only(s), Serves(s, r), r \in Staff!Known' PROVE Serves(s, r)'
    <3>1. s \notin Staff!Known => r # h[p].row
      <4>1. ASSUME s \notin Staff!Known, r = i PROVE FALSE
        <5>1. r \in Staff!Known /\ user[r].kc = s
          BY <2>2, <4>1 DEF Serves
        <5>2. issued[r] = issued[s]
          BY <1>1, <2>1, <4>1, <5>1, KeyIsOf
        <5> QED BY <2>1, <2>2, <4>1, <5>1, <5>2 DEF Only
      <4> QED BY <2>1, <4>1
    <3> QED BY <1>1, <1>11, <2>2, <3>1, ServesProvision
  <2>3. ASSUME NEW j \in Subs, Only(j), LinkWell(j), j \in Staff!Known
        PROVE  j \in Staff!Known' /\ user'[j].name = user[j].name
    <3>1. user[j].name = issued[j] /\ j \in Staff!Ids
      BY <1>1, <2>3, SettledKnown DEF LinkWell
    <3>2. CASE j = i
      BY <2>1, <3>1, <3>2
    <3>3. CASE j # i
      <4>1. j \notin stale
        BY <2>1, <2>3, <3>1, <3>3 DEF Only, Staff!Named
      <4> QED BY <2>1, <2>3, <3>1, <3>3, <4>1
    <3> QED BY <3>2, <3>3
  <2>4. ASSUME NEW y \in Sales PROVE sold'[y] = sold[y] \/ SoldWell(sold[y])'
    BY <2>1 DEF SoldWell
  <2>5. ASSUME NEW q \in Handlers PROVE h'[q] = h[q] \/ FlightWell(h[q])'
    <3>1. h'[q] = h[q] \/ h'[q] = Staff!Idle
      BY <1>1, <2>1 DEF StaffInv, StaffTyped
    <3> QED BY <3>1 DEF FlightWell, Staff!Idle
  <2>6. \A j \in Staff!Known' \ Staff!Known : j \in Subs
    BY <2>1
  <2>7. ASSUME NEW e \in Emps PROVE emp'[e] = emp[e] \/ LinkWell(emp[e])'
    <3>1. emp'[e] = emp[e] \/ emp'[e] = None \/ emp'[e] = i
      BY <2>1
    <3>2. user'[i].name = issued'[i]
      BY <2>1
    <3> QED BY <3>1, <3>2, StaffAssumed DEF LinkWell
  <2>8. UNCHANGED issued
    BY <2>1
  <2> QED BY <1>1, <2>2, <2>3, <2>4, <2>5, <2>6, <2>7, <2>8, SettledKeeps, SettledKnown
<1>12. ASSUME NEW p \in Handlers, Staff!Abort(p) PROVE SettledInv'
  <2>1. ASSUME NEW q \in Handlers PROVE h'[q] = h[q] \/ FlightWell(h[q])'
    <3>1. h'[q] = h[q] \/ h'[q] = Staff!Idle
      BY <1>1, <1>12 DEF Staff!Abort, StaffInv, StaffTyped
    <3> QED BY <3>1 DEF FlightWell, Staff!Idle
  <2> QED BY <1>1, <1>12, <2>1, SettledSame, SettledKnown DEF Staff!Abort
<1> QED BY <1>2, <1>3, <1>4, <1>5, <1>6, <1>7, <1>8, <1>9, <1>10, <1>11, <1>12 DEF Staff!Next

LEMMA SettledShows ==
    ASSUME Staff!LoginsAssumption, SettledInv
    PROVE  Staff!SettledStay
<1>1. StaffInv
  BY DEF SettledInv
<1>2. ASSUME NEW n \in Staff!Lasting PROVE n \in Names /\ account[n] \in Subs /\ issued[account[n]] = n /\ Only(account[n])
  BY <1>1, <1>2, StaffAssumed DEF Staff!Lasting, Only, StaffInv, StaffTyped, AccountsInv
<1>3. ASSUME NEW x \in Sales, sold[x].state = "rung", sold[x].by \in Staff!Settled
      PROVE  Staff!Resolved(sold[x].by) = {sold[x].cashier}
  <2>1. sold[x].by \in Subs /\ Only(sold[x].by)
    BY <1>2, <1>3 DEF Staff!Settled
  <2>2. Serves(sold[x].by, sold[x].cashier)
    BY <1>3, <2>1 DEF SettledInv, SoldWell
  <2> QED BY <1>1, <2>1, <2>2, ResolvedServes
<1>4. ASSUME NEW n \in Staff!Lasting, NEW e \in Emps, e \in Staff!ByName(n)
      PROVE  Staff!ByName(n) = {e} /\ Staff!ByKey(account[n]) \subseteq {e}
  <2> DEFINE r == emp[e]
             s == account[n]
  <2>1. r \in Staff!Known /\ user[r].name = n
    BY <1>4 DEF Staff!ByName, Staff!LinkedTo, Staff!Named
  <2>2. r # None
    BY <2>1, StaffAssumed DEF Staff!Known
  <2>3. \A f \in Emps : emp[f] = r => f = e
    BY <1>1, <2>2 DEF StaffInv, LinksInv
  <2>4. \A k \in Staff!Known : user[k].name = n => k = r
    BY <1>1, <2>1 DEF StaffInv, UsersInv
  <2>5. Staff!ByName(n) = {e}
    BY <1>4, <2>3, <2>4 DEF Staff!ByName, Staff!LinkedTo, Staff!Named
  <2>6. ASSUME NEW f \in Staff!ByKey(s) PROVE f = e
    <3>1. f \in Emps /\ emp[f] \in Staff!Known /\ user[emp[f]].kc = s
      BY <2>6 DEF Staff!ByKey, Staff!LinkedTo, Staff!Keyed
    <3>2. user[emp[f]].name = n
      <4>1. CASE emp[f] \notin Subs
        BY <1>1, <1>2, <3>1, <4>1, KeyIsOf
      <4>2. CASE emp[f] \in Subs
        <5>1. issued[emp[f]] = n
          BY <1>1, <1>2, <3>1, <4>2, KeyIsOf
        <5>2. emp[f] = s
          BY <1>2, <4>2, <5>1 DEF Only
        <5> QED BY <1>2, <3>1, <4>2, <5>1, <5>2 DEF SettledInv, LinkWell
      <4> QED BY <4>1, <4>2
    <3> QED BY <2>3, <2>4, <3>1, <3>2
  <2> QED BY <2>5, <2>6
<1>5. Staff!OnOneRow(Staff!Settled)
  BY <1>3 DEF Staff!OnOneRow
<1>6. Staff!ActFor(Staff!Lasting)
  BY <1>4 DEF Staff!ActFor
<1> QED BY <1>5, <1>6 DEF Staff!SettledStay

(* However requests interleave: what was sold under a login is on the one row its
   reports are asked of, and a login that is linked to an employee acts for that one, as long
   as its account is not made anew.
   (_resolve_cashier_uid, get_employee_from_token, link_employee_login, provision_login.) *)
THEOREM SettledStayHolds ==
    ASSUME Staff!LoginsAssumption
    PROVE  Staff!Spec => []Staff!SettledStay
BY SettledBegins, SettledStays, SettledShows, PTL DEF Staff!Spec

(* A sub that is in use was so since it was issued. *)
InUseBack == \A s \in Subs : issued[s] # None /\ InUse(s)' => InUse(s)

(* What a step may do to the rows, and to those that count on them. *)
LEMMA SoloKeeps ==
    ASSUME Staff!LoginsAssumption, StaffSoloInv, StaffInv', InUseBack,
           \A s \in Subs, r \in Staff!Ids :
              InUse(s) /\ Serves(s, r) /\ r \in Staff!Known' => Serves(s, r)',
           \A j \in Staff!Known : user'[j].name = user[j].name \/ user'[j].name \in Names \/ j \notin Staff!Known',
           \A x \in Sales : sold'[x] = sold[x] \/ SoldFirst(sold[x])',
           \A q \in Handlers : FlightFirst(h[q])',
           \A e \in Emps : emp'[e] = emp[e] \/ LinkFirst(emp[e])'
    PROVE  StaffSoloInv'
<1> USE DEF StaffSoloInv
<1>1. ASSUME NEW x \in Sales PROVE SoldFirst(sold[x])'
  <2>1. CASE SoldFirst(sold[x])'
    BY <2>1
  <2>2. CASE sold'[x] = sold[x]
    <3>1. PICK y : y = sold[x]
      OBVIOUS
    <3>2. y.state = "rung" => y.by \in Subs /\ issued[y.by] # None /\ y.cashier \in Staff!Ids
      BY <3>1, StaffAssumed DEF StaffInv, StaffTyped, SoldRows, LinksInv
    <3>3. y.state = "rung" => y.cashier \in Staff!Known'
      BY <2>2, <3>1 DEF StaffInv, LinksInv
    <3>4. ASSUME y.state = "rung", InUse(y.by)' PROVE Serves(y.by, y.cashier)'
      <4>1. InUse(y.by)
        BY <3>2, <3>4 DEF InUseBack
      <4>2. Serves(y.by, y.cashier)
        BY <3>1, <3>4, <4>1 DEF SoldFirst
      <4> QED BY <3>2, <3>3, <3>4, <4>1, <4>2
    <3>5. SoldFirst(y)'
      BY <3>4 DEF SoldFirst
    <3> QED BY <2>2, <3>1, <3>5
  <2> QED BY <2>1, <2>2
<1>2. ASSUME NEW e \in Emps PROVE LinkFirst(emp[e])'
  <2>1. CASE LinkFirst(emp[e])'
    BY <2>1
  <2>2. CASE emp'[e] = emp[e]
    <3>1. emp'[e] # None => emp[e] \in Staff!Known /\ emp'[e] \in Staff!Known'
      BY <2>2 DEF StaffInv, LinksInv
    <3>2. emp[e] # None => user[emp[e]].name \in Names
      BY DEF LinkFirst
    <3> QED BY <2>2, <3>1, <3>2 DEF LinkFirst
  <2> QED BY <2>1, <2>2
<1> QED BY <1>1, <1>2

LEMMA SoloBegins == ASSUME Staff!LoginsAssumption, Staff!Init PROVE StaffSoloInv
<1>1. StaffInv
  BY StaffBegins
<1> QED BY <1>1, StaffAssumed DEF StaffSoloInv, Staff!Init, SoldFirst, FlightFirst, LinkFirst, Staff!Idle

(* Rows and sales that stay as they are. *)
LEMMA SoloSame ==
    ASSUME Staff!LoginsAssumption, StaffSoloInv, StaffInv', InUseBack, UNCHANGED <<user, sold>>,
           \A q \in Handlers : FlightFirst(h[q])',
           \A e \in Emps : emp'[e] = emp[e] \/ LinkFirst(emp[e])'
    PROVE  StaffSoloInv'
<1>1. \A s \in Subs, r \in Staff!Ids : Serves(s, r) => Serves(s, r)'
  BY ServesSame
<1> QED BY <1>1, SoloKeeps

LEMMA InUseSame == UNCHANGED <<account, issued>> => InUseBack
BY DEF InUseBack, InUse

LEMMA InUseNew ==
    ASSUME StaffInv, NEW n \in Names, NEW s \in Subs, issued[s] = None \/ (account[n] = s /\ issued[s] = n),
           account' = [account EXCEPT ![n] = s], issued' = [issued EXCEPT ![s] = n]
    PROVE  InUseBack
<1>1. ASSUME NEW t \in Subs, issued[t] # None, InUse(t)' PROVE InUse(t)
  <2>1. issued'[t] = issued[t] /\ account'[issued[t]] = t /\ issued[t] \in Names
    BY <1>1 DEF InUse, StaffInv, StaffTyped
  <2>2. account[issued[t]] = t
    BY <1>1, <2>1 DEF StaffInv, StaffTyped
  <2> QED BY <1>1, <2>1, <2>2 DEF InUse
<1> QED BY <1>1 DEF InUseBack

LEMMA IdleIsFirst == FlightFirst(Staff!Idle)'
BY DEF FlightFirst, Staff!Idle

(* A sub that Keycloak has not issued is in no row. *)
LEMMA NotIssued ==
    ASSUME Staff!LoginsAssumption, StaffInv, NEW s \in Subs, issued[s] = None
    PROVE  s \notin Staff!Known /\ Staff!Keyed(s) = {}
BY DEF StaffInv, UsersInv, Owned, Staff!Keyed

LEMMA FlightFirstSame ==
    ASSUME UNCHANGED <<account, user>>, NEW r, FlightFirst(r)
    PROVE  FlightFirst(r)'
BY DEF FlightFirst, Serves, UnseenBut, Staff!Known, Staff!Keyed

LEMMA AccountKeepsSolo ==
    ASSUME Staff!LoginsAssumption, StaffSoloInv, NEW n \in Names, NEW s \in Subs, Staff!Account(n, s)
    PROVE  StaffSoloInv'
<1>1. StaffInv /\ StaffInv'
  BY AccountKeepsStaff DEF StaffSoloInv
<1>2. /\ issued[s] = None /\ account' = [account EXCEPT ![n] = s] /\ issued' = [issued EXCEPT ![s] = n]
      /\ UNCHANGED <<user, emp, sold, h>>
  BY DEF Staff!Account
<1>3. InUseBack
  BY <1>1, <1>2, InUseNew
<1>4. ASSUME NEW m \in Names, NEW sub, UnseenBut(m, sub) PROVE UnseenBut(m, sub)'
  <2>1. Staff!Known' = Staff!Known /\ \A t : Staff!Keyed(t)' = Staff!Keyed(t)
    BY <1>2 DEF Staff!Known, Staff!Keyed
  <2>2. account'[m] = account[m] \/ account'[m] = s
    BY <1>1, <1>2 DEF StaffInv, StaffTyped
  <2>3. PICK t : t = account'[m]
    OBVIOUS
  <2>4. t = s => t \notin Staff!Known /\ Staff!Keyed(t) = {}
    BY <1>1, <1>2, NotIssued
  <2>5. t = account[m] => UnseenBut(m, sub)'
    <3>1. ASSUME t = account[m], t # sub PROVE t \notin Staff!Known' /\ Staff!Keyed(t)' = {}
      BY <1>4, <2>1, <3>1 DEF UnseenBut
    <3> QED BY <2>3, <3>1 DEF UnseenBut, Staff!Keyed
  <2>6. t = s => UnseenBut(m, sub)'
    BY <2>1, <2>3, <2>4 DEF UnseenBut, Staff!Keyed
  <2> QED BY <2>2, <2>3, <2>5, <2>6
<1>5. ASSUME NEW q \in Handlers PROVE FlightFirst(h[q])'
  <2>1. PICK r : r = h[q]
    OBVIOUS
  <2>2. /\ FlightFirst(r) /\ (r.op = "heal" => r.seen.name \in Names) /\ (r.op = "provision" => r.name \in Names)
    BY <1>1, <2>1, StaffRequest DEF StaffSoloInv, StaffInv, Flight
  <2>3. \A t, k : Serves(t, k) => Serves(t, k)'
    BY <1>2, ServesSame
  <2>4. Staff!Known' = Staff!Known
    BY <1>2 DEF Staff!Known
  <2>5. r.op = "heal" => UnseenBut(r.seen.name, r.kc)'
    BY <1>4, <2>2 DEF FlightFirst
  <2>6. r.op = "provision" => UnseenBut(r.name, r.row)'
    BY <1>4, <2>2 DEF FlightFirst
  <2>7. r.op = "sale" => Serves(r.by, r.row)'
    BY <2>2, <2>3 DEF FlightFirst
  <2>8. FlightFirst(r)'
    BY <1>2, <2>2, <2>4, <2>5, <2>6, <2>7 DEF FlightFirst
  <2> QED BY <1>2, <2>1, <2>8
<1> QED BY <1>1, <1>2, <1>3, <1>5, SoloSame

(* Requests that only read. *)
LEMMA SoloRequests ==
    ASSUME Staff!LoginsAssumption, StaffSoloInv, NEW p, Handlers = {p}, NEW n \in Names,
           \/ Staff!SaleLoad(p, n) \/ Staff!HealLoad(p, n)
           \/ \E e \in Emps : Staff!LinkLoad(p, e, n) \/ \E s \in Subs : Staff!ProvisionLoad(p, e, n, s)
    PROVE  StaffSoloInv'
<1>1. StaffInv
  BY DEF StaffSoloInv
<1>2. StaffInv' /\ InUseBack
  <2>1. CASE Staff!SaleLoad(p, n)
    BY <1>1, <2>1, SaleLoadKeepsStaff, InUseSame DEF Staff!SaleLoad
  <2>2. CASE Staff!HealLoad(p, n)
    BY <1>1, <2>2, HealLoadKeepsStaff, InUseSame DEF Staff!HealLoad
  <2>3. CASE \E e \in Emps : Staff!LinkLoad(p, e, n)
    BY <1>1, <2>3, LinkLoadKeepsStaff, InUseSame DEF Staff!LinkLoad
  <2>4. ASSUME NEW e \in Emps, NEW s \in Subs, Staff!ProvisionLoad(p, e, n, s) PROVE StaffInv' /\ InUseBack
    <3>1. /\ issued[s] = None \/ (account[n] = s /\ issued[s] = n)
          /\ account' = [account EXCEPT ![n] = s] /\ issued' = [issued EXCEPT ![s] = n]
      BY <1>1, <2>4, StaffAssumed DEF Staff!ProvisionLoad, StaffInv, AccountsInv
    <3> QED BY <1>1, <2>4, <3>1, InUseNew, ProvisionLoadKeepsStaff
  <2> QED BY <2>1, <2>2, <2>3, <2>4
<1>3. UNCHANGED <<user, emp, sold>>
  BY DEF Staff!SaleLoad, Staff!HealLoad, Staff!LinkLoad, Staff!ProvisionLoad
<1>4. FlightFirst(h[p])'
  <2>1. CASE Staff!SaleLoad(p, n)
    <3>1. PICK s : s = account[n]
      OBVIOUS
    <3>2. s \in Subs
      BY <1>1, <2>1, <3>1 DEF Staff!SaleLoad, StaffInv, StaffTyped
    <3>3. CASE \E i \in Staff!Resolved(s) : h'[p] = [op |-> "sale", by |-> s, row |-> i]
      <4>1. PICK i \in Staff!Resolved(s) : h'[p] = [op |-> "sale", by |-> s, row |-> i]
        BY <3>3
      <4>2. Serves(s, i)'
        BY <1>1, <1>3, <3>2, ResolvedServes, ServesSame
      <4>3. h'[p].op = "sale" /\ h'[p].by = s /\ h'[p].row = i
        BY <4>1
      <4> QED BY <4>2, <4>3 DEF FlightFirst
    <3>4. CASE \E as : h'[p] = [op |-> "first_sale", by |-> s, row |-> s, as |-> as]
      <4>1. h'[p].op = "first_sale"
        BY <3>4
      <4> QED BY <4>1 DEF FlightFirst
    <3> QED BY <1>1, <2>1, <3>1, <3>3, <3>4 DEF Staff!SaleLoad, Staff!Begin, StaffInv, StaffTyped
  <2>2. CASE Staff!HealLoad(p, n)
    <3>1. PICK s : s = account[n]
      OBVIOUS
    <3>2. PICK i \in Staff!Named(n) : h' = [h EXCEPT ![p] = [op |-> "heal", row |-> i, seen |-> user[i], kc |-> s]]
      BY <2>2, <3>1 DEF Staff!HealLoad, Staff!Begin
    <3>3. h'[p].op = "heal" /\ h'[p].seen = user[i] /\ h'[p].kc = s
      BY <1>1, <3>2 DEF StaffInv, StaffTyped
    <3>4. user[i].name = n /\ account' = account
      BY <2>2, <3>2 DEF Staff!Named, Staff!HealLoad
    <3> QED BY <3>1, <3>3, <3>4 DEF FlightFirst, UnseenBut
  <2>3. ASSUME NEW e \in Emps, Staff!LinkLoad(p, e, n) PROVE FlightFirst(h[p])'
    <3>1. CASE \E i \in Staff!Named(n) : h'[p] = [op |-> "link", emp |-> e, row |-> i, as |-> Staff!NoUser]
      <4>1. PICK i \in Staff!Named(n) : h'[p] = [op |-> "link", emp |-> e, row |-> i, as |-> Staff!NoUser]
        BY <3>1
      <4>2. h'[p].op = "link" /\ h'[p].row = i
        BY <4>1
      <4>3. i \in Staff!Known' /\ user'[i].name = n
        BY <1>3 DEF Staff!Named, Staff!Known
      <4> QED BY <4>2, <4>3 DEF FlightFirst
    <3>2. CASE \E i \in Fresh : h'[p] = [op |-> "link", emp |-> e, row |-> i, as |-> [name |-> n, kc |-> i]]
      <4>1. h'[p].op = "link" /\ h'[p].as.name = n /\ n # None
        BY <3>2, StaffAssumed
      <4> QED BY <4>1 DEF FlightFirst, Staff!NoUser
    <3> QED BY <1>1, <2>3, <3>1, <3>2 DEF Staff!LinkLoad, Staff!Begin, StaffInv, StaffTyped
  <2>4. ASSUME NEW e \in Emps, NEW s \in Subs, Staff!ProvisionLoad(p, e, n, s) PROVE FlightFirst(h[p])'
    <3>1. h'[p].op = "provision" /\ h'[p].name = n /\ h'[p].row = s /\ account'[n] = s
      BY <1>1, <2>4 DEF Staff!ProvisionLoad, Staff!Begin, StaffInv, StaffTyped
    <3> QED BY <3>1 DEF FlightFirst, UnseenBut
  <2> QED BY <2>1, <2>2, <2>3, <2>4
<1> QED BY <1>2, <1>3, <1>4, SoloSame

(* Nobody is served by another row after a commit. *)
LEMMA SoloStays ==
    ASSUME Staff!LoginsAssumption, StaffSoloInv, OneHandler, [Staff!Next]_(Staff!vars)
    PROVE  StaffSoloInv'
<1>0. PICK p : Handlers = {p}
  BY DEF OneHandler
<1>1. StaffInv /\ StaffInv' /\ p \in Handlers
  BY <1>0, StaffStays DEF StaffSoloInv
<1> DEFINE Ended == /\ h' = [h EXCEPT ![p] = Staff!Idle] /\ UNCHANGED <<account, issued>>
<1>2. ASSUME Ended PROVE InUseBack /\ \A q \in Handlers : FlightFirst(h[q])'
  <2>1. InUseBack /\ \A q \in Handlers : h'[q] = Staff!Idle
    BY <1>0, <1>1, <1>2, InUseSame DEF StaffInv, StaffTyped
  <2> QED BY <2>1 DEF FlightFirst, Staff!Idle
<1> HIDE DEF Ended
<1>3. CASE UNCHANGED Staff!vars
  <2>1. UNCHANGED <<account, issued, user, emp, sold, h>>
    BY <1>3 DEF Staff!vars
  <2>2. ASSUME NEW q \in Handlers PROVE FlightFirst(h[q])'
    <3>1. PICK r : r = h[q]
      OBVIOUS
    <3>2. FlightFirst(r)'
      BY <2>1, <3>1, FlightFirstSame DEF StaffSoloInv
    <3> QED BY <2>1, <3>1, <3>2
  <2> QED BY <1>1, <2>1, <2>2, InUseSame, SoloSame
<1>4. CASE Staff!Restart
  <2>1. /\ UNCHANGED <<account, issued, emp, sold>> /\ \A q \in Handlers : h'[q] = Staff!Idle
        /\ user' = user \/ user' = [user EXCEPT ![SeedRow] = Staff!Seeded]
    BY <1>4 DEF Staff!Restart
  <2>2. ASSUME NEW s \in Subs, NEW r \in Staff!Ids, InUse(s), Serves(s, r) PROVE Serves(s, r)'
    <3>1. s \notin Staff!Known /\ r = SeedRow => s = SeedSub
      BY <1>1, <2>2, KeyIsOf DEF Serves, InUse
    <3> QED BY <1>1, <1>4, <2>2, <3>1, ServesRestart
  <2>3. \A j \in Staff!Known : user'[j].name = user[j].name \/ user'[j].name \in Names
    BY <1>1, <2>1, StaffAssumed DEF StaffInv, StaffTyped, Staff!Known, Staff!Seeded
  <2>4. \A q \in Handlers : FlightFirst(h[q])'
    BY <2>1 DEF FlightFirst, Staff!Idle
  <2> QED BY <1>1, <2>1, <2>2, <2>3, <2>4, InUseSame, SoloKeeps
<1>5. ASSUME NEW n \in Names, NEW s \in Subs, Staff!Account(n, s) PROVE StaffSoloInv'
  BY <1>5, AccountKeepsSolo
<1>6. ASSUME NEW e \in Emps, Staff!Unlink(e) PROVE StaffSoloInv'
  <2>1. UNCHANGED <<account, issued, user, sold, h>> /\ emp' = [emp EXCEPT ![e] = None]
    BY <1>6 DEF Staff!Unlink
  <2>2. ASSUME NEW q \in Handlers PROVE FlightFirst(h[q])'
    <3>1. PICK r : r = h[q]
      OBVIOUS
    <3>2. FlightFirst(r)'
      BY <2>1, <3>1, FlightFirstSame DEF StaffSoloInv
    <3> QED BY <2>1, <3>1, <3>2
  <2>3. ASSUME NEW f \in Emps PROVE emp'[f] = emp[f] \/ LinkFirst(emp[f])'
    BY <1>1, <2>1 DEF StaffInv, StaffTyped, LinkFirst
  <2> QED BY <1>1, <2>1, <2>2, <2>3, InUseSame, SoloSame
<1>7. ASSUME NEW n \in Names,
             \/ Staff!SaleLoad(p, n) \/ Staff!HealLoad(p, n)
             \/ \E e \in Emps : Staff!LinkLoad(p, e, n) \/ \E s \in Subs : Staff!ProvisionLoad(p, e, n, s)
      PROVE  StaffSoloInv'
  BY <1>0, <1>7, SoloRequests
<1>8. ASSUME NEW x \in Sales, Staff!SaleCommit(p, x) PROVE StaffSoloInv'
  <2>1. /\ h[p].op = "sale" /\ Staff!Rung(x, h[p].by, h[p].row) /\ UNCHANGED <<user, emp>> /\ Ended
    BY <1>8 DEF Staff!SaleCommit, Staff!Finish, Ended
  <2>2. PICK s, r : s = h[p].by /\ r = h[p].row
    OBVIOUS
  <2>3. Serves(s, r)'
    BY <1>1, <2>1, <2>2, ServesSame DEF StaffSoloInv, FlightFirst
  <2>4. ASSUME NEW y \in Sales PROVE sold'[y] = sold[y] \/ SoldFirst(sold[y])'
    <3>1. sold'[y] = sold[y] \/ (sold'[y].by = s /\ sold'[y].cashier = r)
      BY <1>1, <2>1, <2>2 DEF Staff!Rung, StaffInv, StaffTyped
    <3> QED BY <2>3, <3>1 DEF SoldFirst
  <2>5. \A t \in Subs, k \in Staff!Ids : Serves(t, k) => Serves(t, k)'
    BY <2>1, ServesSame
  <2> QED BY <1>1, <1>2, <2>1, <2>4, <2>5, SoloKeeps
<1>9. ASSUME NEW x \in Sales, Staff!FirstSaleCommit(p, x) PROVE StaffSoloInv'
  <2>1. PICK i, row : i = h[p].row /\ row = h[p].as
    OBVIOUS
  <2>2. /\ i \in Subs /\ i \in Staff!Ids /\ row \in LoginRows /\ h[p].by = i
        /\ i \notin Staff!Known /\ Staff!Rung(x, i, i) /\ UNCHANGED emp
        /\ user' = [user EXCEPT ![i] = row] /\ Ended
    BY <1>1, <1>9, <2>1, StaffRequest, StaffAssumed
       DEF Staff!FirstSaleCommit, Staff!Finish, StaffInv, Flight, Ended
  <2>3. /\ user'[i] = row /\ \A j \in Staff!Ids : j # i => user'[j] = user[j]
        /\ Staff!Known' = Staff!Known \cup {i}
    BY <1>1, <2>2, StaffAssumed DEF StaffInv, StaffTyped, Staff!Known
  <2>4. ASSUME NEW y \in Sales PROVE sold'[y] = sold[y] \/ SoldFirst(sold[y])'
    <3>1. sold'[y] = sold[y] \/ (sold'[y].by = i /\ sold'[y].cashier = i)
      BY <1>1, <2>2 DEF Staff!Rung, StaffInv, StaffTyped
    <3>2. Serves(i, i)'
      BY <2>3 DEF Serves
    <3> QED BY <3>1, <3>2 DEF SoldFirst
  <2>5. \A s \in Subs, r \in Staff!Ids : Serves(s, r) => Serves(s, r)'
    BY <1>1, <1>9, ServesFirst
  <2>6. \A j \in Staff!Known : user'[j].name = user[j].name
    BY <1>1, <2>2, <2>3, SettledKnown
  <2> QED BY <1>1, <1>2, <2>2, <2>4, <2>5, <2>6, SoloKeeps
<1>10. ASSUME Staff!HealCommit(p) PROVE StaffSoloInv'
  <2>1. ASSUME NEW s \in Subs, NEW r \in Staff!Ids, InUse(s), Serves(s, r) PROVE Serves(s, r)'
    <3>1. ASSUME s \notin Staff!Known, r = h[p].row PROVE h[p].kc = s
      <4>1. /\ r \in Staff!Known /\ user[r].kc = s
            /\ IF r \in Subs THEN issued[r] = h[p].seen.name ELSE user[r].name = h[p].seen.name
        BY <1>1, <1>10, <2>1, <3>1, Healed DEF Serves, StaffInv, Flight
      <4>2. issued[s] = h[p].seen.name
        BY <1>1, <4>1, KeyIsOf
      <4>3. UnseenBut(issued[s], h[p].kc)
        BY <1>1, <1>10, <4>2, Healed DEF StaffSoloInv, FlightFirst
      <4> QED BY <2>1, <4>1, <4>3 DEF UnseenBut, InUse, Staff!Keyed
    <3> QED BY <1>1, <1>10, <2>1, <3>1, ServesHeal
  <2>2. Ended /\ UNCHANGED <<emp, sold>>
    BY <1>1, <1>10, Healed DEF Ended
  <2>3. \A j \in Staff!Known : user'[j].name = user[j].name
    BY <1>1, <1>10, Healed, SettledKnown
  <2> QED BY <1>1, <1>2, <2>1, <2>2, <2>3, SoloKeeps
<1>11. ASSUME Staff!LinkCommit(p) PROVE StaffSoloInv'
  <2>1. PICK i, as : i = h[p].row /\ as = h[p].as
    OBVIOUS
  <2>2. /\ h[p].op = "link" /\ i \in Staff!Ids /\ as \in LoginRows \cup {Staff!NoUser} /\ h[p].emp \in Emps
        /\ user' = IF as # Staff!NoUser THEN [user EXCEPT ![i] = as] ELSE user
        /\ as # Staff!NoUser => i \notin Staff!Known /\ as.name \in Names
        /\ emp' = [emp EXCEPT ![h[p].emp] = i]
        /\ Ended /\ UNCHANGED sold
    BY <1>1, <1>11, <2>1, StaffRequest DEF Staff!LinkCommit, Staff!Finish, StaffInv, Flight, Ended
  <2>3. \A j \in Staff!Known : user'[j] = user[j]
    BY <1>1, <2>2 DEF StaffInv, StaffTyped, Staff!Known
  <2>4. user'[i].name \in Names
    <3>1. CASE as = Staff!NoUser
      BY <1>1, <2>1, <2>2, <3>1 DEF StaffSoloInv, FlightFirst
    <3>2. CASE as # Staff!NoUser
      BY <1>1, <2>2, <3>2 DEF StaffInv, StaffTyped
    <3> QED BY <3>1, <3>2
  <2>5. ASSUME NEW e \in Emps PROVE emp'[e] = emp[e] \/ LinkFirst(emp[e])'
    BY <1>1, <2>2, <2>4 DEF StaffInv, StaffTyped, LinkFirst
  <2>6. \A s \in Subs, r \in Staff!Ids : Serves(s, r) => Serves(s, r)'
    BY <1>1, <1>11, ServesLink
  <2> QED BY <1>1, <1>2, <2>2, <2>3, <2>5, <2>6, SoloKeeps
<1>12. ASSUME Staff!ProvisionCommit(p) PROVE StaffSoloInv'
  <2>1. PICK i, n, stale : Provision(p, i, n, stale)
    BY <1>1, <1>12, Provisioned
  <2> USE DEF Provision
  <2>2. ASSUME NEW s \in Subs, NEW r \in Staff!Ids, InUse(s), Serves(s, r), r \in Staff!Known' PROVE Serves(s, r)'
    <3>1. ASSUME s \notin Staff!Known, r = i PROVE FALSE
      <4>1. r \in Staff!Known /\ user[r].kc = s
        BY <2>2, <3>1 DEF Serves
      <4>2. issued[s] = n /\ s # i
        BY <1>1, <2>1, <3>1, <4>1, KeyIsOf
      <4>3. UnseenBut(n, i)
        BY <1>1, <2>1 DEF StaffSoloInv, FlightFirst
      <4> QED BY <2>2, <4>1, <4>2, <4>3 DEF UnseenBut, InUse, Staff!Keyed
    <3> QED BY <1>1, <1>12, <2>1, <2>2, <3>1, ServesProvision
  <2>3. \A j \in Staff!Known : user'[j].name = user[j].name \/ user'[j].name \in Names \/ j \notin Staff!Known'
    BY <1>1, <2>1, SettledKnown
  <2>4. ASSUME NEW y \in Sales PROVE sold'[y] = sold[y] \/ SoldFirst(sold[y])'
    BY <2>1 DEF SoldFirst
  <2>5. ASSUME NEW e \in Emps PROVE emp'[e] = emp[e] \/ LinkFirst(emp[e])'
    BY <2>1 DEF LinkFirst
  <2>6. Ended
    BY <2>1 DEF Ended
  <2> QED BY <1>1, <1>2, <2>2, <2>3, <2>4, <2>5, <2>6, SoloKeeps
<1>13. ASSUME Staff!Abort(p) PROVE StaffSoloInv'
  BY <1>1, <1>2, <1>13, SoloSame DEF Staff!Abort, Ended
<1> QED BY <1>0, <1>3, <1>4, <1>5, <1>6, <1>7, <1>8, <1>9, <1>10, <1>11, <1>12, <1>13 DEF Staff!Next

LEMMA SoloShows ==
    ASSUME Staff!LoginsAssumption, StaffSoloInv
    PROVE  Staff!SalesOnOneRow /\ Staff!ActsForLinked
<1>1. StaffInv
  BY DEF StaffSoloInv
<1>2. ASSUME NEW x \in Sales, sold[x].state = "rung", sold[x].by \in Staff!Current
      PROVE  Staff!Resolved(sold[x].by) = {sold[x].cashier}
  <2>1. PICK n \in Names : account[n] # None /\ (n = SeedName => account[n] = SeedSub) /\ sold[x].by = account[n]
    BY <1>2 DEF Staff!Current
  <2>2. sold[x].by \in Subs /\ InUse(sold[x].by)
    BY <1>1, <2>1, StaffAssumed DEF InUse, StaffInv, StaffTyped, AccountsInv
  <2>3. Serves(sold[x].by, sold[x].cashier)
    BY <1>2, <2>2 DEF StaffSoloInv, SoldFirst
  <2> QED BY <1>1, <2>2, <2>3, ResolvedServes
<1>3. ASSUME NEW n \in Names, NEW e \in Emps, account[n] # None, e \in Staff!ByName(n)
      PROVE  Staff!ByName(n) = {e} /\ Staff!ByKey(account[n]) \subseteq {e}
  <2> DEFINE r == emp[e]
             s == account[n]
  <2>1. r \in Staff!Known /\ user[r].name = n /\ s \in Subs /\ issued[s] = n
    BY <1>1, <1>3 DEF Staff!ByName, Staff!LinkedTo, Staff!Named, StaffInv, StaffTyped, AccountsInv
  <2>2. r # None
    BY <2>1, StaffAssumed DEF Staff!Known
  <2>3. \A f \in Emps : emp[f] = r => f = e
    BY <1>1, <2>2 DEF StaffInv, LinksInv
  <2>4. \A k \in Staff!Known : user[k].name = n => k = r
    BY <1>1, <2>1 DEF StaffInv, UsersInv
  <2>5. Staff!ByName(n) = {e}
    BY <1>3, <2>3, <2>4 DEF Staff!ByName, Staff!LinkedTo, Staff!Named
  <2>6. ASSUME NEW f \in Staff!ByKey(s) PROVE f = e
    <3>1. f \in Emps /\ emp[f] \in Staff!Known /\ user[emp[f]].kc = s
      BY <2>6 DEF Staff!ByKey, Staff!LinkedTo, Staff!Keyed
    <3>2. user[emp[f]].name \in Names /\ Owned(emp[f], user[emp[f]])
      BY <1>1, <3>1, StaffAssumed DEF StaffSoloInv, LinkFirst, StaffInv, UsersInv, Staff!Known
    <3>3. user[emp[f]].name = n
      <4>1. CASE emp[f] \notin Subs
        BY <1>1, <2>1, <3>1, <4>1, KeyIsOf
      <4>2. CASE emp[f] \in Subs
        <5>1. issued[emp[f]] = n
          BY <1>1, <2>1, <3>1, <4>2, KeyIsOf
        <5> QED BY <3>2, <4>2, <5>1, StaffAssumed DEF Owned
      <4> QED BY <4>1, <4>2
    <3> QED BY <2>3, <2>4, <3>1, <3>3
  <2> QED BY <2>5, <2>6
<1> QED BY <1>2, <1>3 DEF Staff!SalesOnOneRow, Staff!OnOneRow, Staff!ActsForLinked, Staff!ActFor

(* One request at a time: everything a person sold is on one row, over links, new accounts,
   restarts and deleted rows, whatever the numbers of persons, accounts and employees.
   (_resolve_cashier_uid.) *)
THEOREM SalesOnOneRowHolds ==
    ASSUME Staff!LoginsAssumption, OneHandler
    PROVE  Staff!Spec => []Staff!SalesOnOneRow
BY SoloBegins, SoloStays, SoloShows, PTL DEF Staff!Spec

(* And whoever is linked to a username is who its account's requests are of.
   (get_employee_from_token, link_employee_login, provision_login.) *)
THEOREM ActsForLinkedHolds ==
    ASSUME Staff!LoginsAssumption, OneHandler
    PROVE  Staff!Spec => []Staff!ActsForLinked
BY SoloBegins, SoloStays, SoloShows, PTL DEF Staff!Spec
-----------------------------------------------------------------------------
(***************************************************************************)
(* The invariants together: what each has of its desk at the start, over   *)
(* any step, and to show.                                                  *)
(***************************************************************************)
LEMMA InvsBegin ==
    /\ Register!ShiftsAssumption /\ Register!Init => ShiftsInv
    /\ Board!TicketsAssumption /\ Board!Init => TriageInv
    /\ Calendar!BookingsAssumption /\ Calendar!Init => CalendarInv
    /\ Labels!Init => LabelsInv
    /\ Jobs!WorkshopAssumption /\ Jobs!Init => JobInv /\ SoloInv
    /\ Staff!LoginsAssumption /\ Staff!Init => StaffSoloInv /\ SettledInv
BY ShiftsInit, TriageInit, CalendarInit, LabelsBegin, JobInit, SoloInit, SoloBegins, SettledBegins

LEMMA InvsStay ==
    /\ Register!ShiftsAssumption /\ ShiftsInv /\ [Register!Next]_(Register!vars) => ShiftsInv'
    /\ OneHandler /\ Board!TicketsAssumption /\ TriageInv /\ [Board!Next]_(Board!vars) => TriageInv'
    /\ OneHandler /\ Calendar!BookingsAssumption /\ CalendarInv /\ [Calendar!Next]_(Calendar!vars)
       => CalendarInv'
    /\ Labels!BarcodesAssumption /\ LabelsInv /\ [Labels!Next]_(Labels!vars)
       => LabelsInv' /\ Labels!KeepsScanning
    /\ Jobs!WorkshopAssumption /\ JobInv /\ [Jobs!Next]_(Jobs!vars) => JobInv'
    /\ OneHandler /\ Jobs!WorkshopAssumption /\ SoloInv /\ [Jobs!Next]_(Jobs!vars)
       => SoloInv' /\ Jobs!ClearedStep
    /\ OneHandler /\ Staff!LoginsAssumption /\ StaffSoloInv /\ [Staff!Next]_(Staff!vars)
       => StaffSoloInv'
    /\ Staff!LoginsAssumption /\ SettledInv /\ [Staff!Next]_(Staff!vars) => SettledInv'
BY ShiftsNext, TriageNext, CalendarStaysFree, LabelsStay, LabelsKeepScanning, JobNextKeeps,
   SoloNext, ClearedByLast, SoloStays, SettledStays

LEMMA InvsShow ==
    /\ Register!ShiftsAssumption /\ ShiftsInv => Register!OnShiftPerStart
    /\ OneHandler /\ Register!ShiftsAssumption /\ ShiftsInv => Register!OnShiftOnce
    /\ TriageInv => Board!TriagedOnce
    /\ CalendarInv => Calendar!NoDoubleBooking
    /\ JobInv => Jobs!NeverOverstated
    /\ SoloInv => Jobs!DepositAsAgreed
    /\ Staff!LoginsAssumption /\ StaffSoloInv => Staff!SalesOnOneRow /\ Staff!ActsForLinked
    /\ Staff!LoginsAssumption /\ SettledInv => Staff!SettledStay
BY ShiftsShow, ShiftsOnce, DueOnce, JobShows, SoloShows, SettledShows DEF CalendarInv, SoloInv
=============================================================================
