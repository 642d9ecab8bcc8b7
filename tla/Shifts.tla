------------------------------- MODULE Shifts -------------------------------
(***************************************************************************)
(* Shift sessions of the till (routes/pos_router.py, "SHIFT SESSION        *)
(* WIZARD"): who is on the register.  Nothing but the handlers keeps a     *)
(* person from having two active sessions, and a query that finds two      *)
(* raises (scalar_one_or_none).                                            *)
(***************************************************************************)
EXTENDS Integers, FiniteSets

CONSTANTS Handlers, \* requests in flight
          People,   \* users of the till
          Sessions, \* bound: rows of shift_sessions
          Nobody

(* What the constants have to satisfy: Desks assumes it of its instances. *)
ShiftsAssumption == Nobody \notin People /\ IsFiniteSet(Handlers)

VARIABLES session, \* shift_sessions
          h        \* the handlers

vars == <<session, h>>

Idle == [op |-> "none"]
SessionStatus == {"active", "ended", "force_ended", "handed_off"}
NoSession == [status |-> "unused", user |-> Nobody, to |-> Nobody]

Init == /\ session = [s \in Sessions |-> NoSession]
        /\ h = [p \in Handlers |-> Idle]

Active(u) == {s \in Sessions : session[s].user = u /\ session[s].status = "active"}

Begin(p, rest) == h[p] = Idle /\ h' = [h EXCEPT ![p] = rest] /\ UNCHANGED session
Finish(p, op) == h[p].op = op /\ h' = [h EXCEPT ![p] = Idle]
-----------------------------------------------------------------------------
(* start_shift_session: one who is active stays so, one who is not, as read... *)
StartLoad(p, u) ==
    /\ Active(u) = {}
    /\ Begin(p, [op |-> "start", user |-> u])

(* ...gets a session. *)
StartCommit(p, s) ==
    /\ Finish(p, "start")
    /\ session[s].status = "unused"
    /\ session' = [session EXCEPT ![s] = [status |-> "active", user |-> h[p].user, to |-> Nobody]]

(* end_shift_session: the one session of the user... *)
EndLoad(p, u) ==
    \E s \in Sessions : /\ Active(u) = {s}
                        /\ Begin(p, [op |-> "end", id |-> s, status |-> "ended", to |-> Nobody])

(* ...force_end_session and handoff_shift: any active one, by its id... *)
ForceLoad(p, s) ==
    /\ session[s].status = "active"
    /\ Begin(p, [op |-> "end", id |-> s, status |-> "force_ended", to |-> Nobody])

HandoffLoad(p, s, u) ==
    /\ session[s].status = "active"
    /\ Begin(p, [op |-> "end", id |-> s, status |-> "handed_off", to |-> u])

(* ...ends, whatever has ended it since.  Only a hand-off writes handed_off_to. *)
EndCommit(p) ==
    /\ Finish(p, "end")
    /\ session' = [session EXCEPT ![h[p].id].status = h[p].status,
                                  ![h[p].id].to = IF h[p].to = Nobody THEN @ ELSE h[p].to]

(* An error or a crash. *)
Abort(p) == h[p] # Idle /\ h' = [h EXCEPT ![p] = Idle] /\ UNCHANGED session

Next ==
    \E p \in Handlers :
        \/ \E u \in People : StartLoad(p, u) \/ EndLoad(p, u)
        \/ \E s \in Sessions : \/ StartCommit(p, s) \/ ForceLoad(p, s)
                               \/ \E u \in People : HandoffLoad(p, s, u)
        \/ EndCommit(p) \/ Abort(p)

Spec == Init /\ [][Next]_vars
-----------------------------------------------------------------------------
(* Every column holds what it may hold. *)
TypeOK == session \in [Sessions -> [status : {"unused"} \cup SessionStatus,
                                    user : People \cup {Nobody}, to : People \cup {Nobody}]]

(* One handler: whoever starts, ends, is forced out or handed over from, nobody is on shift
   twice.  (start_shift_session.) *)
OnShiftOnce == \A u \in People : Cardinality(Active(u)) <= 1

(* However handlers interleave, a person is on shift at most once for every start in flight
   at a time: no later start makes it more.  (start_shift_session.) *)
OnShiftPerStart == \A u \in People : Cardinality(Active(u)) <= Cardinality(Handlers)
=============================================================================
