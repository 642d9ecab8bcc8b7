------------------------------ MODULE Terminal ------------------------------
(***************************************************************************)
(* A sale that is charged on a card terminal: create_sale of               *)
(* routes/pos_router.py in a shop whose payment_provider is worldline_sim, *)
(* with _capture_terminal_sim, the charge loop of payments/worldline.py    *)
(* and the terminal of payments/mock_terminal.py.                          *)
(*                                                                         *)
(* The rows of a sale are inserted before the terminal is driven, and      *)
(* committed after: meanwhile they are seen by nobody and keep the others  *)
(* with the same key or number waiting.  What the terminal has taken stays *)
(* taken, whatever becomes of the handler.                                 *)
(***************************************************************************)
EXTENDS Integers, FiniteSets, Sequences

CONSTANTS Handlers,
          Baskets, \* client_uuid: a basket keeps its key until it is sold
          Total,   \* of each basket, in cents
          MaxCut   \* bound: handlers that are stopped

(* What the bounds have to satisfy: Desks assumes it of its instances. *)
TerminalAssumption == Total \in [Baskets -> Nat] /\ MaxCut \in Nat

VARIABLES bills,    \* TransactionModel: key and number of the sales
          payments, \* PaymentModel
          captured, \* history: how often the terminal took the money of a basket
          cut,      \* history: handlers that were stopped, and what the terminal had taken for them
          h         \* the handlers

vars == <<bills, payments, captured, cut, h>>

Idle == [pc |-> "idle"]

Init ==
    /\ bills = {} /\ payments = {}
    /\ captured = [k \in Baskets |-> 0] /\ cut = <<>>
    /\ h = [x \in Handlers |-> Idle]

Rows == UNCHANGED <<bills, payments, captured, cut>>
Leave(x) == h' = [h EXCEPT ![x] = Idle]

(* A till posts a basket, again as often as it likes. *)
Post(x, k) ==
    /\ h[x] = Idle
    /\ h' = [h EXCEPT ![x] = [pc |-> "lookup", key |-> k]]
    /\ Rows

(* A key that was rung is answered with its sale; else the number is the next one. *)
Lookup(x) ==
    /\ h[x].pc = "lookup"
    /\ IF \E s \in bills : s.key = h[x].key
       THEN Leave(x)
       ELSE h' = [h EXCEPT ![x] = [pc |-> "insert", key |-> @.key, num |-> Cardinality(bills) + 1]]
    /\ Rows

Holding(x) == h[x].pc \in {"charge", "waiting", "result"}
Clash(s, t) == s.key = t.key \/ s.num = t.num

(* Mutant: the sale is only written when it is paid, as in a shop without a terminal. *)
InsertLast(x) ==
    /\ h[x].pc = "insert"
    /\ h' = [h EXCEPT ![x].pc = "charge"]
    /\ Rows

(* The flush before the charge waits for a row in flight with the same key or number, and
   fails on a committed one: a 500, on which the till keeps basket and key. *)
Insert(x) ==
    /\ h[x].pc = "insert"
    /\ \A y \in Handlers : Holding(y) => ~Clash(h[x], h[y])
    /\ IF \E s \in bills : Clash(h[x], s) THEN Leave(x) ELSE h' = [h EXCEPT ![x].pc = "charge"]
    /\ Rows

(* charge: the terminal answers the first poll, or never does; it refuses to be asked for
   nothing. *)
Charge(x) ==
    LET k == h[x].key
    IN /\ h[x].pc = "charge"
       /\ \/ Total[k] = 0 /\ Leave(x) /\ UNCHANGED captured
          \/ /\ Total[k] > 0
             /\ \E status \in {"approved", "declined", "aborted"} :
                   /\ h' = [h EXCEPT ![x] = [pc |-> "result", key |-> k, num |-> @.num, status |-> status]]
                   /\ captured' = IF status = "approved" THEN [captured EXCEPT ![k] = @ + 1] ELSE captured
          \/ Total[k] > 0 /\ h' = [h EXCEPT ![x].pc = "waiting"] /\ UNCHANGED captured
       /\ UNCHANGED <<bills, payments, cut>>

(* The deadline: the session is cancelled. *)
TimeOut(x) ==
    /\ h[x].pc = "waiting"
    /\ h' = [h EXCEPT ![x] = [pc |-> "result", key |-> @.key, num |-> @.num, status |-> "timeout"]]
    /\ Rows

(* Only an approved payment completes the sale: sale and payment are committed together. *)
Complete(x) ==
    /\ h[x].pc = "result" /\ h[x].status = "approved"
    /\ bills' = bills \cup {[key |-> h[x].key, num |-> h[x].num]}
    /\ payments' = payments \cup {[num |-> h[x].num, amount |-> Total[h[x].key], status |-> h[x].status]}
    /\ Leave(x)
    /\ UNCHANGED <<captured, cut>>

(* 402, and the rows of the attempt are rolled back, the one of the payment too. *)
Decline(x) == h[x].pc = "result" /\ h[x].status # "approved" /\ Leave(x) /\ Rows

(* A restart, or a database that is gone, ends a handler: its rows are rolled back. *)
Cut(x) ==
    /\ h[x] # Idle
    /\ Len(cut) < MaxCut
    /\ Leave(x)
    /\ cut' = Append(cut, h[x])
    /\ UNCHANGED <<bills, payments, captured>>

Next == \E x \in Handlers :
    \/ \E k \in Baskets : Post(x, k)
    \/ Lookup(x)
    \/ Insert(x)
    \/ Charge(x)
    \/ TimeOut(x)
    \/ Complete(x)
    \/ Decline(x)
    \/ Cut(x)

Spec == Init /\ [][Next]_vars
-----------------------------------------------------------------------------
(* The columns of the rows hold what they may hold. *)
TypeOK ==
    /\ \A s \in bills : s.key \in Baskets /\ s.num \in Nat \ {0}
    /\ captured \in [Baskets -> Nat]

Approved(req, k) == req.pc = "result" /\ req.key = k /\ req.status = "approved"

(* With any number of handlers, refusals, timeouts and posts again: the terminal takes the
   money of a basket once, for the one sale it becomes, which has the one payment that says
   so; only a handler that is stopped after the approval loses what the terminal took, and
   has the basket charged again ("a replayed capture adopts the same row instead of
   double-charging").  (create_sale, _capture_terminal_sim, charge.) *)
PaidOnce ==
    /\ \A k \in Baskets :
          LET sold == {s \in bills : s.key = k}
              lost == {i \in DOMAIN cut : Approved(cut[i], k)}
              charged == {x \in Handlers : Approved(h[x], k)}
          IN /\ captured[k] = Cardinality(lost) + Cardinality(sold) + Cardinality(charged)
             /\ Cardinality(sold) + Cardinality(charged) <= 1
    /\ \A s \in bills : {p \in payments : p.num = s.num} =
                        {[num |-> s.num, amount |-> Total[s.key], status |-> "approved"]}
=============================================================================
