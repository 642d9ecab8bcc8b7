------------------------------- MODULE Members -------------------------------
(***************************************************************************)
(* Loyalty members and their credit ledger (routes/customer_router.py):    *)
(* enrolment with and without a referrer, profile bonuses, adjustments.    *)
(* Sales earn points elsewhere (SaleRing, Cart).                           *)
(*                                                                         *)
(* Every bonus is one credit.  Of the ledger, what its positive and its    *)
(* negative rows add up to, and the balance the last row of a member says. *)
(***************************************************************************)
EXTENDS Integers, FiniteSets, Rows

CONSTANTS Handlers,  \* requests in flight
          Persons,   \* bound: rows of customers
          Fields,    \* the profile fields that pay a bonus
          MaxCredits \* bound: credits ever earned by a member

(* What the bounds have to satisfy: Desks assumes it of its instances. *)
MembersAssumption == MaxCredits \in Nat /\ IsFiniteSet(Fields)

VARIABLES member, \* customers
          ledger, \* credit_transactions
          h       \* the handlers

vars == <<member, ledger, h>>

Idle == [op |-> "none"]
NoMember == [state |-> "unused", balance |-> 0, earned |-> 0, spent |-> 0, referrals |-> 0,
             fields |-> {}]
NoRows == [plus |-> 0, minus |-> 0, last |-> 0]

Init == /\ member = [m \in Persons |-> NoMember]
        /\ ledger = [m \in Persons |-> NoRows]
        /\ h = [p \in Handlers |-> Idle]

Known == {m \in Persons : member[m].state # "unused"}

(* A ledger row of n credits that says the balance is `after`. *)
Logged(row, n, after) ==
    [plus |-> row.plus + (IF n > 0 THEN n ELSE 0), minus |-> row.minus + (IF n < 0 THEN -n ELSE 0),
     last |-> after]

(* The row with n more credits earned. *)
Paid(row, n) == [row EXCEPT !.balance = @ + n, !.earned = @ + n]
-----------------------------------------------------------------------------
(* create_customer: someone new... *)
Enrol(p, m, filled) ==
    /\ h[p] = Idle
    /\ member[m].state = "unused"
    /\ LET n == 1 + Cardinality(filled)
       IN /\ n <= MaxCredits
          /\ member' = [member EXCEPT ![m] = [Paid(NoMember, n) EXCEPT !.state = "active",
                                              !.fields = filled]]
          /\ ledger' = [ledger EXCEPT ![m] = Logged(NoRows, n, n)]
    /\ UNCHANGED h

(* ...or brought by a member, who is read... *)
ReferLoad(p, r) ==
    /\ h[p] = Idle
    /\ r \in Known
    /\ h' = [h EXCEPT ![p] = [op |-> "refer", id |-> r, seen |-> member[r]]]
    /\ UNCHANGED <<member, ledger>>

(* Mutant: the referrer's reward is logged for the newcomer. *)
ReferCommitMisfiled(p, m, filled) ==
    /\ h[p].op = "refer"
    /\ member[m].state = "unused"
    /\ LET n == 2 + Cardinality(filled)
           new == [Paid(h[p].seen, 1) EXCEPT !.referrals = @ + 1]
       IN /\ {n, new.earned} \subseteq 0 .. MaxCredits
          /\ member' = [member EXCEPT ![m] = [Paid(NoMember, n) EXCEPT !.state = "active",
                                              !.fields = filled],
                                      ![h[p].id] = Flushed(@, h[p].seen, new)]
          /\ ledger' = [ledger EXCEPT ![m] = Logged(Logged(NoRows, n, n), 1, n)]
    /\ h' = [h EXCEPT ![p] = Idle]

(* ...and rewarded in the same commit. *)
ReferCommit(p, m, filled) ==
    /\ h[p].op = "refer"
    /\ member[m].state = "unused"
    /\ LET n == 2 + Cardinality(filled)
           new == [Paid(h[p].seen, 1) EXCEPT !.referrals = @ + 1]
       IN /\ {n, new.earned, ledger[h[p].id].plus + 1} \subseteq 0 .. MaxCredits
          /\ member' = [member EXCEPT ![m] = [Paid(NoMember, n) EXCEPT !.state = "active",
                                              !.fields = filled],
                                      ![h[p].id] = Flushed(@, h[p].seen, new)]
          /\ ledger' = [ledger EXCEPT ![m] = Logged(NoRows, n, n),
                                      ![h[p].id] = Logged(@, 1, new.balance)]
    /\ h' = [h EXCEPT ![p] = Idle]
-----------------------------------------------------------------------------
Load(p, op, m) ==
    /\ h[p] = Idle
    /\ m \in Known
    /\ h' = [h EXCEPT ![p] = [op |-> op, id |-> m, seen |-> member[m]]]
    /\ UNCHANGED <<member, ledger>>

Save(p, op, new) ==
    /\ h[p].op = op
    /\ member' = [member EXCEPT ![h[p].id] = Flushed(@, h[p].seen, new)]
    /\ h' = [h EXCEPT ![p] = Idle]

(* update_customer: each field that was empty and is not pays its bonus, again if it
   was emptied before. *)
Update(p, filled) ==
    LET n == Cardinality(filled \ h[p].seen.fields)
        new == [Paid(h[p].seen, n) EXCEPT !.fields = filled]
    IN /\ h[p].op = "update"
       /\ ledger[h[p].id].plus + n <= MaxCredits
       /\ Save(p, "update", new)
       /\ ledger' = IF n = 0 THEN ledger
                    ELSE [ledger EXCEPT ![h[p].id] = Logged(@, n, new.balance)]

(* deactivate_customer, reactivate_customer: whatever the member is. *)
SetState(p, s) ==
    /\ h[p].op = "state"
    /\ Save(p, "state", [h[p].seen EXCEPT !.state = s])
    /\ UNCHANGED ledger

(* add_credits: not below zero. *)
Adjust(p, n) ==
    LET new == IF n > 0 THEN Paid(h[p].seen, n)
               ELSE [h[p].seen EXCEPT !.balance = @ + n, !.spent = @ - n]
    IN /\ h[p].op = "adjust"
       /\ new.balance >= 0
       /\ {ledger[h[p].id].plus + n, ledger[h[p].id].minus - n} \subseteq -MaxCredits .. MaxCredits
       /\ Save(p, "adjust", new)
       /\ ledger' = [ledger EXCEPT ![h[p].id] = Logged(@, n, new.balance)]

(* An error, a value another member has, or a crash. *)
Abort(p) ==
    /\ h[p] # Idle
    /\ h' = [h EXCEPT ![p] = Idle]
    /\ UNCHANGED <<member, ledger>>

Next ==
    \E p \in Handlers :
        \/ \E m \in Persons :
              \/ \E f \in SUBSET Fields : Enrol(p, m, f) \/ ReferCommit(p, m, f)
              \/ ReferLoad(p, m)
              \/ \E op \in {"update", "state", "adjust"} : Load(p, op, m)
        \/ \E f \in SUBSET Fields : Update(p, f)
        \/ \E s \in {"active", "inactive"} : SetState(p, s)
        \/ \E n \in -MaxCredits .. MaxCredits : Adjust(p, n)
        \/ Abort(p)

Spec == Init /\ [][Next]_vars
-----------------------------------------------------------------------------
(* Every column holds what it may hold, and a handler a row it has read. *)
TypeOK ==
    /\ member \in [Persons -> [state : {"unused", "active", "inactive"}, balance : Int, earned : Nat,
                               spent : Nat, referrals : Nat, fields : SUBSET Fields]]
    /\ ledger \in [Persons -> [plus : Nat, minus : Nat, last : Int]]
    /\ \A p \in Handlers : h[p] # Idle => h[p].id \in Known

(* One handler: "Balance calculated from running sum": every member's balance is the sum
   of the ledger and what its last row says, and the totals are the two sides of it,
   through referrals, bonuses and adjustments.  (CreditTransactionModel.) *)
LedgerIsBalance ==
    \A m \in Persons : /\ member[m].balance = ledger[m].plus - ledger[m].minus
                       /\ member[m].earned = ledger[m].plus /\ member[m].spent = ledger[m].minus
                       /\ ledger[m].last = member[m].balance

(* However handlers interleave, no balance goes below zero, and no total counts a credit
   the ledger does not: it may miss one, which another handler overwrote.
   (add_credits, create_customer, update_customer.) *)
NeverBelowZero ==
    \A m \in Persons : /\ member[m].balance >= 0
                       /\ member[m].earned <= ledger[m].plus /\ member[m].spent <= ledger[m].minus
=============================================================================
