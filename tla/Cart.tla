-------------------------------- MODULE Cart --------------------------------
(***************************************************************************)
(* The sale in three steps (routes/pos_router.py): a cart is opened, items *)
(* are added one request at a time, checkout completes it; an hourly       *)
(* reaper cancels the empty ones.                                          *)
(*                                                                         *)
(* One cart and one member.  A percentage is 0 or 50, a member's tier      *)
(* is 50.  The class of a product stays as it is.  A closed cash box, a    *)
(* short tender or a declined card end a checkout without a trace.         *)
(***************************************************************************)
EXTENDS Integers, FiniteSets, FiniteSetsExt, Functions, Rows

CONSTANTS Handlers, \* requests in flight, and the reaper
          Coin,     \* the smallest coin, of so many units
          MaxPrice, \* bound: the gross amount of a line
          MaxLines  \* bound: lines of the cart

(* What the bounds have to satisfy: Desks assumes it of its instances. *)
CartAssumption == Coin \in Nat \ {0} /\ MaxPrice \in Nat \ {0} /\ MaxLines \in Nat \ {0}

VARIABLES txn,      \* the row of transactions
          lines,    \* its line_items
          member,   \* the member's lifetime spend and earned credits
          evidence, \* age_check_event: whether a refusal is on record
          h         \* the handlers

vars == <<txn, lines, member, evidence, h>>

Idle == [op |-> "none"]

Init == /\ txn = [status |-> "unused", subtotal |-> 0, total |-> 0, outcome |-> "null",
                  owner |-> FALSE]
        /\ lines = {}
        /\ member = [spend |-> 0, earned |-> 0, points |-> 0]
        /\ evidence = FALSE
        /\ h = [p \in Handlers |-> Idle]

(* Half of an amount, rounded half up. *)
Half(n) == (n + 1) \div 2

(* The class of a product, which an age check or the law on promotions may apply to; a line
   of no product, of a department or a name, has none in what checkout joins. *)
Classes == {"plain", "adult", "restricted"}
Gated == {l \in lines : l.class \in {"adult", "restricted"}}
Eligible == {l \in lines : l.class # "restricted"}
GrossOf(s) == SumFunctionOnSet([l \in s |-> l.gross], s)
NetOf(s) == SumFunctionOnSet([l \in s |-> l.net], s)

(* What is paid of n: a card pays n, cash what coins can, below n or the nearest (_apply_cash_rounding). *)
Payable(n) == {n} \cup {m \in 0 .. n + Coin :
                          /\ m % Coin = 0
                          /\ \/ m <= n /\ n < m + Coin
                             \/ 2 * m <= 2 * n + Coin /\ 2 * n < 2 * m + Coin}

(* create_transaction *)
Open == /\ txn.status = "unused"
        /\ txn' = [txn EXCEPT !.status = "open"]
        /\ UNCHANGED <<lines, member, evidence, h>>

Saw(p) == h[p].seen
Goto(p, next) == h' = [h EXCEPT ![p] = next]
-----------------------------------------------------------------------------
(* add_item_to_transaction: the cart is open... *)
ItemLoad(p) ==
    /\ h[p] = Idle
    /\ txn.status = "open"
    /\ Goto(p, [op |-> "item", seen |-> txn])
    /\ UNCHANGED <<txn, lines, member, evidence>>

(* ...and the line is worth less than its gross when a deal prices it, which only a product
   has.  The cart grows by the gross; the percentage, none on a restricted class or a deal,
   is taken off all of it. *)
ItemCommit(p, gross, net, product, class, half) ==
    /\ h[p].op = "item" /\ Cardinality(lines) < MaxLines
    /\ net < gross => product
    /\ half => class # "restricted" /\ net = gross
    /\ lines' = lines \cup {[num |-> Cardinality(lines) + 1, gross |-> gross, net |-> net,
                             class |-> IF product THEN class ELSE "none", flagged |-> FALSE]}
    /\ LET sum == Saw(p).subtotal + gross
       IN txn' = Flushed(txn, Saw(p), [Saw(p) EXCEPT !.subtotal = sum,
                                                     !.total = IF half THEN Half(sum) ELSE sum])
    /\ Goto(p, Idle)
    /\ UNCHANGED <<member, evidence>>
-----------------------------------------------------------------------------
(* checkout_transaction: an open cart... *)
PayLoad(p) ==
    /\ h[p] = Idle
    /\ txn.status = "open"
    /\ Goto(p, [op |-> "pay", seen |-> txn])
    /\ UNCHANGED <<txn, lines, member, evidence>>

(* ...that is not empty, of a walk-in... *)
WalkIn(p) ==
    /\ h[p].op = "pay" /\ lines # {}
    /\ Goto(p, [op |-> "age", seen |-> Saw(p), total |-> Saw(p).total, was |-> member, owner |-> FALSE])
    /\ UNCHANGED <<txn, lines, member, evidence>>

(* ...or of the member, with the tier's discount on what the lines that are not restricted
   are worth... *)
Attach(p) ==
    /\ h[p].op = "pay" /\ lines # {}
    /\ Goto(p, [op |-> "age", seen |-> Saw(p), was |-> member, owner |-> TRUE,
                total |-> Max({0, Saw(p).total - Half(NetOf(Eligible))})])
    /\ UNCHANGED <<txn, lines, member, evidence>>

(* _assert_age_cleared: on which ground the lines that are there now may be sold, a
   member's only with a member. *)
Cleared(p, basis) ==
    /\ h[p].op = "age"
    /\ basis = "not_required" <=> Gated = {}
    /\ basis \in {"member_dob", "member_confirmed"} => h[p].owner
    /\ Goto(p, [op |-> "clear", seen |-> Saw(p), total |-> h[p].total, was |-> h[p].was,
                owner |-> h[p].owner, basis |-> basis, ids |-> {l.num : l \in Gated}])
    /\ UNCHANGED <<txn, lines, member, evidence>>

(* A refusal is written in a session of its own, or lost; the checkout is over. *)
Refused(p, kept) ==
    /\ h[p].op = "age" /\ Gated # {}
    /\ evidence' = (evidence \/ kept)
    /\ Goto(p, Idle)
    /\ UNCHANGED <<txn, lines, member>>

(* record_age_refusal: at the counter, before any checkout. *)
Counter(p) ==
    /\ h[p] = Idle
    /\ evidence' = TRUE
    /\ UNCHANGED <<txn, lines, member, h>>

(* The sale, with the flag on the lines that were read, and the member's points. *)
PayCommit(p, paid) ==
    /\ h[p].op = "clear" /\ paid \in Payable(h[p].total)
    /\ txn' = Flushed(txn, Saw(p), [Saw(p) EXCEPT !.status = "completed", !.total = paid,
                                    !.outcome = h[p].basis, !.owner = @ \/ h[p].owner])
    /\ lines' = {[l EXCEPT !.flagged = @ \/ l.num \in h[p].ids] : l \in lines}
    /\ member' = IF ~h[p].owner THEN member
                 ELSE [Flushed(member, h[p].was,
                               [h[p].was EXCEPT !.spend = @ + paid, !.earned = @ + paid])
                       EXCEPT !.points = @ + paid]
    /\ Goto(p, Idle)
    /\ UNCHANGED evidence
-----------------------------------------------------------------------------
(* Mutant: the reaper trusts the total. *)
ReapLoadFree(p) ==
    /\ h[p] = Idle
    /\ txn.status = "open" /\ txn.total = 0
    /\ Goto(p, [op |-> "reap", seen |-> txn])
    /\ UNCHANGED <<txn, lines, member, evidence>>

(* reap_stale_open_carts: open for hours, free and without lines, as read. *)
ReapLoad(p) ==
    /\ h[p] = Idle
    /\ txn.status = "open" /\ txn.total = 0 /\ lines = {}
    /\ Goto(p, [op |-> "reap", seen |-> txn])
    /\ UNCHANGED <<txn, lines, member, evidence>>

ReapCommit(p) ==
    /\ h[p].op = "reap"
    /\ txn' = Flushed(txn, Saw(p), [Saw(p) EXCEPT !.status = "cancelled"])
    /\ Goto(p, Idle)
    /\ UNCHANGED <<lines, member, evidence>>

(* An error, a payment that does not come about, a crash. *)
Abort(p) ==
    /\ h[p] # Idle
    /\ Goto(p, Idle)
    /\ UNCHANGED <<txn, lines, member, evidence>>

Grounds == {"not_required", "member_dob", "member_confirmed", "cashier_attest"}

Next ==
    \/ Open
    \/ \E p \in Handlers :
        \/ ItemLoad(p) \/ PayLoad(p) \/ WalkIn(p) \/ Attach(p) \/ Counter(p)
        \/ \E n \in 0 .. MaxPrice : \E m \in {n} \cup 1 .. n, a, f \in BOOLEAN, c \in Classes :
              ItemCommit(p, n, m, a, c, f)
        \/ \E g \in Grounds : Cleared(p, g)
        \/ \E k \in BOOLEAN : Refused(p, k)
        \/ (\E n \in 0 .. MaxLines * MaxPrice + Coin : PayCommit(p, n))
        \/ ReapLoad(p) \/ ReapCommit(p) \/ Abort(p)

Spec == Init /\ [][Next]_vars
-----------------------------------------------------------------------------
Txns == [status : {"unused", "open", "completed", "cancelled"}, subtotal : Nat, total : Nat,
         outcome : {"null"} \cup Grounds, owner : BOOLEAN]

(* Every column holds what it may hold, and a handler a row it has read. *)
TypeOK ==
    /\ txn \in Txns
    /\ lines \subseteq [num : 1 .. MaxLines, gross : 0 .. MaxPrice, net : 0 .. MaxPrice,
                       class : Classes \cup {"none"}, flagged : BOOLEAN]
    /\ member \in [spend : Nat, earned : Nat, points : Nat]
    /\ evidence \in BOOLEAN
    /\ \A p \in Handlers : h[p] # Idle => h[p].seen \in Txns

(* One handler: a cart is charged what its lines cost without their deals, less discounts and
   plus less than a coin; it is never reaped with a line ("never touch a cart that has items or
   any value"); and it is sold with a ground when a line of a product needs one, which just
   those lines remember.  (add_item_to_transaction, checkout_transaction,
   reap_stale_open_carts.) *)
SoldAsFilled ==
    /\ txn.subtotal = GrossOf(lines)
    /\ txn.status # "completed" => txn.total <= txn.subtotal
    /\ txn.status = "cancelled" => lines = {}
    /\ txn.status = "completed" =>
          /\ lines # {} /\ txn.total < txn.subtotal + Coin
          /\ txn.outcome = "not_required" <=> Gated = {}
          /\ \A l \in lines : l.flagged <=> l \in Gated

(* However handlers interleave, a cart charges no more than its lines cost without their deals,
   once it is sold plus less than a coin, and the member's totals count no more than the ledger.
   Both can be less: of two that read the same row the second overwrites the first.
   (add_item_to_transaction, checkout_transaction.) *)
NeverOvercharged ==
    /\ txn.subtotal <= GrossOf(lines)
    /\ txn.total < GrossOf(lines) + (IF txn.status = "open" THEN 1 ELSE Coin)
    /\ member.earned <= member.points
=============================================================================
