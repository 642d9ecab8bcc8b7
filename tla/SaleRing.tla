------------------------------ MODULE SaleRing ------------------------------
(***************************************************************************)
(* POST /pos/sales (create_sale), POST /pos/transactions (which shares its *)
(* number space), the kiosk's held orders, and the till that retries.      *)
(*                                                                         *)
(* A handler is one asyncio task over one database session at READ         *)
(* COMMITTED: every SELECT is a step of its own, everything it writes      *)
(* becomes visible in the single commit, and between any two of its steps  *)
(* every other handler may run.  The ORM writes the values computed from   *)
(* what was read, so a stale read becomes a stale write.                   *)
(***************************************************************************)
EXTENDS Integers, FiniteSets

CONSTANTS Tills,       \* browser tabs running the checkout page
          Reqs,        \* slots for handlers in flight
          Members,     \* loyalty members, each with an unspent welcome discount
          Orders,      \* codes of kiosk held orders
          None,
          LastDay,     \* bound: trading days
          MaxBaskets,  \* bound: baskets one till starts
          MaxEdits,    \* bound: edits of one basket after it was started
          MaxKeyless   \* bound: transactions opened by the legacy path

ASSUME LastDayAssumption == LastDay \in Nat \ {0}
ASSUME BoundsAssumption == /\ MaxBaskets \in Nat
                           /\ MaxEdits \in Nat
                           /\ MaxKeyless \in Nat
ASSUME NoneAssumption == None \notin Tills \cup Reqs \cup Members \cup Orders

VARIABLES today,       \* date.today() of the server
          sales,       \* the committed rows of transactions
          points,      \* customers.credits_balance
          welcomeUsed, \* customers.welcome_discount_used
          ledger,      \* the committed rows of credit_transactions
          orders,      \* kiosk_carts.status, "absent" before the row exists
          owner,       \* kiosk_carts.customer_id
          till,        \* the checkout page and its sessionStorage
          req,         \* the handlers in flight
          answered     \* history: <<key, day, number>> a till was told

db == <<sales, points, welcomeUsed, ledger, orders, owner>>
vars == <<today, db, till, req, answered>>

Days == 1 .. LastDay
Keys == Tills \X (1 .. MaxBaskets)
MaybeMember == Members \cup {None}
MaybeOrder == Orders \cup {None}

(* A basket: which one of its till (gen), how often it was edited, the held
   order it was loaded from, and the member attached. *)
Baskets == [gen : 1 .. MaxBaskets, edits : 0 .. MaxEdits,
            from : MaybeOrder, member : MaybeMember]

(* transactions: the key, the number TXN-<day>-<num>, the held order the sale
   claimed and whether it carried the welcome discount. *)
Sale == [key : Keys \cup {None}, day : Days, num : Nat \ {0},
         member : MaybeMember, order : MaybeOrder, welcome : BOOLEAN,
         basket : Baskets \cup {None}]

ASSUME NullAssumption == None \notin Keys /\ None \notin Baskets /\ None \notin Sale

Credit == [member : Members, key : Keys]

IdleTill == [basket |-> None, key |-> None, code |-> None, waiting |-> None,
             gen |-> 0, drawn |-> 0]

IdleReq == [pc |-> "idle", till |-> None, key |-> None, basket |-> None,
            code |-> None, used |-> FALSE, points |-> 0, day |-> 1, count |-> 0,
            claim |-> FALSE, welcome |-> FALSE, answer |-> None]

RowsOf(d) == {s \in sales : s.day = d}
RungWith(k) == {s \in sales : s.key = k}

Init == /\ today = 1
        /\ sales = {}
        /\ points = [m \in Members |-> 0]
        /\ welcomeUsed = [m \in Members |-> FALSE]
        /\ ledger = {}
        /\ orders = [o \in Orders |-> "absent"]
        /\ owner = [o \in Orders |-> None]
        /\ till = [t \in Tills |-> IdleTill]
        /\ req = [r \in Reqs |-> IdleReq]
        /\ answered = {}
-----------------------------------------------------------------------------
(* The kiosk: a guest saves a basket under a code, signed up or not. *)
KioskUpsert(o, m) ==
    /\ orders[o] # "claimed"
    /\ orders' = [orders EXCEPT ![o] = "open"]
    /\ owner' = [owner EXCEPT ![o] = IF m = None THEN @ ELSE m]
    /\ UNCHANGED <<today, sales, points, welcomeUsed, ledger, till, req, answered>>

(* The held-orders board: take an order off the board by hand. *)
CartClaim(o) ==
    /\ orders[o] # "absent"
    /\ orders' = [orders EXCEPT ![o] = "claimed"]
    /\ UNCHANGED <<today, sales, points, welcomeUsed, ledger, owner, till, req, answered>>

-----------------------------------------------------------------------------
(* The till.  sessionStorage holds the key and the held order's code; both
   survive everything but the removals below. *)
AtRest(t) == till[t].waiting = None

StartBasket(t, m) ==
    /\ AtRest(t)
    /\ till[t].basket = None
    /\ till[t].gen < MaxBaskets
    /\ till' = [till EXCEPT ![t] = [till[t] EXCEPT
          !.gen = @ + 1,
          !.basket = [gen |-> till[t].gen + 1, edits |-> 0, from |-> None, member |-> m]]]
    /\ UNCHANGED <<today, db, req, answered>>

(* Load a held order into the checkout: fresh key, the order's code kept for
   the server.  The board the cashier taps on may be older than the claim. *)
RingOut(t, o) ==
    /\ AtRest(t)
    /\ orders[o] # "absent"
    /\ till[t].gen < MaxBaskets
    /\ till' = [till EXCEPT ![t] = [till[t] EXCEPT
          !.gen = @ + 1,
          !.basket = [gen |-> till[t].gen + 1, edits |-> 0, from |-> o, member |-> owner[o]],
          !.key = None,
          !.code = o]]
    /\ UNCHANGED <<today, db, req, answered>>

(* Back to the scan page and change the basket: the key stays. *)
Edit(t) ==
    /\ AtRest(t)
    /\ till[t].basket # None
    /\ till[t].basket.edits < MaxEdits
    /\ till' = [till EXCEPT ![t].basket.edits = @ + 1]
    /\ UNCHANGED <<today, db, req, answered>>

(* "Start fresh": basket, member and key are dropped, the held order's code
   is not. *)
ClearCart(t) ==
    /\ AtRest(t)
    /\ till[t].basket # None
    /\ till' = [till EXCEPT ![t] = [till[t] EXCEPT !.basket = None, !.key = None]]
    /\ UNCHANGED <<today, db, req, answered>>

(* saleUuid(): the persisted key, or a fresh one. *)
SaleKey(t) == IF till[t].key = None THEN <<t, till[t].drawn + 1>> ELSE till[t].key

Submit(t, r) ==
    /\ AtRest(t)
    /\ till[t].basket # None
    /\ req[r].pc = "idle"
    /\ SaleKey(t) \in Keys
    /\ till' = [till EXCEPT ![t] = [till[t] EXCEPT
          !.key = SaleKey(t),
          !.drawn = IF till[t].key = None THEN @ + 1 ELSE @,
          !.waiting = r]]
    /\ req' = [req EXCEPT ![r] = [IdleReq EXCEPT
          !.pc = "lookup", !.till = t, !.key = SaleKey(t),
          !.basket = till[t].basket, !.code = till[t].code]]
    /\ UNCHANGED <<today, db, answered>>

(* Mutant: the retry after a timeout draws a fresh key. *)
GiveUpForgets(t) ==
    /\ till[t].waiting # None
    /\ till' = [till EXCEPT ![t] = [till[t] EXCEPT !.waiting = None, !.key = None]]
    /\ UNCHANGED <<today, db, req, answered>>

(* The page gives up on its request (timeout, lost answer); the handler on
   the server does not notice. *)
GiveUp(t) ==
    /\ till[t].waiting # None
    /\ till' = [till EXCEPT ![t].waiting = None]
    /\ UNCHANGED <<today, db, req, answered>>
-----------------------------------------------------------------------------
(* create_sale, one step per await that reads or writes. *)
Reply(r, s) == req' = [req EXCEPT ![r] = [IdleReq EXCEPT !.pc = "reply",
                                                         !.till = req[r].till,
                                                         !.answer = s]]

Lookup(r) ==
    /\ req[r].pc = "lookup"
    /\ \/ \E s \in RungWith(req[r].key) : Reply(r, s)
       \/ /\ RungWith(req[r].key) = {}
          /\ req' = [req EXCEPT ![r].pc = "member"]
    /\ UNCHANGED <<today, db, till, answered>>

(* db.get(CustomerModel): balance and welcome flag as of now. *)
ReadMember(r) ==
    LET m == req[r].basket.member IN
    /\ req[r].pc = "member"
    /\ req' = [req EXCEPT ![r] = [req[r] EXCEPT
          !.pc = "count",
          !.used = m \in Members /\ welcomeUsed[m],
          !.points = IF m \in Members THEN points[m] ELSE 0]]
    /\ UNCHANGED <<today, db, till, answered>>

(* Mutant: the count forgets the date. *)
CountAllDays(r) ==
    /\ req[r].pc \in {"count", "legacy"}
    /\ req' = [req EXCEPT ![r] = [req[r] EXCEPT
          !.pc = IF @ = "count" THEN "order" ELSE "insert",
          !.day = today,
          !.count = Cardinality(sales)]]
    /\ UNCHANGED <<today, db, till, answered>>

(* The number is one more than the committed transactions of today. *)
CountToday(r) ==
    /\ req[r].pc \in {"count", "legacy"}
    /\ req' = [req EXCEPT ![r] = [req[r] EXCEPT
          !.pc = IF @ = "count" THEN "order" ELSE "insert",
          !.day = today,
          !.count = Cardinality(RowsOf(today))]]
    /\ UNCHANGED <<today, db, till, answered>>

(* The held order: an open one is claimed by this sale, and its own member's
   unspent welcome discount comes off. *)
ReadOrder(r) ==
    LET c == req[r].code
        m == req[r].basket.member
        open == c \in Orders /\ orders[c] = "open"
    IN /\ req[r].pc = "order"
       /\ req' = [req EXCEPT ![r] = [req[r] EXCEPT
             !.pc = "commit",
             !.claim = open,
             !.welcome = open /\ m \in Members /\ owner[c] = m /\ ~req[r].used]]
       /\ UNCHANGED <<today, db, till, answered>>

(* A 4xx before the commit (discount cap, age gate, closed cash box, tender
   too small, declined terminal): nothing is written. *)
Reject(r) ==
    /\ req[r].pc = "commit"
    /\ Reply(r, None)
    /\ UNCHANGED <<today, db, till, answered>>

(* Mutant: the first number of a day is 0. *)
SaleFromZero(r) == [key |-> req[r].key, day |-> req[r].day, num |-> req[r].count,
                    member |-> req[r].basket.member, order |-> None, welcome |-> FALSE,
                    basket |-> req[r].basket]

NewSale(r) == [key |-> req[r].key, day |-> req[r].day, num |-> req[r].count + 1,
               member |-> req[r].basket.member,
               order |-> IF req[r].claim THEN req[r].code ELSE None,
               welcome |-> req[r].welcome, basket |-> req[r].basket]

(* Mutants: one of the two unique indexes is missing. *)
UniqueKeyOnly(s) == \A x \in sales : s.key # None => x.key # s.key
UniqueNumberOnly(s) == \A x \in sales : x.day = s.day => x.num # s.num

(* UNIQUE (transaction_number) and UNIQUE (client_uuid), NULLs distinct. *)
Unique(s) == \A x \in sales : /\ x.day = s.day => x.num # s.num
                              /\ s.key # None => x.key # s.key

(* The one commit: sale, member, credit row and claimed order together. *)
Commit(r) ==
    LET s == NewSale(r)
        m == s.member
    IN /\ req[r].pc = "commit"
       /\ Unique(s)
       /\ sales' = sales \cup {s}
       /\ points' = IF m = None THEN points
                    ELSE [points EXCEPT ![m] = req[r].points + 1]
       /\ ledger' = IF m = None THEN ledger
                    ELSE ledger \cup {[member |-> m, key |-> s.key]}
       /\ welcomeUsed' = IF s.welcome THEN [welcomeUsed EXCEPT ![m] = TRUE]
                         ELSE welcomeUsed
       /\ orders' = IF req[r].claim THEN [orders EXCEPT ![req[r].code] = "claimed"]
                    ELSE orders
       /\ Reply(r, s)
       /\ UNCHANGED <<today, owner, till, answered>>

(* Mutant: the member's points are not part of what is rolled back. *)
ConflictKeepsPoints(r) ==
    LET m == req[r].basket.member IN
    /\ req[r].pc = "commit"
    /\ ~Unique(NewSale(r))
    /\ points' = IF m = None THEN points ELSE [points EXCEPT ![m] = req[r].points + 1]
    /\ req' = [req EXCEPT ![r].pc = "adopt"]
    /\ UNCHANGED <<today, sales, welcomeUsed, ledger, orders, owner, till, answered>>

(* IntegrityError: everything of this session is rolled back. *)
Conflict(r) ==
    /\ req[r].pc = "commit"
    /\ ~Unique(NewSale(r))
    /\ req' = [req EXCEPT ![r].pc = "adopt"]
    /\ UNCHANGED <<today, db, till, answered>>

(* Return the sale that won the race for this key, else re-raise (a 500). *)
Adopt(r) ==
    /\ req[r].pc = "adopt"
    /\ \/ \E s \in RungWith(req[r].key) : Reply(r, s)
       \/ /\ RungWith(req[r].key) = {}
          /\ Reply(r, None)
    /\ UNCHANGED <<today, db, till, answered>>

(* The answer reaches the till if it still waits for it.  On a sale the page
   drops basket, key and code; on an error it keeps all three. *)
Deliver(r) ==
    LET t == req[r].till
        s == req[r].answer
        heard == t # None /\ till[t].waiting = r
    IN /\ req[r].pc = "reply"
       /\ req' = [req EXCEPT ![r] = IdleReq]
       /\ till' = IF ~heard THEN till
                  ELSE IF s = None THEN [till EXCEPT ![t].waiting = None]
                  ELSE [till EXCEPT ![t] = [IdleTill EXCEPT !.gen = till[t].gen,
                                                            !.drawn = till[t].drawn]]
       /\ answered' = IF heard /\ s # None
                      THEN answered \cup {<<s.key, s.day, s.num>>} ELSE answered
       /\ UNCHANGED <<today, db>>
-----------------------------------------------------------------------------
(* create_transaction: the same count-based number, no key, no retry. *)
StartLegacy(r) ==
    /\ req[r].pc = "idle"
    /\ Cardinality(RungWith(None)) < MaxKeyless
    /\ req' = [req EXCEPT ![r] = [IdleReq EXCEPT !.pc = "legacy"]]
    /\ UNCHANGED <<today, db, till, answered>>

LegacySale(r) == [key |-> None, day |-> req[r].day, num |-> req[r].count + 1,
                  member |-> None, order |-> None, welcome |-> FALSE, basket |-> None]

LegacyInsert(r) ==
    /\ req[r].pc = "insert"
    /\ req' = [req EXCEPT ![r] = IdleReq]
    /\ sales' = IF Unique(LegacySale(r)) THEN sales \cup {LegacySale(r)} ELSE sales
    /\ UNCHANGED <<today, points, welcomeUsed, ledger, orders, owner, till, answered>>
-----------------------------------------------------------------------------
Midnight ==
    /\ today < LastDay
    /\ today' = today + 1
    /\ UNCHANGED <<db, till, req, answered>>

(* A deploy cuts every request off; what was not committed is gone. *)
Restart ==
    /\ \E r \in Reqs : req[r].pc # "idle"
    /\ req' = [r \in Reqs |-> IdleReq]
    /\ till' = [t \in Tills |-> [till[t] EXCEPT !.waiting = None]]
    /\ UNCHANGED <<today, db, answered>>

Next ==
    \/ \E o \in Orders, m \in MaybeMember : KioskUpsert(o, m)
    \/ \E o \in Orders : CartClaim(o)
    \/ \E t \in Tills, m \in MaybeMember : StartBasket(t, m)
    \/ \E t \in Tills, o \in Orders : RingOut(t, o)
    \/ \E t \in Tills : Edit(t) \/ ClearCart(t) \/ GiveUp(t)
    \/ \E t \in Tills, r \in Reqs : Submit(t, r)
    \/ \E r \in Reqs : \/ Lookup(r) \/ ReadMember(r) \/ CountToday(r) \/ ReadOrder(r)
                       \/ Reject(r) \/ Commit(r) \/ Conflict(r) \/ Adopt(r) \/ Deliver(r)
                       \/ StartLegacy(r) \/ LegacyInsert(r)
    \/ Midnight
    \/ Restart

Spec == Init /\ [][Next]_vars
-----------------------------------------------------------------------------
Requests == [pc : {"idle", "lookup", "member", "count", "order", "commit", "adopt",
                   "reply", "legacy", "insert"},
             till : Tills \cup {None}, key : Keys \cup {None},
             basket : Baskets \cup {None}, code : MaybeOrder,
             used : BOOLEAN, points : Nat, day : Days, count : Nat,
             claim : BOOLEAN, welcome : BOOLEAN, answer : Sale \cup {None}]

TillStates == [basket : Baskets \cup {None}, key : Keys \cup {None},
               code : MaybeOrder, waiting : Reqs \cup {None},
               gen : 0 .. MaxBaskets, drawn : Nat]

(* Every table, page and handler holds what its column or variable may hold. *)
TypeOK ==
    /\ today \in Days
    /\ sales \subseteq Sale /\ IsFiniteSet(sales)
    /\ points \in [Members -> Nat]
    /\ welcomeUsed \in [Members -> BOOLEAN]
    /\ ledger \subseteq Credit
    /\ orders \in [Orders -> {"absent", "open", "claimed"}]
    /\ owner \in [Orders -> MaybeMember]
    /\ till \in [Tills -> TillStates]
    /\ req \in [Reqs -> Requests]
    /\ answered \subseteq Keys \X Days \X Nat

(* Count-then-insert is not atomic, and still the numbers of a day are exactly
   1, 2, ..., n: a stale count always names a number that is already taken, so
   the losing handler is refused and no receipt number is ever skipped.
   (create_sale, create_transaction: transaction_number.) *)
NumbersDense ==
    \A d \in Days : {s.num : s \in RowsOf(d)} = 1 .. Cardinality(RowsOf(d))

(* A held order is claimed by at most one sale of a day, although the handlers
   read the order's status long before they commit and nothing locks it: the
   later handler's number is taken by the earlier one.  Hence its welcome
   discount is given once per order.  (create_sale, the kiosk lane.) *)
OrderClaimedOnce ==
    \A s, x \in sales : s.order # None /\ s.order = x.order /\ s.day = x.day => s = x

(* A basket is charged at most once, however often it is edited, sent, given up
   on, raced and sent again: the key outlives every retry of its basket and
   nothing else.  So a basket begun after "start fresh", a finished sale or a
   ring-out is never answered with the sale of the basket before it, committed or
   not.  (checkout.html saleUuid, create_sale: client_uuid; scan.html
   confirmClearCart, held_orders.html ringOut.) *)
BasketChargedOnce ==
    /\ \A s, x \in sales : /\ s.key # None /\ x.key # None
                           /\ s.key[1] = x.key[1] /\ s.basket.gen = x.basket.gen
                           => s = x
    /\ \A r \in Reqs : LET t == req[r].till IN
          /\ req[r].pc = "reply" /\ req[r].answer # None
          /\ t # None
          /\ till[t].waiting = r
          => req[r].answer.basket.gen = till[t].basket.gen

CreditRows(m) == {l \in ledger : l.member = m}

(* The stored balance never exceeds what the ledger accounts for: races may
   lose a member's points, they never mint them.  (create_sale, CRM block.) *)
PointsWithinLedger == \A m \in Members : points[m] <= Cardinality(CreditRows(m))

(* create_sale implements the abstract book: append-only, one entry per key,
   numbers without gaps, and answers that name the entry. *)
Entry(d, n) == (CHOOSE s \in RowsOf(d) : s.num = n).key

Book == INSTANCE SaleBook WITH
            Keyless <- None,
            book <- [d \in Days |-> [n \in 1 .. Cardinality(RowsOf(d)) |-> Entry(d, n)]]

ImplementsBook == Book!Spec
-----------------------------------------------------------------------------
(* "so it can never be spent twice": one welcome discount per member, however
   many held orders the member has.  (create_sale: the flag is read with the
   member and written at the commit.) *)
WelcomeSpentOnce ==
    \A s, x \in sales : s.welcome /\ x.welcome /\ s.member = x.member => s = x
=============================================================================
