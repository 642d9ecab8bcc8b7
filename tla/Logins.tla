------------------------------- MODULE Logins -------------------------------
(***************************************************************************)
(* Whom a request is by: Keycloak accounts, the rows of users, and the     *)
(* employees linked to them (routes/hr_router.py; _resolve_cashier_uid in  *)
(* routes/pos_router.py; services/artemis_user_seeding.py).                *)
(*                                                                         *)
(* A token carries a username and the sub of its account.  A row of users  *)
(* has a name, a keycloak_id and an id of its own or a sub's; e-mail       *)
(* addresses go with the names.  Sales hang on the row of their cashier,   *)
(* and the ORM deletes them with it (cascade="all, delete-orphan").        *)
(***************************************************************************)
EXTENDS Integers, FiniteSets, Functions, Rows

CONSTANTS Handlers,   \* requests in flight
          Names,      \* usernames of the accounts
          Subs,       \* bound: accounts Keycloak ever has
          SeedRow,    \* the id of the row that is seeded,
          SeedName,   \* its username
          SeedSub,    \* and its keycloak_id
          Fresh,      \* bound: ids of other rows
          Emps,       \* employees
          Sales,      \* bound: sales that are rung
          None

(* What the constants have to satisfy: Desks assumes it of its instances. *)
LoginsAssumption ==
    /\ SeedName \in Names /\ SeedSub \in Subs
    /\ SeedRow \notin Subs \cup Fresh /\ Subs \cap Fresh = {} /\ Names \cap Subs = {}
    /\ None \notin Names \cup Subs \cup Fresh \cup {SeedRow}

VARIABLES account, \* Keycloak: the sub of each username
          issued,  \* Keycloak: the username each sub was issued for
          user,    \* users
          emp,     \* employees.user_id
          sold,    \* transactions
          h        \* the handlers

vars == <<account, issued, user, emp, sold, h>>

Ids == Subs \cup Fresh \cup {SeedRow}
Idle == [op |-> "none"]
NoUser == [name |-> None, kc |-> None]
NoSale == [state |-> "unused", by |-> None, cashier |-> None]
Seeded == [name |-> SeedName, kc |-> SeedSub]

Init == /\ account = [n \in Names |-> IF n = SeedName THEN SeedSub ELSE None]
        /\ issued = [s \in Subs |-> IF s = SeedSub THEN SeedName ELSE None]
        /\ user = [i \in Ids |-> IF i = SeedRow THEN Seeded ELSE NoUser]
        /\ emp = [e \in Emps |-> None]
        /\ sold = [s \in Sales |-> NoSale]
        /\ h = [p \in Handlers |-> Idle]

Known == {i \in Ids : user[i] # NoUser}
Named(n) == {i \in Known : user[i].name = n}
Keyed(s) == {i \in Known : user[i].kc = s}
LinkedTo(i) == {e \in Emps : emp[e] = i}

(* The unique columns of users: row i may be written as `row`. *)
Unique(i, row) == Named(row.name) \cup Keyed(row.kc) \subseteq {i}

Begin(p, rest) == h[p] = Idle /\ h' = [h EXCEPT ![p] = rest]
Finish(p, op) == h[p].op = op /\ h' = [h EXCEPT ![p] = Idle]
-----------------------------------------------------------------------------
(* Keycloak, external: an account is made, or made anew with another sub. *)
Account(n, s) ==
    /\ issued[s] = None
    /\ account' = [account EXCEPT ![n] = s]
    /\ issued' = [issued EXCEPT ![s] = n]
    /\ UNCHANGED <<user, emp, sold, h>>

(* seed_artemis_staff, at every start: a crash ends the requests in flight; the row is there
   as it was seeded, unless its name or keycloak_id is another's by now. *)
Restart ==
    /\ h' = [p \in Handlers |-> Idle]
    /\ user' = IF Unique(SeedRow, Seeded) THEN [user EXCEPT ![SeedRow] = Seeded] ELSE user
    /\ UNCHANGED <<account, issued, emp, sold>>
-----------------------------------------------------------------------------
(* _resolve_cashier_uid: the row whose id the sub is, or whose keycloak_id... *)
Resolved(s) == IF s \in Known THEN {s} ELSE Keyed(s)

(* ...or a new one, under another name if the username is taken. *)
SaleLoad(p, n) ==
    LET s == account[n]
    IN /\ s # None
       /\ \/ \E i \in Resolved(s) : Begin(p, [op |-> "sale", by |-> s, row |-> i])
          \/ /\ Resolved(s) = {}
             /\ Begin(p, [op |-> "first_sale", by |-> s, row |-> s,
                          as |-> [name |-> IF Named(n) = {} THEN n ELSE s, kc |-> s]])
       /\ UNCHANGED <<account, issued, user, emp, sold>>

Rung(s, by, cashier) == /\ sold[s] = NoSale
                        /\ sold' = [sold EXCEPT ![s] = [state |-> "rung", by |-> by, cashier |-> cashier]]

(* The sale is committed: its cashier has to be there... *)
SaleCommit(p, s) ==
    /\ Finish(p, "sale")
    /\ h[p].row \in Known
    /\ Rung(s, h[p].by, h[p].row)
    /\ UNCHANGED <<account, issued, user, emp>>

(* ...or to go in with it. *)
FirstSaleCommit(p, s) ==
    /\ Finish(p, "first_sale")
    /\ h[p].row \notin Known /\ Unique(h[p].row, h[p].as)
    /\ user' = [user EXCEPT ![h[p].row] = h[p].as]
    /\ Rung(s, h[p].by, h[p].row)
    /\ UNCHANGED <<account, issued, emp>>
-----------------------------------------------------------------------------
(* get_employee_from_token: the employee of the row with the sub... *)
ByKey(s) == UNION {LinkedTo(i) : i \in Keyed(s)}

(* ...or else of the row with the username... *)
ByName(n) == UNION {LinkedTo(i) : i \in Named(n)}

HealLoad(p, n) ==
    /\ account[n] # None /\ ByKey(account[n]) = {} /\ ByName(n) # {}
    /\ \E i \in Named(n) : Begin(p, [op |-> "heal", row |-> i, seen |-> user[i], kc |-> account[n]])
    /\ UNCHANGED <<account, issued, user, emp, sold>>

(* ...which gets the sub for its keycloak_id, unless another row has it. *)
HealCommit(p) ==
    LET i == h[p].row
        new == [h[p].seen EXCEPT !.kc = h[p].kc]
    IN /\ Finish(p, "heal")
       /\ i \in Known /\ Unique(i, new)
       /\ user' = [user EXCEPT ![i] = Flushed(@, h[p].seen, new)]
       /\ UNCHANGED <<account, issued, emp, sold>>
-----------------------------------------------------------------------------
(* A UUID that is drawn is nowhere in the database, nor in a request. *)
Unheard(i) == i \notin Known /\ \A q \in Handlers : h[q] # Idle => h[q].row # i

(* link_employee_login: to the row with the username, if it is nobody else's, or to a new
   one, whose keycloak_id means nothing yet... *)
LinkLoad(p, e, n) ==
    /\ \/ \E i \in Named(n) : /\ LinkedTo(i) \subseteq {e}
                              /\ Begin(p, [op |-> "link", emp |-> e, row |-> i, as |-> NoUser])
       \/ /\ Named(n) = {}
          /\ \E i \in Fresh : /\ Unheard(i)
                              /\ Begin(p, [op |-> "link", emp |-> e, row |-> i, as |-> [name |-> n, kc |-> i]])
    /\ UNCHANGED <<account, issued, user, emp, sold>>

(* ...as long as the row, the name and the link are still free. *)
LinkCommit(p) ==
    LET i == h[p].row
        new == h[p].as # NoUser
    IN /\ Finish(p, "link")
       /\ IF new THEN i \notin Known /\ Unique(i, h[p].as) ELSE i \in Known
       /\ LinkedTo(i) \subseteq {h[p].emp}
       /\ user' = IF new THEN [user EXCEPT ![i] = h[p].as] ELSE user
       /\ emp' = [emp EXCEPT ![h[p].emp] = i]
       /\ UNCHANGED <<account, issued, sold>>

(* An empty username; or the employee is deleted, and another card made. *)
Unlink(e) ==
    /\ emp[e] # None
    /\ emp' = [emp EXCEPT ![e] = None]
    /\ UNCHANGED <<account, issued, user, sold, h>>
-----------------------------------------------------------------------------
(* provision_login: first Keycloak, where an account is made if there is none, and stays
   whatever happens next... *)
ProvisionLoad(p, e, n, s) ==
    /\ IF account[n] = None THEN issued[s] = None ELSE s = account[n]
    /\ Begin(p, [op |-> "provision", emp |-> e, name |-> n, row |-> s])
    /\ account' = [account EXCEPT ![n] = s]
    /\ issued' = [issued EXCEPT ![s] = n]
    /\ UNCHANGED <<user, emp, sold>>

(* ...then the row with the username that does not have the sub for its id goes, with all
   that hangs on it, and the one that has it is linked. *)
ProvisionCommit(p) ==
    LET i == h[p].row
        stale == Named(h[p].name) \ {i}
        row == [name |-> h[p].name, kc |-> i]
    IN /\ Finish(p, "provision")
       /\ Keyed(i) \subseteq stale \cup {i}
       /\ LinkedTo(i) \subseteq {h[p].emp}
       /\ user' = [j \in Ids |-> IF j = i THEN row ELSE IF j \in stale THEN NoUser ELSE user[j]]
       /\ emp' = [e \in Emps |-> IF e = h[p].emp THEN i ELSE IF emp[e] \in stale THEN None ELSE emp[e]]
       /\ sold' = [s \in Sales |-> IF sold[s].state = "rung" /\ sold[s].cashier \in stale
                                   THEN [sold[s] EXCEPT !.state = "deleted"] ELSE sold[s]]
       /\ UNCHANGED <<account, issued>>

(* A conflict or an error: what was not committed is rolled back. *)
Abort(p) == h[p] # Idle /\ h' = [h EXCEPT ![p] = Idle] /\ UNCHANGED <<account, issued, user, emp, sold>>

Next ==
    \/ Restart
    \/ \E n \in Names, s \in Subs : Account(n, s)
    \/ \E e \in Emps : Unlink(e)
    \/ \E p \in Handlers :
        \/ \E n \in Names : \/ SaleLoad(p, n) \/ HealLoad(p, n)
                            \/ \E e \in Emps : \/ LinkLoad(p, e, n)
                                               \/ \E s \in Subs : ProvisionLoad(p, e, n, s)
        \/ \E s \in Sales : SaleCommit(p, s) \/ FirstSaleCommit(p, s)
        \/ HealCommit(p) \/ LinkCommit(p) \/ ProvisionCommit(p) \/ Abort(p)

Spec == Init /\ [][Next]_vars
-----------------------------------------------------------------------------
(* Every column holds what it may hold. *)
TypeOK ==
    /\ user \in [Ids -> [name : Names \cup Subs \cup {None}, kc : Ids \cup {None}]]
    /\ \A e \in Emps : emp[e] \in Known \cup {None}
    /\ \A s \in Sales : /\ sold[s].state \in {"unused", "rung", "deleted"}
                        /\ sold[s].state = "rung" => sold[s].cashier \in Known

(* The subs in use, but for a seeded one that Keycloak made anew. *)
Current == {account[n] : n \in {k \in Names : account[k] # None /\ (k = SeedName => account[k] = SeedSub)}}

(* The usernames whose account was never made anew, and their subs. *)
Lasting == {n \in Names : account[n] # None /\ \A s \in Subs : issued[s] = n => s = account[n]}
Settled == {account[n] : n \in Lasting}

(* What was sold under these subs is on the one row the reports of that person are asked of. *)
OnOneRow(subs) ==
    \A s \in Sales : sold[s].state = "rung" /\ sold[s].by \in subs => Resolved(sold[s].by) = {sold[s].cashier}

(* Whoever is linked to such a username is the employee its account's requests are of. *)
ActFor(names) ==
    \A n \in names, e \in Emps :
       account[n] # None /\ e \in ByName(n) =>
          (IF ByKey(account[n]) # {} THEN ByKey(account[n]) ELSE ByName(n)) = {e}

(* One request at a time, over links, new accounts, restarts and deleted rows: everything a
   person sold is on one row.  (_resolve_cashier_uid: "keeps EVERY cashier-scoped query
   pointing at the same value".) *)
SalesOnOneRow == OnOneRow(Current)

(* And whoever is linked to a username is who the account's requests are of.
   (get_employee_from_token, link_employee_login, provision_login.) *)
ActsForLinked == ActFor(Names)

(* However requests interleave, both hold of an account that is not made anew: a row that is
   healed, or made, while a request that has read the old sub is in flight, may lose its key
   to that one. *)
SettledStay == OnOneRow(Settled) /\ ActFor(Lasting)

(* What the sources say of sales: "Banco never deletes them".  (scripts/prove-cash-rounding.py.) *)
SalesKept == \A s \in Sales : sold[s].state # "deleted"
=============================================================================
