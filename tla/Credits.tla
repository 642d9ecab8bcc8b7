------------------------------- MODULE Credits -------------------------------
(***************************************************************************)
(* The append-only credit ledger (services/compute_service.py) and the     *)
(* requests that write to it: the starter grant of a new account, peer     *)
(* transfers, recipes paid to the house, compute jobs settled after the    *)
(* fact, grants by an admin, and the reward for feedback, which is capped  *)
(* per user and day and files a numbered item on the backlog board.        *)
(*                                                                         *)
(* Nothing reads a single row of the ledger: handlers read whether an      *)
(* account has rows and what they sum up to.  The state keeps just that.   *)
(* Every await that reads is a step, every commit is one step.             *)
(***************************************************************************)
EXTENDS Integers, FiniteSets, FiniteSetsExt

CONSTANTS Users,      \* accounts of people
          House,      \* "la-bottega"
          Reqs,       \* slots for handlers in flight
          Starter,    \* LPCX_STARTER_GRANT
          Reward,     \* FEEDBACK_REWARD
          DailyCap,   \* FEEDBACK_DAILY_CAP
          MaxPrice,   \* bound: what one transfer, recipe or job moves
          MaxOwed,    \* bound: jobs of one user accepted and not yet settled
          MaxRequests, \* bound: requests altogether
          MaxGrants,  \* bound: grants by an admin
          LastDay     \* bound: days

ASSUME HouseAssumption == House \notin Users /\ IsFiniteSet(Users)
ASSUME ReqsAssumption == IsFiniteSet(Reqs) /\ Reqs # {}
ASSUME AmountsAssumption == /\ {Starter, Reward, DailyCap, MaxPrice, LastDay} \subseteq Nat \ {0}
                            /\ {MaxOwed, MaxRequests, MaxGrants} \subseteq Nat

VARIABLES today,    \* the UTC day
          known,    \* accounts with at least one ledger row
          balance,  \* the sum of each account's rows
          starters, \* how many of them are starter grants
          granted,  \* what admins granted, one credit at a time
          owed,     \* jobs accepted and not yet settled
          items,    \* backlog_items, as far as the reward looks at them
          req,      \* the handlers in flight
          requests  \* how many requests have arrived

ledger == <<known, balance, starters, granted>>
vars == <<today, ledger, owed, items, req, requests>>

Accounts == Users \cup {House}
Prices == 1 .. MaxPrice

Idle == [pc |-> "idle", kind |-> "look", from |-> House, to |-> House, amount |-> 0,
         num |-> 0, filed |-> FALSE]

Init == /\ today = 1
        /\ known = {}
        /\ balance = [a \in Accounts |-> 0]
        /\ starters = [a \in Accounts |-> 0]
        /\ granted = 0
        /\ owed = [u \in Users |-> 0]
        /\ items = {}
        /\ req = [r \in Reqs |-> Idle]
        /\ requests = 0

(* Mutant: the second row is forgotten. *)
PaidOut(from, to, n) == [balance EXCEPT ![from] = @ - n]

Moved(from, to, n) == [a \in Accounts |-> balance[a] - (IF a = from THEN n ELSE 0)
                                                     + (IF a = to THEN n ELSE 0)]

Goto(r, pc) == req' = [req EXCEPT ![r].pc = pc]
Done(r) == req' = [req EXCEPT ![r] = Idle]
-----------------------------------------------------------------------------
(* A request arrives. *)
Start(r, k, u, to, n, pc) ==
    /\ req[r].pc = "idle"
    /\ req' = [req EXCEPT ![r] = [Idle EXCEPT !.pc = pc, !.kind = k, !.from = u,
                                              !.to = to, !.amount = n]]
    /\ requests < MaxRequests
    /\ requests' = requests + 1
    /\ UNCHANGED <<today, ledger, owed, items>>

Look(r, u) == Start(r, "look", u, House, 0, "count")
Transfer(r, u, v, n) == u # v /\ Start(r, "transfer", u, v, n, "count")
Recipe(r, u, n) == Start(r, "recipe", u, House, n, "count")
SubmitJob(r, u) == Start(r, "submit", u, House, 0, "count")
Feedback(r, u) == Start(r, "feedback", u, House, 0, "number")
FileItem(r, u) == Start(r, "file", u, House, 0, "number")
-----------------------------------------------------------------------------
(* ensure_starter_grant: does the account have rows? *)
Ensured(r, filed) ==
    LET k == req[r].kind IN
    IF k = "look" THEN Done(r)
    ELSE req' = [req EXCEPT ![r] = [req[r] EXCEPT
            !.pc = IF k = "feedback" THEN "reward" ELSE "check", !.filed = filed]]

(* Mutant: an account at zero counts as new. *)
CountByBalance(r) ==
    /\ req[r].pc = "count"
    /\ IF balance[req[r].from] # 0 THEN Ensured(r, FALSE) ELSE Goto(r, "grant")
    /\ UNCHANGED <<today, ledger, owed, items, requests>>

Count(r) ==
    /\ req[r].pc = "count"
    /\ IF req[r].from \in known THEN Ensured(r, FALSE) ELSE Goto(r, "grant")
    /\ UNCHANGED <<today, ledger, owed, items, requests>>

(* The item a feedback or a filing handler inserts. *)
Item(r, rewarded) == [num |-> req[r].num, by |-> req[r].from, day |-> today, rewarded |-> rewarded]

(* Mutant: every user has numbers of their own. *)
UniquePerUser(i) == \A x \in items : x.by = i.by => x.num # i.num

(* UNIQUE (item_number). *)
Unique(i) == \A x \in items : x.num # i.num

(* The starter grant, committed on its own; a feedback's item, added to the
   session before, is committed with it. *)
GrantStarter(r) ==
    LET u == req[r].from
        k == req[r].kind
    IN /\ req[r].pc = "grant"
       /\ k = "feedback" => Unique(Item(r, FALSE))
       /\ known' = known \cup {u}
       /\ balance' = [balance EXCEPT ![u] = @ + Starter]
       /\ starters' = [starters EXCEPT ![u] = @ + 1]
       /\ items' = IF k = "feedback" THEN items \cup {Item(r, FALSE)} ELSE items
       /\ Ensured(r, k = "feedback")
       /\ UNCHANGED <<today, granted, owed, requests>>

(* The balance is read here; the money moves a step, or a whole recipe, later. *)
Affordable(r) ==
    LET h == req[r] IN
    CASE h.kind = "transfer" -> h.to \in known /\ balance[h.from] >= h.amount
      [] h.kind = "recipe" -> balance[h.from] >= h.amount
      [] OTHER -> balance[h.from] > 0

(* Mutant: nobody asks whether it is enough. *)
CheckNothing(r) ==
    /\ req[r].pc = "check"
    /\ Goto(r, IF req[r].kind = "submit" THEN "queue" ELSE "pay")
    /\ UNCHANGED <<today, ledger, owed, items, requests>>

Check(r) ==
    /\ req[r].pc = "check"
    /\ Affordable(r)
    /\ Goto(r, IF req[r].kind = "submit" THEN "queue" ELSE "pay")
    /\ UNCHANGED <<today, ledger, owed, items, requests>>

(* transfer_credits, recipes_run: both rows in one commit. *)
Pay(r) ==
    LET h == req[r] IN
    /\ h.pc = "pay"
    /\ balance' = Moved(h.from, h.to, h.amount)
    /\ known' = known \cup {h.from, h.to}
    /\ Done(r)
    /\ UNCHANGED <<today, starters, granted, owed, items, requests>>

(* submit_job: the job is accepted.  It is paid when it is done, whatever the
   balance is then. *)
Queue(r) ==
    /\ req[r].pc = "queue"
    /\ owed[req[r].from] < MaxOwed
    /\ owed' = [owed EXCEPT ![req[r].from] = @ + 1]
    /\ Done(r)
    /\ UNCHANGED <<today, ledger, items, requests>>

(* Settlement in the ledger (execute_job, worker_result), or a job that ends
   without one. *)
Settle(u, to, n) ==
    /\ owed[u] > 0
    /\ owed' = [owed EXCEPT ![u] = @ - 1]
    /\ balance' = Moved(u, to, n)
    /\ known' = known \cup {u, to}
    /\ UNCHANGED <<today, starters, granted, items, req, requests>>

Drop(u) ==
    /\ owed[u] > 0
    /\ owed' = [owed EXCEPT ![u] = @ - 1]
    /\ UNCHANGED <<today, ledger, items, req, requests>>

(* grant_credits: no starter grant is ensured first. *)
AdminGrant(u) ==
    /\ granted < MaxGrants
    /\ granted' = granted + 1
    /\ balance' = [balance EXCEPT ![u] = @ + 1]
    /\ known' = known \cup {u}
    /\ UNCHANGED <<today, starters, owed, items, req, requests>>
-----------------------------------------------------------------------------
(* Mutant: the maximum itself. *)
NumberOfLast(r) ==
    /\ req[r].pc = "number"
    /\ req' = [req EXCEPT ![r] = [req[r] EXCEPT
          !.num = Max({0} \cup {i.num : i \in items}),
          !.pc = IF req[r].kind = "file" THEN "file" ELSE "prior"]]
    /\ UNCHANGED <<today, ledger, owed, items, requests>>

(* The next number of the board: its maximum plus one. *)
Number(r) ==
    /\ req[r].pc = "number"
    /\ req' = [req EXCEPT ![r] = [req[r] EXCEPT
          !.num = Max({0} \cup {i.num : i \in items}) + 1,
          !.pc = IF req[r].kind = "file" THEN "file" ELSE "prior"]]
    /\ UNCHANGED <<today, ledger, owed, items, requests>>

FiledBy(u, d) == {i \in items : i.by = u /\ i.day = d}

(* Mutant: only what is already rewarded counts. *)
PriorRewards(r) ==
    LET paid == {i \in FiledBy(req[r].from, today) : i.rewarded} IN
    /\ req[r].pc = "prior"
    /\ Goto(r, IF Cardinality(paid) < DailyCap THEN "count" ELSE "file")
    /\ UNCHANGED <<today, ledger, owed, items, requests>>

(* How much feedback did the user file today?  Below the cap it is rewarded. *)
Prior(r) ==
    /\ req[r].pc = "prior"
    /\ Goto(r, IF Cardinality(FiledBy(req[r].from, today)) < DailyCap THEN "count" ELSE "file")
    /\ UNCHANGED <<today, ledger, owed, items, requests>>

(* The item alone: unrewarded feedback, feedback from the till, create_item.  One
   that counts for nobody moves the numbers on like another user's. *)
File(r) ==
    /\ req[r].pc = "file"
    /\ Unique(Item(r, FALSE))
    /\ items' = items \cup {Item(r, FALSE)}
    /\ Done(r)
    /\ UNCHANGED <<today, ledger, owed, requests>>

(* The reward, with the item unless the starter grant already committed it. *)
PayReward(r) ==
    LET u == req[r].from
        own == {i \in items : i.num = req[r].num}
    IN /\ req[r].pc = "reward"
       /\ \/ /\ req[r].filed
             /\ items' = (items \ own) \cup {[i EXCEPT !.rewarded = TRUE] : i \in own}
          \/ /\ ~req[r].filed
             /\ Unique(Item(r, TRUE))
             /\ items' = items \cup {Item(r, TRUE)}
       /\ balance' = Moved(House, u, Reward)
       /\ known' = known \cup {House, u}
       /\ Done(r)
       /\ UNCHANGED <<today, starters, granted, owed, requests>>
-----------------------------------------------------------------------------
(* The handler ends without another commit: its work is done, a 4xx, a brain
   that is busy, a number that is taken, a restart. *)
End(r) ==
    /\ req[r].pc # "idle"
    /\ Done(r)
    /\ UNCHANGED <<today, ledger, owed, items, requests>>

Midnight ==
    /\ today < LastDay
    /\ today' = today + 1
    /\ UNCHANGED <<ledger, owed, items, req, requests>>

Next ==
    \/ \E r \in Reqs, u \in Users :
          \/ Look(r, u) \/ SubmitJob(r, u) \/ Feedback(r, u) \/ FileItem(r, u)
          \/ \E n \in Prices : Recipe(r, u, n) \/ \E v \in Users : Transfer(r, u, v, n)
    \/ \E r \in Reqs : \/ Count(r) \/ GrantStarter(r) \/ Check(r) \/ Pay(r) \/ Queue(r)
                       \/ Number(r) \/ Prior(r) \/ File(r) \/ PayReward(r) \/ End(r)
    \/ \E u \in Users : \/ Drop(u) \/ AdminGrant(u)
                        \/ \E to \in Accounts, n \in Prices : Settle(u, to, n)
    \/ Midnight

Spec == Init /\ [][Next]_vars
-----------------------------------------------------------------------------
Requests == [pc : {"idle", "count", "grant", "check", "pay", "queue", "number", "prior",
                   "file", "reward"},
             kind : {"look", "transfer", "recipe", "submit", "feedback", "file"},
             from : Accounts, to : Accounts, amount : 0 .. MaxPrice,
             num : Nat, filed : BOOLEAN]

(* Every column and handler holds what it may hold. *)
TypeOK ==
    /\ today \in 1 .. LastDay
    /\ known \subseteq Accounts
    /\ balance \in [Accounts -> Int]
    /\ starters \in [Accounts -> Nat]
    /\ granted \in 0 .. MaxGrants
    /\ owed \in [Users -> 0 .. MaxOwed]
    /\ items \subseteq [num : Nat \ {0}, by : Users, day : 1 .. LastDay, rewarded : BOOLEAN]
    /\ req \in [Reqs -> Requests]
    /\ requests \in 0 .. MaxRequests

(* Credits are only made by starter grants and admins: whatever is transferred,
   paid, earned or rewarded leaves the sum over all accounts alone.
   (post_ledger: every pair of rows in one commit.) *)
Conserved ==
    SumFunctionOnSet(balance, Accounts) = granted + Starter * SumFunctionOnSet(starters, Accounts)

(* Balances are read before they are spent, so they can go below zero, but never
   further than what one slot of every handler and the jobs accepted and not yet
   settled can cost at once, however many there have been altogether: a check lets
   nobody pass at zero.  (transfer_credits, recipes_run, submit_job.) *)
DebtBounded ==
    \A u \in Users : balance[u] > -(MaxPrice * (Cardinality(Reqs) + MaxOwed))

(* The starter grant may be given twice to a new account, by handlers that both
   counted no rows, but never more often than handlers can be in flight at its
   first moment, and an account with rows gets none.  (ensure_starter_grant.) *)
StartersBounded == \A u \in Users : starters[u] <= Cardinality(Reqs)

(* At most DailyCap rewards per user and day, although the count is read long
   before the item is inserted: an item in between takes the number the handler
   has drawn.  (feedback: prior, item_number.) *)
RewardsCapped ==
    \A u \in Users, d \in 1 .. LastDay :
        Cardinality({i \in FiledBy(u, d) : i.rewarded}) <= DailyCap

(* The numbers of the board are 1 .. n, however many handlers draw the same one.
   (feedback, create_item, feedback from the till.) *)
BoardDense == {i.num : i \in items} = 1 .. Cardinality(items)
=============================================================================
