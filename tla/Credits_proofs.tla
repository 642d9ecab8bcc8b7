---------------------------- MODULE Credits_proofs ----------------------------
(***************************************************************************)
(* For any number of users, handlers, requests and days: the numbers of    *)
(* the board are dense, a user's rewards of a day never exceed the cap,    *)
(* starter grants and debts are bounded by what can be in flight at once.  *)
(* The ledger is never locked; these are what the unique number of the     *)
(* board and the slots of the handlers leave of "exactly once".            *)
(***************************************************************************)
EXTENDS Credits, Finite_proofs, FiniteSetTheorems, TLAPS

(* What a handler in flight carries. *)
Sound(h) ==
    /\ h.pc # "idle" => h.from \in Users
    /\ h.pc \in {"prior", "reward"} => h.kind = "feedback"
    /\ h.pc \in {"number", "file"} => h.kind \in {"feedback", "file"}
    /\ h.filed => h.pc = "reward"
    /\ h.kind \in {"transfer", "recipe"} => h.amount >= 1

HandlersSound == \A r \in Reqs : Sound(req[r])

(* It has drawn a number. *)
Drawn(h) == h.kind \in {"feedback", "file"} /\ h.pc \notin {"idle", "number"}

(* No number drawn is further than the next one. *)
DrawnNotAhead ==
    \A r \in Reqs : Drawn(req[r]) => req[r].num \in 1 .. (Cardinality(items) + 1)

NumbersUnique == \A i, j \in items : i.num = j.num => i = j

BoardInv == /\ TypeOK
            /\ HandlersSound
            /\ IsFiniteSet(items)
            /\ BoardDense
            /\ NumbersUnique
            /\ DrawnNotAhead

(* No item is from the future. *)
DaysPast == \A i \in items : i.day <= today

(* A handler that was found below the cap and has not filed its item: as long as
   its number is the next one, nothing was filed since, so the user still is. *)
CapAhead ==
    \A r \in Reqs :
        /\ req[r].kind = "feedback"
        /\ req[r].pc \in {"count", "grant", "reward"}
        /\ ~req[r].filed
        /\ req[r].num = Cardinality(items) + 1
        => Cardinality(FiledBy(req[r].from, today)) < DailyCap

(* Items rewarded, or filed by a handler that is about to. *)
Pending(k) == \E r \in Reqs : req[r].filed /\ req[r].num = k
Entitled(u, d) == {i \in FiledBy(u, d) : i.rewarded \/ Pending(i.num)}

EntitledCapped ==
    \A u \in Users, d \in 1 .. LastDay : Cardinality(Entitled(u, d)) <= DailyCap

(* An item filed ahead of its reward is on the board. *)
FiledPast == \A r \in Reqs : req[r].filed => req[r].num <= Cardinality(items)

CapInv == DaysPast /\ CapAhead /\ EntitledCapped /\ FiledPast

(* Handlers that counted no rows and are about to grant. *)
Granting(u) == {r \in Reqs : req[r].pc = "grant" /\ req[r].from = u}

StarterInv ==
    \A u \in Users : /\ starters[u] + Cardinality(Granting(u)) <= Cardinality(Reqs)
                     /\ u \notin known => starters[u] = 0

(* Handlers past their look at the balance. *)
Spending(u) == {r \in Reqs : req[r].pc \in {"pay", "queue"} /\ req[r].from = u}

(* Room for further debt: what is not in flight. *)
Room(u) == (Cardinality(Reqs) - Cardinality(Spending(u))) + (MaxOwed - owed[u])

DebtInv == \A u \in Users : balance[u] + MaxPrice * Room(u) > 0
-----------------------------------------------------------------------------
(* Sets of numbered items. *)

(* The maximum of 0 .. n. *)
LEMMA MaxDense ==
    ASSUME BoardInv
    PROVE  /\ Cardinality(items) \in Nat
           /\ Max({0} \cup {i.num : i \in items}) = Cardinality(items)
<1> DEFINE n == Cardinality(items)
           S == {0} \cup {i.num : i \in items}
<1>1. n \in Nat
  BY FS_CardinalityType DEF BoardInv
<1>2. S = 0 .. n
  BY <1>1 DEF BoardInv, BoardDense
<1> HIDE DEF S, n
<1>3. n \in S /\ \A y \in S : n >= y
  BY <1>1, <1>2
<1>4. \A x \in S : (\A y \in S : x >= y) => x = n
  BY <1>1, <1>2, <1>3
<1>5. Max(S) = n
  BY <1>3, <1>4 DEF Max
<1> QED BY <1>1, <1>5 DEF S, n

(* The next item extends the numbers by one. *)
LEMMA AddItem ==
    ASSUME BoardInv, NEW i, i.num \in 1 .. (Cardinality(items) + 1), Unique(i),
           items' = items \cup {i}
    PROVE  /\ i.num = Cardinality(items) + 1
           /\ Cardinality(items') = Cardinality(items) + 1
           /\ IsFiniteSet(items') /\ BoardDense' /\ NumbersUnique'
<1> DEFINE n == Cardinality(items)
<1>1. n \in Nat
  BY MaxDense
<1>2. i.num \notin 1 .. n
  <2>1. i.num \notin {x.num : x \in items}
    BY DEF Unique
  <2> QED BY <2>1 DEF BoardInv, BoardDense
<1>3. i.num = n + 1
  BY <1>1, <1>2
<1>4. i \notin items
  BY DEF Unique
<1>5. IsFiniteSet(items') /\ Cardinality(items') = n + 1
  BY <1>4, FS_AddElement DEF BoardInv
<1>6. {x.num : x \in items'} = {x.num : x \in items} \cup {n + 1}
  BY <1>3
<1>7. (1 .. n) \cup {n + 1} = 1 .. (n + 1)
  BY <1>1
<1>8. BoardDense'
  BY <1>5, <1>6, <1>7 DEF BoardInv, BoardDense
<1>9. NumbersUnique'
  BY DEF BoardInv, NumbersUnique, Unique
<1> QED BY <1>3, <1>5, <1>8, <1>9

(* Marking an item as rewarded. *)
Marked(i, k) == IF i.num = k THEN [i EXCEPT !.rewarded = TRUE] ELSE i

LEMMA MarkedItem ==
    ASSUME TypeOK, NEW i \in items, NEW k
    PROVE  /\ Marked(i, k).num = i.num
           /\ Marked(i, k).by = i.by
           /\ Marked(i, k).day = i.day
           /\ Marked(i, k) \in [num : Nat \ {0}, by : Users, day : 1 .. LastDay,
                                rewarded : BOOLEAN]
           /\ i.num = k => Marked(i, k).rewarded
           /\ i.num # k => Marked(i, k) = i
BY DEF TypeOK, Marked

LEMMA MarkItems ==
    ASSUME BoardInv, NEW k, items' = {Marked(i, k) : i \in items}
    PROVE  /\ Cardinality(items') = Cardinality(items)
           /\ IsFiniteSet(items') /\ BoardDense' /\ NumbersUnique'
<1> DEFINE f == [i \in items |-> Marked(i, k)]
<1>1. \A i \in items : f[i].num = i.num
  BY MarkedItem DEF BoardInv
<1>2. f \in Bijection(items, items')
  <2>1. f \in [items -> items']
    OBVIOUS
  <2>2. \A i, j \in items : f[i] = f[j] => i = j
    BY <1>1 DEF BoardInv, NumbersUnique
  <2>3. \A j \in items' : \E i \in items : f[i] = j
    OBVIOUS
  <2> QED BY <2>1, <2>2, <2>3 DEF Bijection, Injection, Surjection, IsInjective
<1>3. IsFiniteSet(items') /\ Cardinality(items') = Cardinality(items)
  BY <1>2, FS_Bijection DEF BoardInv, ExistsBijection
<1>4. \A j \in items' : \E i \in items : j = f[i]
  OBVIOUS
<1>5. {j.num : j \in items'} = {i.num : i \in items}
  <2>1. \A j \in items' : j.num \in {i.num : i \in items}
    BY <1>1, <1>4
  <2>2. \A i \in items : f[i] \in items' /\ i.num = f[i].num
    BY <1>1
  <2> QED BY <2>1, <2>2
<1>6. NumbersUnique'
  BY <1>1, <1>4 DEF BoardInv, NumbersUnique
<1> QED BY <1>3, <1>5, <1>6 DEF BoardInv, BoardDense

(* What PayReward does to an item filed before. *)
LEMMA MarkOwn ==
    ASSUME NEW k, NEW S
    PROVE  LET own == {i \in S : i.num = k}
           IN  (S \ own) \cup {[i EXCEPT !.rewarded = TRUE] : i \in own}
                 = {Marked(i, k) : i \in S}
BY DEF Marked
-----------------------------------------------------------------------------
(* Types. *)
LEMMA IdleTyped == Idle \in Requests /\ Sound(Idle) /\ ~Drawn(Idle)
BY AmountsAssumption DEF Idle, Requests, Accounts, Sound, Drawn

LEMMA MovedTyped ==
    ASSUME TypeOK, NEW from, NEW to, NEW n \in Int
    PROVE  Moved(from, to, n) \in [Accounts -> Int]
<1> SUFFICES ASSUME NEW a \in Accounts
             PROVE balance[a] - (IF a = from THEN n ELSE 0) + (IF a = to THEN n ELSE 0) \in Int
  BY DEF Moved
<1> QED BY DEF TypeOK

LEMMA CardReqs == /\ IsFiniteSet(Reqs) /\ Cardinality(Reqs) \in Nat
                  /\ Cardinality(Reqs) >= 1
                  /\ \A S \in SUBSET Reqs : /\ IsFiniteSet(S) /\ Cardinality(S) \in Nat
                                            /\ Cardinality(S) <= Cardinality(Reqs)
<1>1. Cardinality(Reqs) # 0
  BY ReqsAssumption, FS_EmptySet
<1> QED BY <1>1, ReqsAssumption, FS_CardinalityType, FS_Subset
-----------------------------------------------------------------------------
(* The board: one handler moves to h, and the items stay dense. *)
LEMMA HandlerStep ==
    ASSUME BoardInv, NEW r \in Reqs, NEW h \in Requests, Sound(h),
           Drawn(h) => h.num \in 1 .. (Cardinality(items') + 1),
           req' = [req EXCEPT ![r] = h],
           Cardinality(items') \in Nat, Cardinality(items') >= Cardinality(items)
    PROVE  /\ req' \in [Reqs -> Requests]
           /\ HandlersSound' /\ DrawnNotAhead'
<1>1. req \in [Reqs -> Requests]
  BY DEF BoardInv, TypeOK
<1>2. req' \in [Reqs -> Requests]
  BY <1>1
<1>3. \A q \in Reqs : req'[q] = IF q = r THEN h ELSE req[q]
  BY <1>1
<1>4. HandlersSound'
  BY <1>3 DEF BoardInv, HandlersSound
<1>5. Cardinality(items) \in Nat
  BY MaxDense
<1>6. ASSUME NEW q \in Reqs, Drawn(req'[q])
      PROVE  req'[q].num \in 1 .. (Cardinality(items') + 1)
  <2>1. CASE q = r
    BY <1>3, <1>6, <2>1
  <2>2. CASE q # r
    <3>1. req[q].num \in 1 .. (Cardinality(items) + 1)
      BY <1>3, <1>6, <2>2 DEF BoardInv, DrawnNotAhead
    <3> QED BY <1>3, <1>5, <2>2, <3>1
  <2> QED BY <2>1, <2>2
<1>7. DrawnNotAhead'
  BY <1>6 DEF DrawnNotAhead
<1> QED BY <1>2, <1>4, <1>7

(* A step that leaves the items alone. *)
LEMMA QuietStep ==
    ASSUME BoardInv, TypeOK', UNCHANGED items,
           \/ UNCHANGED req
           \/ \E r \in Reqs, h \in Requests :
                 /\ Sound(h)
                 /\ Drawn(h) => h.num \in 1 .. (Cardinality(items) + 1)
                 /\ req' = [req EXCEPT ![r] = h]
    PROVE  BoardInv'
<1>1. IsFiniteSet(items') /\ BoardDense' /\ NumbersUnique'
  BY DEF BoardInv, BoardDense, NumbersUnique
<1>2. CASE UNCHANGED req
  BY <1>1, <1>2 DEF BoardInv, HandlersSound, DrawnNotAhead
<1>3. ASSUME NEW r \in Reqs, NEW h \in Requests, Sound(h),
             Drawn(h) => h.num \in 1 .. (Cardinality(items) + 1),
             req' = [req EXCEPT ![r] = h]
      PROVE  BoardInv'
  <2>1. Cardinality(items') = Cardinality(items) /\ Cardinality(items) \in Nat
    BY MaxDense
  <2>3. /\ Cardinality(items') \in Nat /\ Cardinality(items') >= Cardinality(items)
        /\ Drawn(h) => h.num \in 1 .. (Cardinality(items') + 1)
    BY <1>3, <2>1
  <2>2. HandlersSound' /\ DrawnNotAhead'
    BY <1>3, <2>3, HandlerStep, Zenon
  <2> QED BY <1>1, <2>2 DEF BoardInv
<1> QED BY <1>2, <1>3

(* Where a handler is after the starter grant was ensured. *)
LEMMA EnsuredStep ==
    ASSUME BoardInv, NEW r \in Reqs, req[r].pc \in {"count", "grant"},
           NEW f \in BOOLEAN, f => req[r].kind = "feedback", Ensured(r, f)
    PROVE  \E h \in Requests :
              /\ Sound(h)
              /\ Drawn(h) => Drawn(req[r]) /\ h.num = req[r].num
              /\ req' = [req EXCEPT ![r] = h]
<1>1. req[r] \in Requests /\ Sound(req[r])
  BY DEF BoardInv, TypeOK, HandlersSound
<1>2. CASE req[r].kind = "look"
  BY <1>2, IdleTyped DEF Ensured, Done
<1>3. CASE req[r].kind # "look"
  <2> DEFINE p == IF req[r].kind = "feedback" THEN "reward" ELSE "check"
             h == [req[r] EXCEPT !.pc = p, !.filed = f]
  <2>1. req' = [req EXCEPT ![r] = h]
    BY <1>3 DEF Ensured
  <2>2. h \in Requests
    BY <1>1 DEF Requests
  <2>3. Sound(h)
    BY <1>1 DEF Sound, Requests
  <2>4. Drawn(h) => Drawn(req[r]) /\ h.num = req[r].num
    BY <1>1 DEF Drawn, Requests
  <2> QED BY <2>1, <2>2, <2>3, <2>4
<1> QED BY <1>2, <1>3

(* A handler that only moves on in its program. *)
LEMMA GotoStep ==
    ASSUME BoardInv, NEW r \in Reqs,
           NEW pc \in {"grant", "pay", "queue", "count", "file"},
           pc = "file" => req[r].kind = "feedback",
           req[r].pc \notin {"idle", "number", "reward"}, Goto(r, pc)
    PROVE  \E h \in Requests :
              /\ Sound(h)
              /\ Drawn(h) => h.num \in 1 .. (Cardinality(items) + 1)
              /\ req' = [req EXCEPT ![r] = h]
<1> DEFINE h == [req[r] EXCEPT !.pc = pc]
<1>1. req[r] \in Requests /\ Sound(req[r])
  BY DEF BoardInv, TypeOK, HandlersSound
<1>2. h \in Requests
  BY <1>1 DEF Requests
<1>3. Sound(h)
  BY <1>1 DEF Sound, Requests
<1>4. Drawn(h) => h.num \in 1 .. (Cardinality(items) + 1)
  BY <1>1 DEF Drawn, Requests, BoardInv, DrawnNotAhead
<1>5. req' = [req EXCEPT ![r] = h]
  BY <1>1 DEF Goto, BoardInv, TypeOK
<1> QED BY <1>2, <1>3, <1>4, <1>5

LEMMA BoardArrive ==
    ASSUME BoardInv, NEW r \in Reqs, NEW u \in Users,
           \/ Look(r, u) \/ SubmitJob(r, u) \/ Feedback(r, u) \/ FileItem(r, u)
           \/ \E n \in Prices : Recipe(r, u, n) \/ \E v \in Users : Transfer(r, u, v, n)
    PROVE  BoardInv'
<1>1. ASSUME NEW k \in {"look", "submit", "feedback", "file", "recipe", "transfer"},
             NEW to \in Accounts, NEW n \in 0 .. MaxPrice, NEW pc \in {"count", "number"},
             Start(r, k, u, to, n, pc),
             k \in {"recipe", "transfer"} => n >= 1,
             k \in {"feedback", "file"} <=> pc = "number"
      PROVE  BoardInv'
  <2> DEFINE h == [Idle EXCEPT !.pc = pc, !.kind = k, !.from = u, !.to = to, !.amount = n]
  <2>1. h \in Requests
    BY IdleTyped DEF Requests, Accounts
  <2>2. Sound(h) /\ ~Drawn(h)
    BY <1>1 DEF Sound, Drawn, Idle
  <2>3. req' = [req EXCEPT ![r] = h]
    BY <1>1 DEF Start
  <2>4. TypeOK'
    <3>1. requests' \in 0 .. MaxRequests
      BY <1>1, AmountsAssumption DEF Start, BoardInv, TypeOK
    <3>2. req' \in [Reqs -> Requests]
      BY <2>1, <2>3 DEF BoardInv, TypeOK
    <3> HIDE DEF h
    <3> QED BY <1>1, <3>1, <3>2 DEF Start, BoardInv, TypeOK, ledger
  <2> HIDE DEF h
  <2> QED BY <1>1, <2>1, <2>2, <2>3, <2>4, QuietStep DEF Start
<1>2. House \in Accounts /\ u \in Accounts /\ 0 \in 0 .. MaxPrice
  BY AmountsAssumption DEF Accounts
<1>3. CASE Look(r, u)
  BY <1>1, <1>2, <1>3 DEF Look
<1>4. CASE SubmitJob(r, u)
  BY <1>1, <1>2, <1>4 DEF SubmitJob
<1>5. CASE Feedback(r, u)
  BY <1>1, <1>2, <1>5 DEF Feedback
<1>6. CASE FileItem(r, u)
  BY <1>1, <1>2, <1>6 DEF FileItem
<1>7. ASSUME NEW n \in Prices, Recipe(r, u, n) PROVE BoardInv'
  <2>1. n \in 0 .. MaxPrice /\ n >= 1
    BY AmountsAssumption DEF Prices
  <2> QED BY <1>1, <1>2, <1>7, <2>1 DEF Recipe
<1>8. ASSUME NEW n \in Prices, NEW v \in Users, Transfer(r, u, v, n) PROVE BoardInv'
  <2>1. n \in 0 .. MaxPrice /\ n >= 1 /\ v \in Accounts
    BY AmountsAssumption DEF Prices, Accounts
  <2> QED BY <1>1, <1>8, <2>1 DEF Transfer
<1> QED BY <1>3, <1>4, <1>5, <1>6, <1>7, <1>8
-----------------------------------------------------------------------------
LEMMA DoneStep ==
    ASSUME BoardInv, NEW r \in Reqs, Done(r)
    PROVE  \E h \in Requests :
              /\ Sound(h)
              /\ Drawn(h) => h.num \in 1 .. (Cardinality(items) + 1)
              /\ req' = [req EXCEPT ![r] = h]
BY IdleTyped DEF Done

(* The steps that only touch handlers. *)
LEMMA BoardRead ==
    ASSUME BoardInv, NEW r \in Reqs,
           Count(r) \/ Check(r) \/ Number(r) \/ Prior(r) \/ End(r)
    PROVE  BoardInv'
<1>1. UNCHANGED <<today, ledger, owed, items, requests>>
  BY DEF Count, Check, Number, Prior, End
<1>2. \E h \in Requests :
         /\ Sound(h)
         /\ Drawn(h) => h.num \in 1 .. (Cardinality(items) + 1)
         /\ req' = [req EXCEPT ![r] = h]
  <2>1. CASE Count(r)
    <3>1. CASE Goto(r, "grant")
      BY <2>1, <3>1, GotoStep DEF Count
    <3>2. CASE Ensured(r, FALSE)
      <4>1. PICK h \in Requests : /\ Sound(h)
                                  /\ Drawn(h) => Drawn(req[r]) /\ h.num = req[r].num
                                  /\ req' = [req EXCEPT ![r] = h]
        BY <2>1, <3>2, EnsuredStep DEF Count
      <4> QED BY <4>1 DEF BoardInv, DrawnNotAhead
    <3> QED BY <2>1, <3>1, <3>2 DEF Count
  <2>2. CASE Check(r)
    <3>1. Goto(r, "queue") \/ Goto(r, "pay")
      BY <2>2 DEF Check
    <3> QED BY <2>2, <3>1, GotoStep DEF Check
  <2>3. CASE Number(r)
    <3> DEFINE n == Cardinality(items)
               p == IF req[r].kind = "file" THEN "file" ELSE "prior"
               h == [req[r] EXCEPT !.num = n + 1, !.pc = p]
    <3>1. n \in Nat /\ Max({0} \cup {i.num : i \in items}) = n
      BY MaxDense
    <3>2. req' = [req EXCEPT ![r] = h]
      BY <2>3, <3>1 DEF Number
    <3>3. req[r] \in Requests /\ Sound(req[r]) /\ req[r].pc = "number"
      BY <2>3 DEF BoardInv, TypeOK, HandlersSound, Number
    <3>8. p \in {"file", "prior"}
      OBVIOUS
    <3> HIDE DEF n, p
    <3>9. n + 1 \in Nat
      BY <3>1
    <3>4. h \in Requests
      BY <3>3, <3>8, <3>9 DEF Requests
    <3>5. req[r].kind \in {"feedback", "file"}
      BY <3>3 DEF Sound
    <3>6. Sound(h)
      BY <3>3, <3>5 DEF Sound, Requests, p
    <3>7. h.num \in 1 .. (n + 1)
      BY <3>1, <3>3 DEF Requests
    <3> QED BY <3>2, <3>4, <3>6, <3>7 DEF n
  <2>4. CASE Prior(r)
    <3>1. Goto(r, "count") \/ Goto(r, "file")
      BY <2>4 DEF Prior
    <3>2. req[r].pc = "prior" /\ req[r].kind = "feedback"
      BY <2>4 DEF Prior, BoardInv, HandlersSound, Sound
    <3> QED BY <3>1, <3>2, GotoStep
  <2>5. CASE End(r)
    BY <2>5, DoneStep DEF End
  <2> QED BY <2>1, <2>2, <2>3, <2>4, <2>5
<1>3. TypeOK'
  <2>1. req' \in [Reqs -> Requests]
    BY <1>2 DEF BoardInv, TypeOK
  <2> QED BY <1>1, <2>1 DEF BoardInv, TypeOK, ledger
<1> QED BY <1>1, <1>2, <1>3, QuietStep

(* The steps of the ledger that file nothing. *)
LEMMA BoardLedger ==
    ASSUME BoardInv,
           \/ \E r \in Reqs : Pay(r) \/ Queue(r)
           \/ \E u \in Users : \/ Drop(u) \/ AdminGrant(u)
                               \/ \E to \in Accounts, n \in Prices : Settle(u, to, n)
    PROVE  BoardInv'
<1> USE AmountsAssumption
<1>1. ASSUME NEW r \in Reqs, Pay(r) PROVE BoardInv'
  <2>1. req[r] \in Requests /\ req[r].amount \in Int
    BY DEF BoardInv, TypeOK, Requests
  <2>2. balance' \in [Accounts -> Int]
    BY <1>1, <2>1, MovedTyped DEF Pay, BoardInv
  <2>3. known' \subseteq Accounts
    BY <1>1, <2>1 DEF Pay, BoardInv, TypeOK, Requests
  <2>4. req' \in [Reqs -> Requests]
    BY <1>1, DoneStep DEF Pay, BoardInv, TypeOK
  <2>5. TypeOK'
    BY <1>1, <2>2, <2>3, <2>4 DEF Pay, BoardInv, TypeOK
  <2> QED BY <1>1, <2>5, DoneStep, QuietStep DEF Pay
<1>2. ASSUME NEW r \in Reqs, Queue(r) PROVE BoardInv'
  <2>1. req' \in [Reqs -> Requests]
    BY <1>2, DoneStep DEF Queue, BoardInv, TypeOK
  <2>2. owed' \in [Users -> 0 .. MaxOwed]
    <3>1. req[r].from \in Users /\ owed \in [Users -> 0 .. MaxOwed]
      BY <1>2 DEF Queue, BoardInv, TypeOK, HandlersSound, Sound
    <3>2. owed[req[r].from] + 1 \in 0 .. MaxOwed
      BY <1>2, <3>1 DEF Queue
    <3> QED BY <1>2, <3>1, <3>2 DEF Queue
  <2>3. TypeOK'
    BY <1>2, <2>1, <2>2 DEF Queue, BoardInv, TypeOK, ledger
  <2> QED BY <1>2, <2>3, DoneStep, QuietStep DEF Queue
<1>3. ASSUME NEW u \in Users, Drop(u) PROVE BoardInv'
  <2>1. TypeOK'
    BY <1>3 DEF Drop, BoardInv, TypeOK, ledger
  <2> QED BY <1>3, <2>1, QuietStep DEF Drop
<1>4. ASSUME NEW u \in Users, AdminGrant(u) PROVE BoardInv'
  <2>1. TypeOK'
    BY <1>4 DEF AdminGrant, BoardInv, TypeOK, Accounts
  <2> QED BY <1>4, <2>1, QuietStep DEF AdminGrant
<1>5. ASSUME NEW u \in Users, NEW to \in Accounts, NEW n \in Prices, Settle(u, to, n)
      PROVE  BoardInv'
  <2>1. balance' \in [Accounts -> Int]
    BY <1>5, MovedTyped DEF Settle, BoardInv, Prices
  <2>2. owed' \in [Users -> 0 .. MaxOwed]
    BY <1>5 DEF Settle, BoardInv, TypeOK
  <2>3. TypeOK'
    BY <1>5, <2>1, <2>2 DEF Settle, BoardInv, TypeOK, Accounts
  <2> QED BY <1>5, <2>3, QuietStep DEF Settle
<1> QED BY <1>1, <1>2, <1>3, <1>4, <1>5

LEMMA ItemTyped ==
    ASSUME BoardInv, NEW r \in Reqs, Drawn(req[r]), NEW w \in BOOLEAN
    PROVE  /\ Item(r, w) \in [num : Nat \ {0}, by : Users, day : 1 .. LastDay, rewarded : BOOLEAN]
           /\ Item(r, w).num \in 1 .. (Cardinality(items) + 1)
<1>1. req[r].from \in Users
  BY DEF BoardInv, HandlersSound, Sound, Drawn
<1>2. req[r].num \in 1 .. (Cardinality(items) + 1)
  BY DEF BoardInv, DrawnNotAhead
<1>3. today \in 1 .. LastDay
  BY DEF BoardInv, TypeOK
<1> QED BY <1>1, <1>2, <1>3, MaxDense DEF Item

LEMMA ItemAdded ==
    ASSUME BoardInv, NEW r \in Reqs, Drawn(req[r]), NEW w \in BOOLEAN,
           Unique(Item(r, w)), items' = items \cup {Item(r, w)}
    PROVE  /\ items' \subseteq [num : Nat \ {0}, by : Users, day : 1 .. LastDay, rewarded : BOOLEAN]
           /\ Cardinality(items') \in Nat /\ Cardinality(items') >= Cardinality(items)
           /\ IsFiniteSet(items') /\ BoardDense' /\ NumbersUnique'
           /\ Cardinality(items') = Cardinality(items) + 1
           /\ req[r].num = Cardinality(items) + 1
<1> DEFINE i == Item(r, w)
<1>1. /\ i \in [num : Nat \ {0}, by : Users, day : 1 .. LastDay, rewarded : BOOLEAN]
      /\ i.num \in 1 .. (Cardinality(items) + 1)
  BY ItemTyped
<1>2. i.num = req[r].num
  BY DEF Item
<1> HIDE DEF i
<1>3. Unique(i) /\ items' = items \cup {i}
  BY DEF i
<1>4. /\ i.num = Cardinality(items) + 1
      /\ Cardinality(items') = Cardinality(items) + 1
      /\ IsFiniteSet(items') /\ BoardDense' /\ NumbersUnique'
  BY <1>1, <1>3, AddItem, Zenon
<1>5. Cardinality(items) \in Nat
  BY MaxDense
<1>6. items \subseteq [num : Nat \ {0}, by : Users, day : 1 .. LastDay, rewarded : BOOLEAN]
  BY DEF BoardInv, TypeOK
<1> QED BY <1>1, <1>2, <1>3, <1>4, <1>5, <1>6

LEMMA BoardFile ==
    ASSUME BoardInv, NEW r \in Reqs, File(r)
    PROVE  BoardInv'
<1>1. Drawn(req[r])
  BY DEF BoardInv, HandlersSound, Sound, File, Drawn
<1>2. /\ items' \subseteq [num : Nat \ {0}, by : Users, day : 1 .. LastDay, rewarded : BOOLEAN]
      /\ Cardinality(items') = Cardinality(items) + 1
      /\ IsFiniteSet(items') /\ BoardDense' /\ NumbersUnique'
  BY <1>1, ItemAdded DEF File
<1>3. req' \in [Reqs -> Requests] /\ HandlersSound' /\ DrawnNotAhead'
  <2>1. Cardinality(items') \in Nat /\ Cardinality(items') >= Cardinality(items)
    BY <1>2, MaxDense
  <2>2. req' = [req EXCEPT ![r] = Idle]
    BY DEF File, Done
  <2> QED BY <2>1, <2>2, IdleTyped, HandlerStep, Zenon
<1>4. TypeOK'
  BY <1>2, <1>3 DEF File, BoardInv, TypeOK, ledger
<1> QED BY <1>2, <1>3, <1>4 DEF BoardInv

LEMMA BoardGrant ==
    ASSUME BoardInv, NEW r \in Reqs, GrantStarter(r)
    PROVE  BoardInv'
<1> DEFINE u == req[r].from
           f == req[r].kind = "feedback"
<1>1. req[r].pc = "grant" /\ u \in Users
  BY DEF BoardInv, HandlersSound, Sound, GrantStarter
<1>2. /\ items' \subseteq [num : Nat \ {0}, by : Users, day : 1 .. LastDay, rewarded : BOOLEAN]
      /\ Cardinality(items') \in Nat /\ Cardinality(items') >= Cardinality(items)
      /\ IsFiniteSet(items') /\ BoardDense' /\ NumbersUnique'
  <2>1. CASE f
    <3>1. Drawn(req[r])
      BY <1>1, <2>1 DEF Drawn
    <3>2. items' = items \cup {Item(r, FALSE)} /\ Unique(Item(r, FALSE))
      BY <2>1 DEF GrantStarter
    <3> QED BY <3>1, <3>2, ItemAdded
  <2>2. CASE ~f
    <3>1. items' = items
      BY <2>2 DEF GrantStarter
    <3> QED BY <3>1, MaxDense DEF BoardInv, TypeOK, BoardDense, NumbersUnique
  <2> QED BY <2>1, <2>2
<1>3. Ensured(r, f) /\ f \in BOOLEAN
  BY DEF GrantStarter
<1>4. PICK h \in Requests : /\ Sound(h)
                            /\ Drawn(h) => Drawn(req[r]) /\ h.num = req[r].num
                            /\ req' = [req EXCEPT ![r] = h]
  BY <1>1, <1>3, EnsuredStep
<1>5. Drawn(h) => h.num \in 1 .. (Cardinality(items') + 1)
  BY <1>2, <1>4, MaxDense DEF BoardInv, DrawnNotAhead
<1>6. req' \in [Reqs -> Requests] /\ HandlersSound' /\ DrawnNotAhead'
  BY <1>2, <1>4, <1>5, HandlerStep, Zenon
<1>7. TypeOK'
  <2>1. balance' \in [Accounts -> Int] /\ starters' \in [Accounts -> Nat]
    <3>1. u \in Accounts /\ Starter \in Nat
      BY <1>1, AmountsAssumption DEF Accounts
    <3>2. balance[u] + Starter \in Int /\ starters[u] + 1 \in Nat
      BY <3>1 DEF BoardInv, TypeOK
    <3>3. balance \in [Accounts -> Int] /\ starters \in [Accounts -> Nat]
      BY DEF BoardInv, TypeOK
    <3>4. /\ balance' = [balance EXCEPT ![u] = balance[u] + Starter]
          /\ starters' = [starters EXCEPT ![u] = starters[u] + 1]
      BY DEF GrantStarter
    <3> HIDE DEF u
    <3> QED BY <3>2, <3>3, <3>4
  <2>2. known' \subseteq Accounts
    BY <1>1 DEF GrantStarter, BoardInv, TypeOK, Accounts
  <2> QED BY <1>2, <1>6, <2>1, <2>2 DEF GrantStarter, BoardInv, TypeOK
<1> QED BY <1>2, <1>6, <1>7 DEF BoardInv

LEMMA BoardReward ==
    ASSUME BoardInv, NEW r \in Reqs, PayReward(r)
    PROVE  BoardInv'
<1> DEFINE u == req[r].from
           k == req[r].num
           Items == [num : Nat \ {0}, by : Users, day : 1 .. LastDay, rewarded : BOOLEAN]
<1>1. u \in Users /\ Drawn(req[r])
  BY DEF BoardInv, HandlersSound, Sound, PayReward, Drawn
<1>2. /\ items' \subseteq Items
      /\ Cardinality(items') \in Nat /\ Cardinality(items') >= Cardinality(items)
      /\ IsFiniteSet(items') /\ BoardDense' /\ NumbersUnique'
  <2>1. CASE items' = items \cup {Item(r, TRUE)} /\ Unique(Item(r, TRUE))
    BY <1>1, <2>1, ItemAdded
  <2>2. CASE items' = {Marked(i, k) : i \in items}
    <3>1. items' \subseteq Items
      BY <2>2, MarkedItem DEF BoardInv
    <3> QED BY <2>2, <3>1, MarkItems, MaxDense
  <2>3. (\/ items' = items \cup {Item(r, TRUE)} /\ Unique(Item(r, TRUE))
         \/ items' = {Marked(i, k) : i \in items})
    BY MarkOwn DEF PayReward
  <2> QED BY <2>1, <2>2, <2>3
<1>3. req' \in [Reqs -> Requests] /\ HandlersSound' /\ DrawnNotAhead'
  BY <1>2, IdleTyped, HandlerStep DEF PayReward, Done
<1>4. TypeOK'
  <2>1. balance' \in [Accounts -> Int]
    BY AmountsAssumption, MovedTyped DEF PayReward, BoardInv
  <2>2. known' \subseteq Accounts
    BY <1>1 DEF PayReward, BoardInv, TypeOK, Accounts
  <2> QED BY <1>2, <1>3, <2>1, <2>2 DEF PayReward, BoardInv, TypeOK
<1> QED BY <1>2, <1>3, <1>4 DEF BoardInv

LEMMA BoardMidnight ==
    ASSUME BoardInv, Midnight
    PROVE  BoardInv'
<1>1. TypeOK'
  BY AmountsAssumption DEF Midnight, BoardInv, TypeOK, ledger
<1> QED BY <1>1, QuietStep DEF Midnight

LEMMA BoardInit == Init => BoardInv
<1> SUFFICES ASSUME Init PROVE BoardInv
  OBVIOUS
<1>1. IsFiniteSet(items) /\ Cardinality(items) = 0
  BY FS_EmptySet DEF Init
<1>2. TypeOK
  BY IdleTyped, AmountsAssumption DEF Init, TypeOK, Accounts
<1>3. BoardDense /\ NumbersUnique
  BY <1>1 DEF Init, BoardDense, NumbersUnique
<1> QED BY <1>1, <1>2, <1>3, IdleTyped DEF Init, BoardInv, HandlersSound, DrawnNotAhead

LEMMA BoardNext == BoardInv /\ [Next]_vars => BoardInv'
<1> SUFFICES ASSUME BoardInv, [Next]_vars PROVE BoardInv'
  OBVIOUS
<1>1. ASSUME NEW r \in Reqs, NEW u \in Users,
             \/ Look(r, u) \/ SubmitJob(r, u) \/ Feedback(r, u) \/ FileItem(r, u)
             \/ \E n \in Prices : Recipe(r, u, n) \/ \E v \in Users : Transfer(r, u, v, n)
      PROVE  BoardInv'
  BY <1>1, BoardArrive
<1>2. ASSUME NEW r \in Reqs, Count(r) \/ Check(r) \/ Number(r) \/ Prior(r) \/ End(r)
      PROVE  BoardInv'
  BY <1>2, BoardRead
<1>3. ASSUME \/ \E r \in Reqs : Pay(r) \/ Queue(r)
             \/ \E u \in Users : \/ Drop(u) \/ AdminGrant(u)
                                 \/ \E to \in Accounts, n \in Prices : Settle(u, to, n)
      PROVE  BoardInv'
  BY <1>3, BoardLedger
<1>4. ASSUME NEW r \in Reqs, File(r) \/ GrantStarter(r) \/ PayReward(r) PROVE BoardInv'
  BY <1>4, BoardFile, BoardGrant, BoardReward
<1>5. CASE Midnight
  BY <1>5, BoardMidnight
<1>6. CASE UNCHANGED vars
  <2>1. UNCHANGED <<today, ledger, owed, items, req, requests>>
    BY <1>6 DEF vars
  <2>2. TypeOK'
    BY <2>1 DEF BoardInv, TypeOK, ledger
  <2> QED BY <2>1, <2>2, QuietStep
<1> QED BY <1>1, <1>2, <1>3, <1>4, <1>5, <1>6 DEF Next

LEMMA BoardAlways == Spec => []BoardInv
<1> QED BY BoardInit, BoardNext, PTL DEF Spec

(* Every column and handler holds what it may hold: in particular the number a
   handler draws is one (services/compute_service.py, bottega_router.py). *)
THEOREM TypeCorrect == Spec => []TypeOK
<1>1. BoardInv => TypeOK
  BY DEF BoardInv
<1> QED BY <1>1, BoardAlways, PTL

(* The board's numbers are 1 .. n, whoever files and whichever of the routers the
   number is drawn in: the unique number refuses a stale maximum. *)
THEOREM BoardStaysDense == Spec => []BoardDense
<1>1. BoardInv => BoardDense
  BY DEF BoardInv
<1> QED BY <1>1, BoardAlways, PTL
-----------------------------------------------------------------------------
(* What the ways to leave a step do to the handlers. *)
LEMMA Leaving ==
    ASSUME BoardInv, NEW r \in Reqs
    PROVE  /\ Done(r) =>
                 /\ \A q \in Reqs : q # r => req'[q] = req[q]
                 /\ req'[r].pc = "idle" /\ ~req'[r].filed
           /\ \A pc : Goto(r, pc) =>
                 /\ \A q \in Reqs : q # r => req'[q] = req[q]
                 /\ req'[r].pc = pc
                 /\ req'[r].kind = req[r].kind /\ req'[r].from = req[r].from
                 /\ req'[r].num = req[r].num /\ req'[r].filed = req[r].filed
           /\ \A f \in BOOLEAN : Ensured(r, f) =>
                 /\ \A q \in Reqs : q # r => req'[q] = req[q]
                 /\ req'[r].pc \in {"idle", "reward", "check"}
                 /\ req'[r].pc = "reward" => req'[r].filed = f
                 /\ req'[r].filed => f
                 /\ req'[r].pc # "idle" => /\ req'[r].kind = req[r].kind
                                           /\ req'[r].from = req[r].from
                                           /\ req'[r].num = req[r].num
<1>1. req[r] \in Requests /\ req \in [Reqs -> Requests]
  BY DEF BoardInv, TypeOK
<1>2. ASSUME Done(r)
      PROVE  /\ \A q \in Reqs : q # r => req'[q] = req[q]
             /\ req'[r].pc = "idle" /\ ~req'[r].filed
  BY <1>1, <1>2 DEF Done, Idle
<1>3. ASSUME NEW pc, Goto(r, pc)
      PROVE  /\ \A q \in Reqs : q # r => req'[q] = req[q]
             /\ req'[r].pc = pc
             /\ req'[r].kind = req[r].kind /\ req'[r].from = req[r].from
             /\ req'[r].num = req[r].num /\ req'[r].filed = req[r].filed
  BY <1>1, <1>3 DEF Goto, Requests
<1>4. ASSUME NEW f \in BOOLEAN, Ensured(r, f)
      PROVE  /\ \A q \in Reqs : q # r => req'[q] = req[q]
             /\ req'[r].pc \in {"idle", "reward", "check"}
             /\ req'[r].pc = "reward" => req'[r].filed = f
             /\ req'[r].filed => f
             /\ req'[r].pc # "idle" => /\ req'[r].kind = req[r].kind
                                       /\ req'[r].from = req[r].from
                                       /\ req'[r].num = req[r].num
  <2>1. CASE req[r].kind = "look"
    BY <1>1, <1>4, <2>1 DEF Ensured, Done, Idle
  <2>2. CASE req[r].kind # "look"
    <3> DEFINE p == IF req[r].kind = "feedback" THEN "reward" ELSE "check"
    <3>1. p \in {"reward", "check"}
      OBVIOUS
    <3>2. req' = [req EXCEPT ![r] = [req[r] EXCEPT !.pc = p, !.filed = f]]
      BY <1>4, <2>2 DEF Ensured
    <3> HIDE DEF p
    <3> QED BY <1>1, <3>1, <3>2 DEF Requests
  <2> QED BY <2>1, <2>2
<1> QED BY <1>2, <1>3, <1>4

LEMMA Arriving ==
    ASSUME BoardInv, NEW r \in Reqs, NEW u \in Users,
           \/ Look(r, u) \/ SubmitJob(r, u) \/ Feedback(r, u) \/ FileItem(r, u)
           \/ \E n \in Prices : Recipe(r, u, n) \/ \E v \in Users : Transfer(r, u, v, n)
    PROVE  /\ \A q \in Reqs : q # r => req'[q] = req[q]
           /\ \/ req'[r].pc = "count" /\ req'[r].kind # "feedback"
              \/ req'[r].pc = "number"
           /\ ~req'[r].filed
           /\ UNCHANGED <<today, ledger, owed, items>>
<1>1. ASSUME NEW k, NEW to, NEW n, NEW pc, Start(r, k, u, to, n, pc)
      PROVE  /\ \A q \in Reqs : q # r => req'[q] = req[q]
             /\ req'[r].pc = pc /\ req'[r].kind = k /\ ~req'[r].filed
             /\ UNCHANGED <<today, ledger, owed, items>>
  BY <1>1 DEF Start, BoardInv, TypeOK, Idle
<1> QED BY <1>1 DEF Look, SubmitJob, Feedback, FileItem, Recipe, Transfer
-----------------------------------------------------------------------------
(* Starter grants. *)

(* Nobody new is about to grant, and nothing is granted. *)
LEMMA StarterFrame ==
    ASSUME BoardInv, StarterInv, UNCHANGED starters, known \subseteq known',
           \A q \in Reqs : req'[q] = req[q] \/ req'[q].pc # "grant"
    PROVE  StarterInv'
<1> SUFFICES ASSUME NEW u \in Users
             PROVE  /\ starters[u] + Cardinality(Granting(u)') <= Cardinality(Reqs)
                    /\ u \notin known' => starters[u] = 0
  BY DEF StarterInv
<1>1. Granting(u)' \subseteq Granting(u) /\ Granting(u) \subseteq Reqs
  BY DEF Granting
<1>2. /\ Cardinality(Granting(u)') <= Cardinality(Granting(u))
      /\ Cardinality(Granting(u)') \in Nat /\ Cardinality(Granting(u)) \in Nat
  BY <1>1, CardReqs, FS_Subset
<1>3. starters[u] + Cardinality(Granting(u)) <= Cardinality(Reqs)
  BY DEF StarterInv
<1>4. starters[u] \in Nat /\ (u \notin known => starters[u] = 0)
  BY DEF StarterInv, BoardInv, TypeOK, Accounts
<1> QED BY <1>2, <1>3, <1>4, CardReqs

LEMMA StarterCount ==
    ASSUME BoardInv, StarterInv, NEW r \in Reqs, Count(r)
    PROVE  StarterInv'
<1>1. UNCHANGED <<starters, known>>
  BY DEF Count, ledger
<1>2. CASE Ensured(r, FALSE)
  <2>1. \A q \in Reqs : req'[q] = req[q] \/ req'[q].pc # "grant"
    BY <1>2, Leaving
  <2> QED BY <1>1, <2>1, StarterFrame
<1>3. CASE req[r].from \notin known /\ Goto(r, "grant")
  <2> SUFFICES ASSUME NEW u \in Users
               PROVE  /\ starters[u] + Cardinality(Granting(u)') <= Cardinality(Reqs)
                      /\ u \notin known => starters[u] = 0
    BY <1>1 DEF StarterInv
  <2>1. Granting(u)' \subseteq Reqs
    BY DEF Granting
  <2>2. CASE u = req[r].from
    BY <1>3, <2>1, <2>2, CardReqs DEF StarterInv
  <2>3. CASE u # req[r].from
    <3>1. Granting(u)' = Granting(u)
      BY <1>3, <2>3, Leaving DEF Granting, Count
    <3> QED BY <3>1 DEF StarterInv
  <2> QED BY <2>2, <2>3
<1> QED BY <1>2, <1>3 DEF Count

LEMMA StarterGranted ==
    ASSUME BoardInv, StarterInv, NEW r \in Reqs, GrantStarter(r)
    PROVE  StarterInv'
<1>1. req[r].pc = "grant" /\ req[r].from \in Users
  BY DEF GrantStarter, BoardInv, HandlersSound, Sound
<1>2. /\ \A q \in Reqs : q # r => req'[q] = req[q]
      /\ req'[r].pc # "grant"
  <2>1. \E f \in BOOLEAN : Ensured(r, f)
    BY DEF GrantStarter
  <2> QED BY <2>1, Leaving
<1>3. known' = known \cup {req[r].from}
  BY DEF GrantStarter
<1>4. \A v \in Users : starters'[v] = starters[v] + (IF v = req[r].from THEN 1 ELSE 0)
  BY DEF GrantStarter, BoardInv, TypeOK, Accounts
<1> SUFFICES ASSUME NEW u \in Users
             PROVE  /\ starters'[u] + Cardinality(Granting(u)') <= Cardinality(Reqs)
                    /\ u \notin known' => starters'[u] = 0
  BY DEF StarterInv
<1>5. Granting(u) \subseteq Reqs
  BY DEF Granting
<1>6. starters[u] \in Nat /\ starters[u] + Cardinality(Granting(u)) <= Cardinality(Reqs)
  BY DEF StarterInv, BoardInv, TypeOK, Accounts
<1>7. CASE u = req[r].from
  <2>1. Granting(u)' = Granting(u) \ {r} /\ r \in Granting(u)
    BY <1>1, <1>2, <1>7 DEF Granting
  <2>2. Cardinality(Granting(u)') = Cardinality(Granting(u)) - 1
    BY <1>5, <2>1, CardReqs, FS_RemoveElement
  <2>3. Cardinality(Granting(u)) \in Nat
    BY <1>5, CardReqs
  <2> QED BY <1>3, <1>4, <1>6, <1>7, <2>2, <2>3, CardReqs
<1>8. CASE u # req[r].from
  <2>1. Granting(u)' = Granting(u)
    BY <1>1, <1>2, <1>8 DEF Granting
  <2>2. starters'[u] = starters[u]
    BY <1>4, <1>6, <1>8
  <2> QED BY <1>3, <1>6, <2>1, <2>2 DEF StarterInv
<1> QED BY <1>7, <1>8

LEMMA StarterNext == BoardInv /\ StarterInv /\ [Next]_vars => StarterInv'
<1> SUFFICES ASSUME BoardInv, StarterInv, [Next]_vars PROVE StarterInv'
  OBVIOUS
<1>1. ASSUME NEW r \in Reqs, NEW u \in Users,
             \/ Look(r, u) \/ SubmitJob(r, u) \/ Feedback(r, u) \/ FileItem(r, u)
             \/ \E n \in Prices : Recipe(r, u, n) \/ \E v \in Users : Transfer(r, u, v, n)
      PROVE  StarterInv'
  BY <1>1, Arriving, StarterFrame DEF ledger
<1>2. ASSUME NEW r \in Reqs, Check(r) \/ Number(r) \/ Prior(r) PROVE StarterInv'
  <2>1. UNCHANGED <<starters, known>>
    BY <1>2 DEF Check, Number, Prior, ledger
  <2>2. \A q \in Reqs : req'[q] = req[q] \/ req'[q].pc # "grant"
    <3>1. CASE Check(r)
      BY <3>1, Leaving DEF Check
    <3>2. CASE Number(r)
      BY <3>2 DEF Number, BoardInv, TypeOK, Requests
    <3>3. CASE Prior(r)
      BY <3>3, Leaving DEF Prior
    <3> QED BY <1>2, <3>1, <3>2, <3>3
  <2> QED BY <2>1, <2>2, StarterFrame
<1>3. ASSUME NEW r \in Reqs, Pay(r) \/ Queue(r) \/ File(r) \/ PayReward(r) \/ End(r)
      PROVE  StarterInv'
  <2>1. Done(r) /\ UNCHANGED starters /\ known \subseteq known'
    BY <1>3 DEF Pay, Queue, File, PayReward, End, ledger
  <2>2. \A q \in Reqs : req'[q] = req[q] \/ req'[q].pc # "grant"
    BY <2>1, Leaving
  <2> QED BY <2>1, <2>2, StarterFrame
<1>4. ASSUME NEW r \in Reqs, Count(r) \/ GrantStarter(r) PROVE StarterInv'
  BY <1>4, StarterCount, StarterGranted
<1>5. ASSUME \/ \E u \in Users : \/ Drop(u) \/ AdminGrant(u)
                                 \/ \E to \in Accounts, n \in Prices : Settle(u, to, n)
             \/ Midnight
             \/ UNCHANGED vars
      PROVE  StarterInv'
  <2>1. UNCHANGED <<starters, req>> /\ known \subseteq known'
    BY <1>5 DEF Drop, AdminGrant, Settle, Midnight, vars, ledger
  <2> QED BY <2>1, StarterFrame
<1> QED BY <1>1, <1>2, <1>3, <1>4, <1>5 DEF Next

LEMMA StarterInit == Init => StarterInv
<1> SUFFICES ASSUME Init, NEW u \in Users
             PROVE  starters[u] = 0 /\ Granting(u) = {}
  BY CardReqs, FS_EmptySet DEF StarterInv
<1> QED BY DEF Init, Accounts, Granting, Idle

(* A new account gets at most as many starter grants as handlers can be in flight
   when the first one commits, and nobody is granted one later: who counts rows
   after that commit finds some (ensure_starter_grant). *)
THEOREM StartersStayBounded == Spec => []StartersBounded
<1>1. BoardInv /\ StarterInv => StartersBounded
  <2> SUFFICES ASSUME BoardInv, StarterInv, NEW u \in Users
               PROVE  starters[u] <= Cardinality(Reqs)
    BY DEF StartersBounded
  <2>1. Granting(u) \subseteq Reqs
    BY DEF Granting
  <2>2. Cardinality(Granting(u)) \in Nat /\ starters[u] \in Nat
    BY <2>1, CardReqs DEF BoardInv, TypeOK, Accounts
  <2>3. starters[u] + Cardinality(Granting(u)) <= Cardinality(Reqs)
    BY DEF StarterInv
  <2> QED BY <2>2, <2>3, CardReqs
<1> QED BY <1>1, BoardAlways, StarterInit, StarterNext, PTL DEF Spec
-----------------------------------------------------------------------------
(* Debts. *)
LEMMA Times ==
    ASSUME NEW a \in Int, NEW b \in Int, a <= b
    PROVE  /\ MaxPrice \in Nat \ {0} /\ MaxOwed \in Nat
           /\ MaxPrice * a \in Int /\ MaxPrice * b \in Int
           /\ MaxPrice * a <= MaxPrice * b
           /\ MaxPrice * (a + 1) = MaxPrice * a + MaxPrice
<1>1. MaxPrice \in Nat \ {0} /\ MaxOwed \in Nat
  BY AmountsAssumption
<1> QED BY <1>1

LEMMA SpendingFinite ==
    ASSUME BoardInv, NEW u \in Users
    PROVE  /\ IsFiniteSet(Spending(u)) /\ Cardinality(Spending(u)) \in 0 .. Cardinality(Reqs)
           /\ owed[u] \in 0 .. MaxOwed /\ balance[u] \in Int
           /\ Room(u) \in Nat
<1>1. Spending(u) \subseteq Reqs
  BY DEF Spending
<1>2. IsFiniteSet(Spending(u)) /\ Cardinality(Spending(u)) \in 0 .. Cardinality(Reqs)
  BY <1>1, CardReqs
<1>3. owed[u] \in 0 .. MaxOwed /\ balance[u] \in Int
  BY DEF BoardInv, TypeOK, Accounts
<1> QED BY <1>2, <1>3, CardReqs, AmountsAssumption DEF Room

LEMMA SpendingFiniteNext ==
    ASSUME BoardInv', NEW u \in Users
    PROVE  /\ Cardinality(Spending(u)') \in 0 .. Cardinality(Reqs)
           /\ owed'[u] \in 0 .. MaxOwed /\ balance'[u] \in Int
           /\ Room(u)' \in Nat
<1>1. Spending(u)' \subseteq Reqs
  BY DEF Spending
<1>2. Cardinality(Spending(u)') \in 0 .. Cardinality(Reqs)
  BY <1>1, CardReqs
<1>3. owed'[u] \in 0 .. MaxOwed /\ balance'[u] \in Int
  BY DEF BoardInv, TypeOK, Accounts
<1> QED BY <1>2, <1>3, CardReqs, AmountsAssumption DEF Room

(* Nobody passes a check, and what a user loses is room regained. *)
LEMMA DebtFrame ==
    ASSUME BoardInv, BoardInv', DebtInv, NEW u \in Users,
           Room(u)' >= Room(u), balance'[u] >= balance[u]
    PROVE  balance'[u] + MaxPrice * Room(u)' > 0
<1>1. Room(u) \in Nat /\ Room(u)' \in Nat /\ balance[u] \in Int /\ balance'[u] \in Int
  BY SpendingFinite, SpendingFiniteNext
<1>2. balance[u] + MaxPrice * Room(u) > 0
  BY DEF DebtInv
<1>3. /\ MaxPrice * Room(u) \in Int /\ MaxPrice * Room(u)' \in Int
      /\ MaxPrice * Room(u) <= MaxPrice * Room(u)'
  BY <1>1, Times
<1> QED BY <1>1, <1>2, <1>3

LEMMA DebtPaid ==
    ASSUME BoardInv, BoardInv', DebtInv, NEW u \in Users,
           Room(u)' = Room(u) + 1, balance'[u] >= balance[u] - MaxPrice
    PROVE  balance'[u] + MaxPrice * Room(u)' > 0
<1>1. Room(u) \in Nat /\ balance[u] \in Int /\ balance'[u] \in Int
  BY SpendingFinite, SpendingFiniteNext
<1>2. balance[u] + MaxPrice * Room(u) > 0
  BY DEF DebtInv
<1>3. /\ MaxPrice * Room(u) \in Int /\ MaxPrice \in Nat
      /\ MaxPrice * (Room(u) + 1) = MaxPrice * Room(u) + MaxPrice
  BY <1>1, Times
<1> QED BY <1>1, <1>2, <1>3

(* Fewer handlers past the check, no more jobs owed: at least as much room. *)
LEMMA RoomGrows ==
    ASSUME BoardInv, BoardInv', NEW u \in Users, owed'[u] <= owed[u],
           \A q \in Reqs : req'[q] = req[q] \/ req'[q].pc \notin {"pay", "queue"}
    PROVE  Room(u)' >= Room(u)
<1>1. Spending(u)' \subseteq Spending(u)
  BY DEF Spending
<1>2. Cardinality(Spending(u)') <= Cardinality(Spending(u))
  BY <1>1, SpendingFinite, FS_Subset
<1>3. /\ Cardinality(Spending(u)) \in Nat /\ Cardinality(Spending(u)') \in Nat
      /\ owed[u] \in Nat /\ owed'[u] \in Nat /\ MaxOwed \in Nat
  BY SpendingFinite, SpendingFiniteNext, AmountsAssumption
<1> QED BY <1>2, <1>3, CardReqs DEF Room

LEMMA DebtQuiet ==
    ASSUME BoardInv, BoardInv', DebtInv,
           \A u \in Users : owed'[u] <= owed[u] /\ balance'[u] >= balance[u],
           \A q \in Reqs : req'[q] = req[q] \/ req'[q].pc \notin {"pay", "queue"}
    PROVE  DebtInv'
BY RoomGrows, DebtFrame DEF DebtInv

LEMMA DebtCheck ==
    ASSUME BoardInv, BoardInv', DebtInv, NEW r \in Reqs, Check(r)
    PROVE  DebtInv'
<1> SUFFICES ASSUME NEW u \in Users
             PROVE  balance'[u] + MaxPrice * Room(u)' > 0
  BY DEF DebtInv
<1>1. UNCHANGED <<balance, owed>>
  BY DEF Check, ledger
<1>2. /\ \A q \in Reqs : q # r => req'[q] = req[q]
      /\ req'[r].from = req[r].from /\ req[r].pc = "check"
  BY Leaving DEF Check
<1>3. CASE u = req[r].from
  <2>1. balance[u] > 0
    <3>1. req[r] \in Requests /\ Sound(req[r])
      BY DEF BoardInv, TypeOK, HandlersSound
    <3>2. balance[u] \in Int
      BY SpendingFinite
    <3> QED BY <1>3, <3>1, <3>2 DEF Check, Affordable, Sound, Requests
  <2>2. Room(u)' \in Nat /\ balance[u] \in Int
    BY SpendingFinite, SpendingFiniteNext
  <2>3. MaxPrice * Room(u)' \in Int /\ MaxPrice * 0 <= MaxPrice * Room(u)' /\ MaxPrice * 0 = 0
    BY <2>2, Times, AmountsAssumption
  <2> QED BY <1>1, <2>1, <2>2, <2>3
<1>4. CASE u # req[r].from
  <2>1. Spending(u)' = Spending(u)
    BY <1>2, <1>4 DEF Spending
  <2>2. Room(u)' = Room(u)
    BY <1>1, <2>1 DEF Room
  <2> QED BY <1>1, <2>2 DEF DebtInv
<1> QED BY <1>3, <1>4

(* A handler leaves with what it was checked for. *)
LEMMA SpendingLeft ==
    ASSUME BoardInv, NEW r \in Reqs, req[r].pc \in {"pay", "queue"}, Done(r), NEW u \in Users
    PROVE  Cardinality(Spending(u)')
             = Cardinality(Spending(u)) - (IF u = req[r].from THEN 1 ELSE 0)
<1>1. \A q \in Reqs : q # r => req'[q] = req[q]
  BY Leaving
<1>2. req'[r].pc = "idle"
  BY Leaving
<1>3. CASE u = req[r].from
  <2>1. Spending(u)' = Spending(u) \ {r} /\ r \in Spending(u)
    BY <1>1, <1>2, <1>3 DEF Spending
  <2> QED BY <1>3, <2>1, SpendingFinite, FS_RemoveElement
<1>4. CASE u # req[r].from
  <2>1. Spending(u)' = Spending(u)
    BY <1>1, <1>2, <1>4 DEF Spending
  <2> QED BY <1>4, <2>1, SpendingFinite
<1> QED BY <1>3, <1>4

LEMMA DebtPay ==
    ASSUME BoardInv, BoardInv', DebtInv, NEW r \in Reqs, Pay(r)
    PROVE  DebtInv'
<1> SUFFICES ASSUME NEW u \in Users
             PROVE  balance'[u] + MaxPrice * Room(u)' > 0
  BY DEF DebtInv
<1>1. UNCHANGED owed /\ Done(r) /\ req[r].pc = "pay"
  BY DEF Pay
<1>2. req[r].amount \in 0 .. MaxPrice
  BY DEF BoardInv, TypeOK, Requests
<1>3. balance'[u] = balance[u] - (IF u = req[r].from THEN req[r].amount ELSE 0)
                               + (IF u = req[r].to THEN req[r].amount ELSE 0)
  BY DEF Pay, Moved, Accounts
<1>4. /\ balance[u] \in Int /\ MaxPrice \in Nat /\ Room(u) \in Nat /\ MaxOwed \in Nat
      /\ Cardinality(Spending(u)) \in Nat /\ owed[u] \in Nat /\ Cardinality(Reqs) \in Nat
  BY SpendingFinite, CardReqs, AmountsAssumption
<1>5. CASE u = req[r].from
  <2>1. Room(u)' = Room(u) + 1
    BY <1>1, <1>4, <1>5, SpendingLeft DEF Room
  <2>2. balance'[u] >= balance[u] - MaxPrice
    BY <1>2, <1>3, <1>4, <1>5
  <2> QED BY <2>1, <2>2, DebtPaid
<1>6. CASE u # req[r].from
  <2>1. Room(u)' = Room(u)
    BY <1>1, <1>4, <1>6, SpendingLeft DEF Room
  <2>2. balance'[u] >= balance[u]
    BY <1>2, <1>3, <1>4, <1>6
  <2> QED BY <1>4, <2>1, <2>2, DebtFrame
<1> QED BY <1>5, <1>6

LEMMA DebtQueue ==
    ASSUME BoardInv, BoardInv', DebtInv, NEW r \in Reqs, Queue(r)
    PROVE  DebtInv'
<1> SUFFICES ASSUME NEW u \in Users
             PROVE  balance'[u] + MaxPrice * Room(u)' > 0
  BY DEF DebtInv
<1>1. UNCHANGED balance /\ Done(r) /\ req[r].pc = "queue"
  BY DEF Queue, ledger
<1>2. /\ balance[u] \in Int /\ Room(u) \in Nat /\ MaxOwed \in Nat
      /\ Cardinality(Spending(u)) \in Nat /\ owed[u] \in Nat /\ Cardinality(Reqs) \in Nat
  BY SpendingFinite, CardReqs, AmountsAssumption
<1>3. owed'[u] = owed[u] + (IF u = req[r].from THEN 1 ELSE 0)
  BY <1>2 DEF Queue, BoardInv, TypeOK
<1>4. Room(u)' = Room(u)
  BY <1>1, <1>2, <1>3, SpendingLeft DEF Room
<1> QED BY <1>1, <1>2, <1>4, DebtFrame

LEMMA DebtSettle ==
    ASSUME BoardInv, BoardInv', DebtInv, NEW v \in Users, NEW to \in Accounts, NEW n \in Prices,
           Settle(v, to, n)
    PROVE  DebtInv'
<1> SUFFICES ASSUME NEW u \in Users
             PROVE  balance'[u] + MaxPrice * Room(u)' > 0
  BY DEF DebtInv
<1>1. UNCHANGED req
  BY DEF Settle
<1>2. /\ balance[u] \in Int /\ Room(u) \in Nat /\ MaxOwed \in Nat /\ MaxPrice \in Nat
      /\ Cardinality(Spending(u)) \in Nat /\ owed[u] \in Nat /\ Cardinality(Reqs) \in Nat
      /\ n \in 1 .. MaxPrice
  BY SpendingFinite, CardReqs, AmountsAssumption DEF Prices
<1>3. Spending(u)' = Spending(u)
  BY <1>1 DEF Spending
<1>4. owed'[u] = owed[u] - (IF u = v THEN 1 ELSE 0)
  BY <1>2 DEF Settle, BoardInv, TypeOK
<1>5. balance'[u] = balance[u] - (IF u = v THEN n ELSE 0) + (IF u = to THEN n ELSE 0)
  BY DEF Settle, Moved, Accounts
<1>6. CASE u = v
  BY <1>2, <1>3, <1>4, <1>5, <1>6, DebtPaid DEF Room
<1>7. CASE u # v
  BY <1>2, <1>3, <1>4, <1>5, <1>7, DebtFrame DEF Room
<1> QED BY <1>6, <1>7

LEMMA DebtNext == BoardInv /\ BoardInv' /\ DebtInv /\ [Next]_vars => DebtInv'
<1> SUFFICES ASSUME BoardInv, BoardInv', DebtInv, [Next]_vars PROVE DebtInv'
  OBVIOUS
<1>0. \A u \in Users : owed[u] \in Int /\ balance[u] \in Int
  BY SpendingFinite
<1>1. ASSUME NEW r \in Reqs, NEW u \in Users,
             \/ Look(r, u) \/ SubmitJob(r, u) \/ Feedback(r, u) \/ FileItem(r, u)
             \/ \E n \in Prices : Recipe(r, u, n) \/ \E v \in Users : Transfer(r, u, v, n)
      PROVE  DebtInv'
  <2>1. UNCHANGED <<balance, owed>>
    BY <1>1, Arriving DEF ledger
  <2>2. \A q \in Reqs : req'[q] = req[q] \/ req'[q].pc \notin {"pay", "queue"}
    BY <1>1, Arriving
  <2> QED BY <1>0, <2>1, <2>2, DebtQuiet
<1>2. ASSUME NEW r \in Reqs, Count(r) \/ Number(r) \/ Prior(r) \/ File(r) \/ End(r)
      PROVE  DebtInv'
  <2>1. UNCHANGED <<balance, owed>>
    BY <1>2 DEF Count, Number, Prior, File, End, ledger
  <2>2. \A q \in Reqs : req'[q] = req[q] \/ req'[q].pc \notin {"pay", "queue"}
    <3>1. CASE Count(r)
      BY <3>1, Leaving DEF Count
    <3>2. CASE Number(r)
      BY <3>2 DEF Number, BoardInv, TypeOK, Requests
    <3>3. CASE Prior(r)
      BY <3>3, Leaving DEF Prior
    <3>4. CASE File(r) \/ End(r)
      BY <3>4, Leaving DEF File, End
    <3> QED BY <1>2, <3>1, <3>2, <3>3, <3>4
  <2> QED BY <1>0, <2>1, <2>2, DebtQuiet
<1>3. ASSUME NEW r \in Reqs, GrantStarter(r) PROVE DebtInv'
  <2>1. \A u \in Users : owed'[u] <= owed[u] /\ balance'[u] >= balance[u]
    BY <1>0, <1>3, AmountsAssumption DEF GrantStarter, BoardInv, TypeOK, Accounts
  <2>2. \A q \in Reqs : req'[q] = req[q] \/ req'[q].pc \notin {"pay", "queue"}
    BY <1>3, Leaving DEF GrantStarter
  <2> QED BY <2>1, <2>2, DebtQuiet
<1>4. ASSUME NEW r \in Reqs, PayReward(r) PROVE DebtInv'
  <2>1. \A u \in Users : balance'[u] = balance[u] + (IF u = req[r].from THEN Reward ELSE 0)
    <3>1. Reward \in Nat /\ \A u \in Users : u # House /\ u \in Accounts
      BY AmountsAssumption, HouseAssumption DEF Accounts
    <3> QED BY <1>0, <1>4, <3>1 DEF PayReward, Moved
  <2>2. \A u \in Users : owed'[u] <= owed[u] /\ balance'[u] >= balance[u]
    BY <1>0, <1>4, <2>1, AmountsAssumption DEF PayReward
  <2>3. \A q \in Reqs : req'[q] = req[q] \/ req'[q].pc \notin {"pay", "queue"}
    BY <1>4, Leaving DEF PayReward
  <2> QED BY <2>2, <2>3, DebtQuiet
<1>5. ASSUME NEW r \in Reqs, Check(r) \/ Pay(r) \/ Queue(r) PROVE DebtInv'
  BY <1>5, DebtCheck, DebtPay, DebtQueue
<1>6. ASSUME NEW u \in Users, \E to \in Accounts, n \in Prices : Settle(u, to, n)
      PROVE  DebtInv'
  BY <1>6, DebtSettle
<1>7. ASSUME \/ \E u \in Users : Drop(u) \/ AdminGrant(u)
             \/ Midnight \/ UNCHANGED vars
      PROVE  DebtInv'
  <2>1. UNCHANGED req
    BY <1>7 DEF Drop, AdminGrant, Midnight, vars
  <2>2. \A v \in Users : owed'[v] <= owed[v] /\ balance'[v] >= balance[v]
    BY <1>0, <1>7 DEF Drop, AdminGrant, Midnight, vars, ledger, BoardInv, TypeOK, Accounts
  <2> QED BY <2>1, <2>2, DebtQuiet
<1> QED BY <1>1, <1>2, <1>3, <1>4, <1>5, <1>6, <1>7 DEF Next

LEMMA DebtInit == Init => DebtInv
<1> SUFFICES ASSUME Init, NEW u \in Users PROVE balance[u] + MaxPrice * Room(u) > 0
  BY DEF DebtInv
<1>1. balance[u] = 0 /\ owed[u] = 0 /\ Spending(u) = {}
  BY DEF Init, Accounts, Spending, Idle
<1>2. Room(u) = Cardinality(Reqs) + MaxOwed
  BY <1>1, FS_EmptySet, CardReqs, AmountsAssumption DEF Room
<1>3. Room(u) \in Int /\ 1 <= Room(u)
  BY <1>2, CardReqs, AmountsAssumption
<1>4. MaxPrice * 1 <= MaxPrice * Room(u) /\ MaxPrice * Room(u) \in Int
  BY <1>3, Times
<1> QED BY <1>1, <1>4, AmountsAssumption

(* Every balance is read before it is spent, yet a debt never exceeds what the
   slots in flight and the jobs not yet settled can cost: a check passed anew finds
   the balance above zero (transfer_credits, recipes_run, submit_job). *)
THEOREM DebtStaysBounded == Spec => []DebtBounded
<1>1. BoardInv /\ DebtInv => DebtBounded
  <2> SUFFICES ASSUME BoardInv, DebtInv, NEW u \in Users
               PROVE  balance[u] > -(MaxPrice * (Cardinality(Reqs) + MaxOwed))
    BY DEF DebtBounded
  <2> DEFINE top == Cardinality(Reqs) + MaxOwed
  <2>1. top \in Int /\ Room(u) \in Int /\ Room(u) <= top /\ balance[u] \in Int
    BY SpendingFinite, CardReqs, AmountsAssumption DEF Room
  <2> HIDE DEF top
  <2>2. /\ MaxPrice * Room(u) <= MaxPrice * top
        /\ MaxPrice * Room(u) \in Int /\ MaxPrice * top \in Int
    BY <2>1, Times
  <2>3. balance[u] + MaxPrice * Room(u) > 0
    BY DEF DebtInv
  <2>4. balance[u] > -(MaxPrice * top)
    BY <2>1, <2>2, <2>3
  <2> QED BY <2>4 DEF top
<1> QED BY <1>1, BoardAlways, DebtInit, DebtNext, PTL DEF Spec
-----------------------------------------------------------------------------
(* The daily cap. *)

(* A handler whose place in CapAhead is no new one. *)
Behind(q) ==
    \/ req'[q] = req[q]
    \/ /\ ~req'[q].filed
       /\ \/ req'[q].pc \notin {"count", "grant", "reward"}
          \/ req'[q].kind # "feedback"
          \/ /\ req[q].pc \in {"count", "grant"} /\ req[q].kind = "feedback"
             /\ req'[q].from = req[q].from /\ req'[q].num = req[q].num

LEMMA SubsetCard ==
    ASSUME NEW S, NEW T, T \subseteq S, IsFiniteSet(S)
    PROVE  /\ IsFiniteSet(T) /\ Cardinality(T) \in Nat /\ Cardinality(S) \in Nat
           /\ Cardinality(T) <= Cardinality(S)
BY FS_Subset, FS_CardinalityType

LEMMA OneMore ==
    ASSUME NEW S, NEW x, IsFiniteSet(S)
    PROVE  IsFiniteSet(S \cup {x}) /\ Cardinality(S \cup {x}) <= Cardinality(S) + 1
<1>1. Cardinality(S) \in Nat
  BY FS_CardinalityType
<1> QED BY <1>1, FS_AddElement

LEMMA CapQuiet ==
    ASSUME BoardInv, CapInv, UNCHANGED <<items, today>>, \A q \in Reqs : Behind(q)
    PROVE  CapInv'
<1>1. DaysPast' /\ FiledPast'
  BY DEF CapInv, DaysPast, FiledPast, Behind
<1>2. CapAhead'
  <2> SUFFICES ASSUME NEW q \in Reqs,
                      req'[q].kind = "feedback", req'[q].pc \in {"count", "grant", "reward"},
                      ~req'[q].filed, req'[q].num = Cardinality(items) + 1
               PROVE  Cardinality(FiledBy(req'[q].from, today)) < DailyCap
    BY DEF CapAhead, FiledBy
  <2>1. CASE req'[q] = req[q]
    BY <2>1 DEF CapInv, CapAhead
  <2>2. CASE req'[q] # req[q]
    <3>1. /\ req[q].pc \in {"count", "grant"} /\ req[q].kind = "feedback"
          /\ req'[q].from = req[q].from /\ req'[q].num = req[q].num
      BY <2>2 DEF Behind
    <3>2. ~req[q].filed
      BY <3>1 DEF BoardInv, HandlersSound, Sound
    <3> QED BY <3>1, <3>2 DEF CapInv, CapAhead
  <2> QED BY <2>1, <2>2
<1>3. EntitledCapped'
  <2> SUFFICES ASSUME NEW u \in Users, NEW d \in 1 .. LastDay
               PROVE  Cardinality(Entitled(u, d)') <= DailyCap
    BY DEF EntitledCapped
  <2>1. Entitled(u, d)' \subseteq Entitled(u, d) /\ Entitled(u, d) \subseteq items
    BY DEF Entitled, FiledBy, Pending, Behind
  <2>2. IsFiniteSet(Entitled(u, d))
    BY <2>1, SubsetCard DEF BoardInv
  <2>3. /\ Cardinality(Entitled(u, d)') <= Cardinality(Entitled(u, d))
        /\ Cardinality(Entitled(u, d)') \in Nat /\ Cardinality(Entitled(u, d)) \in Nat
    BY <2>1, <2>2, SubsetCard
  <2>4. Cardinality(Entitled(u, d)) <= DailyCap /\ DailyCap \in Nat
    BY AmountsAssumption DEF CapInv, EntitledCapped
  <2> QED BY <2>3, <2>4
<1> QED BY <1>1, <1>2, <1>3 DEF CapInv

LEMMA CapPrior ==
    ASSUME BoardInv, CapInv, NEW r \in Reqs, Prior(r)
    PROVE  CapInv'
<1>1. UNCHANGED <<items, today>>
  BY DEF Prior
<1>2. CASE Goto(r, "file")
  <2>1. \A q \in Reqs : Behind(q)
    BY <1>2, Leaving DEF Prior, BoardInv, HandlersSound, Sound, Behind
  <2> QED BY <1>1, <2>1, CapQuiet
<1>3. CASE Cardinality(FiledBy(req[r].from, today)) < DailyCap /\ Goto(r, "count")
  <2>1. /\ \A q \in Reqs : q # r => req'[q] = req[q]
        /\ req'[r].from = req[r].from
        /\ ~req'[r].filed
    BY <1>3, Leaving DEF Prior, BoardInv, HandlersSound, Sound
  <2>2. DaysPast' /\ FiledPast'
    BY <1>1, <2>1 DEF CapInv, DaysPast, FiledPast
  <2>3. CapAhead'
    BY <1>1, <1>3, <2>1 DEF CapInv, CapAhead, FiledBy
  <2>4. \A u, d : Entitled(u, d)' \subseteq Entitled(u, d) /\ Entitled(u, d) \subseteq Entitled(u, d)'
    BY <1>1, <2>1, <1>3, Leaving DEF Entitled, FiledBy, Pending, Prior, BoardInv, HandlersSound, Sound
  <2>5. EntitledCapped'
    <3>1. \A u, d : Entitled(u, d)' = Entitled(u, d)
      BY <2>4
    <3> QED BY <3>1 DEF CapInv, EntitledCapped
  <2> QED BY <2>2, <2>3, <2>5 DEF CapInv
<1> QED BY <1>2, <1>3 DEF Prior

(* A new day: nothing is filed yet. *)
LEMMA CapMidnight ==
    ASSUME BoardInv, CapInv, Midnight
    PROVE  CapInv'
<1>1. today' = today + 1 /\ UNCHANGED <<items, req>> /\ today \in Nat
  BY AmountsAssumption DEF Midnight, BoardInv, TypeOK
<1>2. \A i \in items : i.day \in Nat /\ i.day <= today
  BY DEF BoardInv, TypeOK, CapInv, DaysPast
<1>3. \A u : FiledBy(u, today + 1) = {}
  BY <1>1, <1>2 DEF FiledBy
<1>4. CapAhead'
  <2>1. Cardinality({}) < DailyCap
    BY AmountsAssumption, FS_EmptySet
  <2> QED BY <1>1, <1>3, <2>1 DEF CapAhead, FiledBy
<1>5. DaysPast' /\ FiledPast'
  BY <1>1, <1>2 DEF DaysPast, CapInv, FiledPast
<1>6. EntitledCapped'
  <2>1. \A u, d : Entitled(u, d)' = Entitled(u, d)
    BY <1>1 DEF Entitled, FiledBy, Pending
  <2> QED BY <2>1 DEF CapInv, EntitledCapped
<1> QED BY <1>4, <1>5, <1>6 DEF CapInv

(* A handler r files the next item i. *)
LEMMA CapAdd ==
    ASSUME BoardInv, CapInv, UNCHANGED today, NEW r \in Reqs, NEW i,
           items' = items \cup {i}, i.num = Cardinality(items) + 1, i.day = today,
           Cardinality(items') = Cardinality(items) + 1, IsFiniteSet(items'),
           \A q \in Reqs : q # r => req'[q] = req[q],
           \/ req'[r].pc = "idle" /\ ~req'[r].filed
           \/ req'[r].filed /\ req'[r].num = i.num,
           i.rewarded \/ req'[r].filed => Cardinality(FiledBy(i.by, today)) < DailyCap
    PROVE  CapInv'
<1> DEFINE n == Cardinality(items)
<1>1. n \in Nat /\ today \in Nat
  BY MaxDense DEF BoardInv, TypeOK
<1>2. DaysPast'
  BY <1>1 DEF CapInv, DaysPast
<1>3. FiledPast'
  <2>1. ASSUME NEW q \in Reqs, req'[q].filed PROVE req'[q].num <= n + 1
    <3>1. CASE q = r
      BY <1>1, <2>1, <3>1
    <3>2. CASE q # r
      <4>1. req[q].num <= n /\ req[q].num \in Nat
        BY <2>1, <3>2 DEF CapInv, FiledPast, BoardInv, TypeOK, Requests
      <4> QED BY <1>1, <3>2, <4>1
    <3> QED BY <3>1, <3>2
  <2> QED BY <2>1 DEF FiledPast
<1>4. CapAhead'
  <2> SUFFICES ASSUME NEW q \in Reqs,
                      req'[q].kind = "feedback", req'[q].pc \in {"count", "grant", "reward"},
                      ~req'[q].filed, req'[q].num = n + 2
               PROVE  FALSE
    BY <1>1 DEF CapAhead
  <2>1. q # r /\ req'[q] = req[q]
    OBVIOUS
  <2>2. Drawn(req[q])
    BY <2>1 DEF Drawn
  <2>3. req[q].num \in 1 .. (n + 1)
    BY <2>2 DEF BoardInv, DrawnNotAhead
  <2> QED BY <1>1, <2>1, <2>3
<1>5. EntitledCapped'
  <2> SUFFICES ASSUME NEW u \in Users, NEW d \in 1 .. LastDay
               PROVE  Cardinality(Entitled(u, d)') <= DailyCap
    BY DEF EntitledCapped
  <2>1. \A x \in items : x.num \in 1 .. n
    BY DEF BoardInv, BoardDense
  <2>2. \A x \in items : Pending(x.num)' => Pending(x.num)
    BY <1>1, <2>1 DEF Pending
  <2>3. /\ Entitled(u, d) \subseteq FiledBy(u, d)
        /\ FiledBy(u, d) \subseteq items
    BY DEF Entitled, FiledBy
  <2>4. /\ IsFiniteSet(FiledBy(u, d)) /\ IsFiniteSet(Entitled(u, d))
        /\ Cardinality(Entitled(u, d)) \in Nat
        /\ Cardinality(FiledBy(u, d)) \in Nat
        /\ Cardinality(Entitled(u, d)) <= Cardinality(FiledBy(u, d))
    BY <2>3, SubsetCard DEF BoardInv
  <2>5. Cardinality(Entitled(u, d)) <= DailyCap /\ DailyCap \in Nat
    BY AmountsAssumption DEF CapInv, EntitledCapped
  <2>6. CASE i.by = u /\ d = today /\ (i.rewarded \/ req'[r].filed)
    <3>1. Cardinality(Entitled(u, d)) < DailyCap
      BY <2>4, <2>5, <2>6
    <3>2. Entitled(u, d)' \subseteq Entitled(u, d) \cup {i}
      BY <2>2 DEF Entitled, FiledBy
    <3>3. /\ IsFiniteSet(Entitled(u, d) \cup {i})
          /\ Cardinality(Entitled(u, d) \cup {i}) <= Cardinality(Entitled(u, d)) + 1
      BY <2>4, OneMore
    <3>4. /\ Cardinality(Entitled(u, d)') \in Nat
          /\ Cardinality(Entitled(u, d) \cup {i}) \in Nat
          /\ Cardinality(Entitled(u, d)') <= Cardinality(Entitled(u, d) \cup {i})
      BY <3>2, <3>3, SubsetCard
    <3> QED BY <2>4, <2>5, <3>1, <3>3, <3>4
  <2>7. CASE ~(i.by = u /\ d = today /\ (i.rewarded \/ req'[r].filed))
    <3>1. ~req'[r].filed => ~Pending(i.num)'
      <4>1. \A q \in Reqs : req[q].filed => req[q].num <= n /\ req[q].num \in Nat
        BY DEF CapInv, FiledPast, BoardInv, TypeOK, Requests
      <4> QED BY <1>1, <4>1 DEF Pending
    <3>2. Entitled(u, d)' \subseteq Entitled(u, d)
      BY <2>2, <2>7, <3>1 DEF Entitled, FiledBy
    <3>3. /\ Cardinality(Entitled(u, d)') \in Nat
          /\ Cardinality(Entitled(u, d)') <= Cardinality(Entitled(u, d))
      BY <2>4, <3>2, SubsetCard
    <3> QED BY <2>4, <2>5, <3>3
  <2> QED BY <2>6, <2>7
<1> QED BY <1>2, <1>3, <1>4, <1>5 DEF CapInv

LEMMA CapFile ==
    ASSUME BoardInv, CapInv, NEW r \in Reqs, File(r)
    PROVE  CapInv'
<1> DEFINE i == Item(r, FALSE)
<1>1. Drawn(req[r])
  BY DEF BoardInv, HandlersSound, Sound, File, Drawn
<1>2. /\ req[r].num = Cardinality(items) + 1
      /\ Cardinality(items') = Cardinality(items) + 1 /\ IsFiniteSet(items')
  BY <1>1, ItemAdded DEF File
<1>3. i.num = req[r].num /\ i.day = today /\ ~i.rewarded
  BY DEF Item
<1>4. /\ \A q \in Reqs : q # r => req'[q] = req[q]
      /\ req'[r].pc = "idle" /\ ~req'[r].filed
  BY Leaving DEF File
<1>5. UNCHANGED today /\ items' = items \cup {i}
  BY DEF File
<1> HIDE DEF i
<1> QED BY <1>2, <1>3, <1>4, <1>5, CapAdd

LEMMA CapGrant ==
    ASSUME BoardInv, CapInv, NEW r \in Reqs, GrantStarter(r)
    PROVE  CapInv'
<1>1. UNCHANGED today /\ req[r].pc = "grant" /\ ~req[r].filed
  BY DEF GrantStarter, BoardInv, HandlersSound, Sound
<1>2. CASE req[r].kind = "feedback"
  <2> DEFINE i == Item(r, FALSE)
  <2>1. Drawn(req[r])
    BY <1>1, <1>2 DEF Drawn
  <2>2. items' = items \cup {i} /\ Unique(i) /\ Ensured(r, TRUE)
    BY <1>2 DEF GrantStarter
  <2>3. /\ req[r].num = Cardinality(items) + 1
        /\ Cardinality(items') = Cardinality(items) + 1 /\ IsFiniteSet(items')
    BY <2>1, <2>2, ItemAdded
  <2>4. i.num = req[r].num /\ i.day = today /\ i.by = req[r].from
    BY DEF Item
  <2>5. /\ \A q \in Reqs : q # r => req'[q] = req[q]
        /\ req'[r].filed /\ req'[r].num = req[r].num
    <3>1. req' = [req EXCEPT ![r] = [req[r] EXCEPT !.pc = "reward", !.filed = TRUE]]
      BY <1>2, <2>2 DEF Ensured
    <3>2. req \in [Reqs -> Requests]
      BY DEF BoardInv, TypeOK
    <3> QED BY <3>1, <3>2 DEF Requests
  <2>6. Cardinality(FiledBy(i.by, today)) < DailyCap
    BY <1>1, <1>2, <2>3, <2>4 DEF CapInv, CapAhead
  <2> HIDE DEF i
  <2> QED BY <1>1, <2>2, <2>3, <2>4, <2>5, <2>6, CapAdd
<1>3. CASE req[r].kind # "feedback"
  <2>1. UNCHANGED items /\ Ensured(r, FALSE)
    BY <1>3 DEF GrantStarter
  <2>2. \A q \in Reqs : Behind(q)
    BY <1>3, <2>1, Leaving DEF Behind
  <2> QED BY <1>1, <2>1, <2>2, CapQuiet
<1> QED BY <1>2, <1>3

LEMMA CapReward ==
    ASSUME BoardInv, CapInv, NEW r \in Reqs, PayReward(r)
    PROVE  CapInv'
<1> DEFINE k == req[r].num
<1>1. /\ UNCHANGED today /\ req[r].pc = "reward" /\ req[r].kind = "feedback"
      /\ \A q \in Reqs : q # r => req'[q] = req[q]
      /\ req'[r].pc = "idle" /\ ~req'[r].filed
  BY Leaving DEF PayReward, BoardInv, HandlersSound, Sound
<1>2. CASE ~req[r].filed
  <2> DEFINE i == Item(r, TRUE)
  <2>1. Drawn(req[r])
    BY <1>1 DEF Drawn
  <2>2. items' = items \cup {i} /\ Unique(i)
    BY <1>2 DEF PayReward
  <2>3. /\ req[r].num = Cardinality(items) + 1
        /\ Cardinality(items') = Cardinality(items) + 1 /\ IsFiniteSet(items')
    BY <2>1, <2>2, ItemAdded
  <2>4. i.num = req[r].num /\ i.day = today /\ i.by = req[r].from
    BY DEF Item
  <2>5. Cardinality(FiledBy(i.by, today)) < DailyCap
    BY <1>1, <1>2, <2>3, <2>4 DEF CapInv, CapAhead
  <2> HIDE DEF i
  <2> QED BY <1>1, <2>2, <2>3, <2>4, <2>5, CapAdd
<1>3. CASE req[r].filed
  <2>1. items' = {Marked(i, k) : i \in items}
    BY <1>3, MarkOwn DEF PayReward
  <2>2. Cardinality(items') = Cardinality(items)
    BY <2>1, MarkItems
  <2>3. \A i \in items : /\ Marked(i, k).num = i.num /\ Marked(i, k).by = i.by
                         /\ Marked(i, k).day = i.day
                         /\ i.num # k => Marked(i, k) = i
    BY MarkedItem DEF BoardInv
  <2> HIDE DEF k
  <2>4. DaysPast'
    BY <1>1, <2>1, <2>3 DEF CapInv, DaysPast
  <2>5. FiledPast'
    BY <1>1, <2>2 DEF CapInv, FiledPast
  <2>6. \A S \in SUBSET items : IsFiniteSet(S) =>
           /\ IsFiniteSet({Marked(i, k) : i \in S})
           /\ Cardinality({Marked(i, k) : i \in S}) \in Nat
           /\ Cardinality({Marked(i, k) : i \in S}) <= Cardinality(S)
    <3> SUFFICES ASSUME NEW S \in SUBSET items, IsFiniteSet(S)
                 PROVE  /\ IsFiniteSet({Marked(i, k) : i \in S})
                        /\ Cardinality({Marked(i, k) : i \in S}) \in Nat
                        /\ Cardinality({Marked(i, k) : i \in S}) <= Cardinality(S)
      OBVIOUS
    <3> DEFINE f == [i \in S |-> Marked(i, k)]
               T == {Marked(i, k) : i \in S}
    <3>1. f \in Surjection(S, T)
      BY DEF Surjection
    <3>2. IsFiniteSet(T) /\ Cardinality(T) <= Cardinality(S)
      BY <3>1, FS_Surjection
    <3> QED BY <3>2, FS_CardinalityType
  <2>7. \A u, d : FiledBy(u, d)' \subseteq {Marked(i, k) : i \in FiledBy(u, d)}
    BY <2>1, <2>3 DEF FiledBy
  <2>8. \A u, d : /\ FiledBy(u, d) \in SUBSET items /\ IsFiniteSet(FiledBy(u, d))
                  /\ Cardinality(FiledBy(u, d)) \in Nat
    <3>1. \A u, d : FiledBy(u, d) \in SUBSET items
      BY DEF FiledBy
    <3> QED BY <3>1, SubsetCard DEF BoardInv
  <2>9. CapAhead'
    <3> SUFFICES ASSUME NEW q \in Reqs,
                        req'[q].kind = "feedback", req'[q].pc \in {"count", "grant", "reward"},
                        ~req'[q].filed, req'[q].num = Cardinality(items) + 1
                 PROVE  Cardinality(FiledBy(req[q].from, today)') < DailyCap
      BY <2>2 DEF CapAhead
    <3> DEFINE u == req[q].from
               F == {Marked(i, k) : i \in FiledBy(u, today)}
    <3>1. req'[q] = req[q]
      BY <1>1
    <3>2. Cardinality(FiledBy(u, today)) < DailyCap
      BY <3>1 DEF CapInv, CapAhead
    <3>3. IsFiniteSet(F) /\ Cardinality(F) \in Nat /\ Cardinality(F) <= Cardinality(FiledBy(u, today))
      BY <2>6, <2>8
    <3>4. FiledBy(u, today)' \subseteq F
      BY <1>1, <2>7 DEF FiledBy
    <3>5. /\ Cardinality(FiledBy(u, today)') \in Nat
          /\ Cardinality(FiledBy(u, today)') <= Cardinality(F)
      BY <3>3, <3>4, SubsetCard
    <3>6. Cardinality(FiledBy(u, today)') < DailyCap
      BY <2>8, <3>2, <3>3, <3>5, AmountsAssumption
    <3> QED BY <3>6
  <2>10. EntitledCapped'
    <3> SUFFICES ASSUME NEW u \in Users, NEW d \in 1 .. LastDay
                 PROVE  Cardinality(Entitled(u, d)') <= DailyCap
      BY DEF EntitledCapped
    <3> DEFINE E == Entitled(u, d)
               F == {Marked(i, k) : i \in E}
    <3>1. Pending(k) /\ \A x : Pending(x)' => Pending(x)
      BY <1>1, <1>3 DEF Pending, k
    <3>2. Entitled(u, d)' \subseteq F
      <4> SUFFICES ASSUME NEW j \in items', j.by = u, j.day = d, j.rewarded \/ Pending(j.num)'
                   PROVE  j \in F
        BY DEF Entitled, FiledBy
      <4>1. PICK i \in items : j = Marked(i, k)
        BY <2>1
      <4>2. i.by = u /\ i.day = d /\ i.num = j.num
        BY <2>3, <4>1
      <4>3. i.rewarded \/ Pending(i.num)
        BY <2>3, <3>1, <4>1, <4>2
      <4> QED BY <4>1, <4>2, <4>3 DEF Entitled, FiledBy
    <3>3. E \in SUBSET items
      BY DEF Entitled, FiledBy
    <3>4. IsFiniteSet(E) /\ Cardinality(E) \in Nat
      BY <3>3, SubsetCard DEF BoardInv
    <3>5. Cardinality(E) <= DailyCap /\ DailyCap \in Nat
      BY AmountsAssumption DEF CapInv, EntitledCapped
    <3> HIDE DEF E
    <3>6. IsFiniteSet(F) /\ Cardinality(F) \in Nat /\ Cardinality(F) <= Cardinality(E)
      BY <2>6, <3>3, <3>4
    <3> HIDE DEF F
    <3>7. /\ Cardinality(Entitled(u, d)') \in Nat
          /\ Cardinality(Entitled(u, d)') <= Cardinality(F)
      BY <3>2, <3>6, SubsetCard
    <3> QED BY <3>4, <3>5, <3>6, <3>7
  <2> QED BY <2>4, <2>5, <2>9, <2>10 DEF CapInv
<1> QED BY <1>2, <1>3

LEMMA CapNext == BoardInv /\ CapInv /\ [Next]_vars => CapInv'
<1> SUFFICES ASSUME BoardInv, CapInv, [Next]_vars PROVE CapInv'
  OBVIOUS
<1>1. ASSUME NEW r \in Reqs, NEW u \in Users,
             \/ Look(r, u) \/ SubmitJob(r, u) \/ Feedback(r, u) \/ FileItem(r, u)
             \/ \E n \in Prices : Recipe(r, u, n) \/ \E v \in Users : Transfer(r, u, v, n)
      PROVE  CapInv'
  <2>1. /\ \A q \in Reqs : q # r => req'[q] = req[q]
        /\ \/ req'[r].pc = "count" /\ req'[r].kind # "feedback"
           \/ req'[r].pc = "number"
        /\ ~req'[r].filed
        /\ UNCHANGED <<today, items>>
    BY <1>1, Arriving
  <2>2. \A q \in Reqs : Behind(q)
    BY <2>1 DEF Behind
  <2> QED BY <2>1, <2>2, CapQuiet
<1>2. ASSUME NEW r \in Reqs,
             Count(r) \/ Check(r) \/ Pay(r) \/ Queue(r) \/ Number(r) \/ End(r)
      PROVE  CapInv'
  <2>1. UNCHANGED <<items, today>>
    BY <1>2 DEF Count, Check, Pay, Queue, Number, End
  <2>2. Sound(req[r])
    BY DEF BoardInv, HandlersSound
  <2>3. CASE Count(r)
    <3>1. \A q \in Reqs : Behind(q)
      BY <2>2, <2>3, Leaving DEF Count, Behind, Sound
    <3> QED BY <2>1, <3>1, CapQuiet
  <2>4. CASE Check(r)
    <3>1. \A q \in Reqs : Behind(q)
      BY <2>2, <2>4, Leaving DEF Check, Behind, Sound
    <3> QED BY <2>1, <3>1, CapQuiet
  <2>5. CASE Number(r)
    <3>1. /\ \A q \in Reqs : q # r => req'[q] = req[q]
          /\ req'[r].pc \in {"file", "prior"} /\ ~req'[r].filed
      BY <2>2, <2>5 DEF Number, BoardInv, TypeOK, Requests, Sound
    <3>2. \A q \in Reqs : Behind(q)
      BY <3>1 DEF Behind
    <3> QED BY <2>1, <3>2, CapQuiet
  <2>6. CASE Pay(r) \/ Queue(r) \/ End(r)
    <3>1. \A q \in Reqs : Behind(q)
      BY <2>6, Leaving DEF Pay, Queue, End, Behind
    <3> QED BY <2>1, <3>1, CapQuiet
  <2> QED BY <1>2, <2>3, <2>4, <2>5, <2>6
<1>3. ASSUME NEW r \in Reqs, Prior(r) \/ GrantStarter(r) \/ File(r) \/ PayReward(r)
      PROVE  CapInv'
  BY <1>3, CapPrior, CapGrant, CapFile, CapReward
<1>4. ASSUME \/ \E u \in Users : \/ Drop(u) \/ AdminGrant(u)
                                 \/ \E to \in Accounts, n \in Prices : Settle(u, to, n)
             \/ UNCHANGED vars
      PROVE  CapInv'
  <2>1. UNCHANGED <<items, today, req>>
    BY <1>4 DEF Drop, AdminGrant, Settle, vars
  <2>2. \A q \in Reqs : Behind(q)
    BY <2>1 DEF Behind
  <2> QED BY <2>1, <2>2, CapQuiet
<1>5. CASE Midnight
  BY <1>5, CapMidnight
<1> QED BY <1>1, <1>2, <1>3, <1>4, <1>5 DEF Next

LEMMA CapInit == Init => CapInv
<1> SUFFICES ASSUME Init PROVE CapInv
  OBVIOUS
<1>1. items = {} /\ \A r \in Reqs : req[r] = Idle
  BY DEF Init
<1>2. DaysPast /\ CapAhead /\ FiledPast
  BY <1>1 DEF DaysPast, CapAhead, FiledPast, Idle
<1>3. \A u, d : Entitled(u, d) = {}
  BY <1>1 DEF Entitled, FiledBy
<1>4. EntitledCapped
  BY <1>3, FS_EmptySet, AmountsAssumption DEF EntitledCapped
<1> QED BY <1>2, <1>4 DEF CapInv

(* No more than DailyCap rewards per user and day, although the count is read
   several awaits before the reward is committed, and the starter grant commits in
   between: whatever a user files meanwhile takes the number that was drawn before
   the count (feedback). *)
THEOREM RewardsStayCapped == Spec => []RewardsCapped
<1>1. BoardInv /\ CapInv => RewardsCapped
  <2> SUFFICES ASSUME BoardInv, CapInv, NEW u \in Users, NEW d \in 1 .. LastDay
               PROVE  Cardinality({i \in FiledBy(u, d) : i.rewarded}) <= DailyCap
    BY DEF RewardsCapped
  <2> DEFINE R == {i \in FiledBy(u, d) : i.rewarded}
  <2>1. R \subseteq Entitled(u, d) /\ Entitled(u, d) \subseteq items
    BY DEF Entitled, FiledBy
  <2>2. IsFiniteSet(Entitled(u, d))
    BY <2>1, SubsetCard DEF BoardInv
  <2> HIDE DEF R
  <2>3. /\ Cardinality(R) <= Cardinality(Entitled(u, d))
        /\ Cardinality(R) \in Nat /\ Cardinality(Entitled(u, d)) \in Nat
    BY <2>1, <2>2, SubsetCard
  <2>4. Cardinality(Entitled(u, d)) <= DailyCap /\ DailyCap \in Nat
    BY AmountsAssumption DEF CapInv, EntitledCapped
  <2>5. Cardinality(R) <= DailyCap
    BY <2>3, <2>4
  <2> QED BY <2>5 DEF R
<1> QED BY <1>1, BoardAlways, CapInit, CapNext, PTL DEF Spec
-----------------------------------------------------------------------------
(* The sum over all accounts. *)
LEMMA AccountsFinite == IsFiniteSet(Accounts)
BY HouseAssumption, FS_AddElement DEF Accounts

(* Nothing is granted: the sums stay. *)
LEMMA ConservedMoved ==
    ASSUME TypeOK, Conserved, UNCHANGED <<starters, granted>>,
           NEW from \in Accounts, NEW to \in Accounts, NEW n \in Int, balance' = Moved(from, to, n)
    PROVE  Conserved'
<1>1. PICK f, g : f = balance /\ g = balance'
  OBVIOUS
<1>2. /\ \A a \in Accounts : f[a] \in Int
      /\ \A a \in Accounts : g[a] = f[a] - (IF a = from THEN n ELSE 0) + (IF a = to THEN n ELSE 0)
  BY <1>1 DEF TypeOK, Moved
<1>3. SumFunctionOnSet(g, Accounts) = SumFunctionOnSet(f, Accounts)
  BY <1>2, AccountsFinite, SumMoved
<1> QED BY <1>1, <1>3 DEF Conserved

LEMMA ConservedSame ==
    ASSUME Conserved, UNCHANGED <<balance, starters, granted>>
    PROVE  Conserved'
BY DEF Conserved

LEMMA StartersInt == TypeOK => SumFunctionOnSet(starters, Accounts) \in Int
<1>1. TypeOK => \A a \in Accounts : starters[a] \in Int
  BY DEF TypeOK
<1> QED BY <1>1, AccountsFinite, SumType

LEMMA Credited ==
    ASSUME NEW u \in Accounts, NEW n \in Int, NEW f, NEW g,
           \A a \in Accounts : f[a] \in Int /\ g[a] = IF a = u THEN f[a] + n ELSE f[a]
    PROVE  SumFunctionOnSet(g, Accounts) = SumFunctionOnSet(f, Accounts) + n
<1>1. /\ \A a \in Accounts : f[a] \in Int /\ g[a] \in Int
      /\ \A a \in Accounts \ {u} : g[a] = f[a]
      /\ g[u] = f[u] + n
  OBVIOUS
<1>2. SumFunctionOnSet(g, Accounts) = (SumFunctionOnSet(f, Accounts) - f[u]) + g[u]
  BY <1>1, AccountsFinite, SumChange
<1>3. SumFunctionOnSet(f, Accounts) \in Int
  BY <1>1, AccountsFinite, SumType
<1> QED BY <1>1, <1>2, <1>3

LEMMA ConservedGrant ==
    ASSUME TypeOK, Conserved, NEW r \in Reqs, GrantStarter(r)
    PROVE  Conserved'
<1>1. PICK u \in Accounts : u = req[r].from
  BY DEF TypeOK, Requests
<1>2. /\ balance' = [balance EXCEPT ![u] = @ + Starter]
      /\ starters' = [starters EXCEPT ![u] = @ + 1]
      /\ granted' = granted
  BY <1>1 DEF GrantStarter
<1>3. Starter \in Int /\ granted \in Int
  BY AmountsAssumption DEF TypeOK
<1>4. balance \in [Accounts -> Int] /\ starters \in [Accounts -> Int]
  BY DEF TypeOK
<1>5. SumFunctionOnSet(balance', Accounts) = SumFunctionOnSet(balance, Accounts) + Starter
  <2>1. PICK f, g : f = balance /\ g = balance'
    OBVIOUS
  <2>2. \A a \in Accounts : f[a] \in Int /\ g[a] = IF a = u THEN f[a] + Starter ELSE f[a]
    BY <1>2, <1>4, <2>1
  <2>3. SumFunctionOnSet(g, Accounts) = SumFunctionOnSet(f, Accounts) + Starter
    BY <1>3, <2>2, Credited
  <2> QED BY <2>1, <2>3
<1>6. PICK s \in Int : s = SumFunctionOnSet(starters, Accounts)
  BY StartersInt
<1>7. SumFunctionOnSet(starters', Accounts) = s + 1
  <2>1. PICK f, g : f = starters /\ g = starters'
    OBVIOUS
  <2>2. \A a \in Accounts : f[a] \in Int /\ g[a] = IF a = u THEN f[a] + 1 ELSE f[a]
    BY <1>2, <1>4, <2>1
  <2>3. SumFunctionOnSet(g, Accounts) = SumFunctionOnSet(f, Accounts) + 1
    BY <2>2, Credited
  <2> QED BY <1>6, <2>1, <2>3
<1>8. Starter * (s + 1) = Starter * s + Starter /\ Starter * s \in Int
  BY <1>3
<1> QED BY <1>2, <1>3, <1>5, <1>6, <1>7, <1>8 DEF Conserved

LEMMA ConservedAdmin ==
    ASSUME TypeOK, Conserved, NEW u \in Users, AdminGrant(u)
    PROVE  Conserved'
<1>1. u \in Accounts /\ balance \in [Accounts -> Int] /\ granted \in Int
  BY DEF TypeOK, Accounts
<1>2. SumFunctionOnSet(balance', Accounts) = SumFunctionOnSet(balance, Accounts) + 1
  <2>1. PICK f, g : f = balance /\ g = balance'
    OBVIOUS
  <2>2. \A a \in Accounts : f[a] \in Int /\ g[a] = IF a = u THEN f[a] + 1 ELSE f[a]
    BY <1>1, <2>1 DEF AdminGrant
  <2>3. SumFunctionOnSet(g, Accounts) = SumFunctionOnSet(f, Accounts) + 1
    BY <1>1, <2>2, Credited
  <2> QED BY <2>1, <2>3
<1>3. starters' = starters /\ granted' = granted + 1
  BY DEF AdminGrant
<1>4. PICK k : k = Starter * SumFunctionOnSet(starters, Accounts)
  OBVIOUS
<1>5. k \in Int
  BY <1>4, StartersInt, AmountsAssumption
<1> QED BY <1>1, <1>2, <1>3, <1>4, <1>5 DEF Conserved

LEMMA ConservedNext ==
    ASSUME BoardInv, Conserved, [Next]_vars
    PROVE  Conserved'
<1>1. TypeOK /\ \A r \in Reqs : req[r] \in Requests
  BY DEF BoardInv, TypeOK
<1>2. ASSUME NEW r \in Reqs, NEW u \in Users,
             \/ Look(r, u) \/ SubmitJob(r, u) \/ Feedback(r, u) \/ FileItem(r, u)
             \/ \E n \in Prices : Recipe(r, u, n) \/ \E v \in Users : Transfer(r, u, v, n)
      PROVE  Conserved'
  BY <1>2, ConservedSame DEF Look, SubmitJob, Feedback, FileItem, Recipe, Transfer, Start, ledger
<1>3. ASSUME NEW r \in Reqs,
             \/ Count(r) \/ Check(r) \/ Queue(r) \/ Number(r) \/ Prior(r) \/ File(r) \/ End(r)
      PROVE  Conserved'
  BY <1>3, ConservedSame DEF Count, Check, Queue, Number, Prior, File, End, ledger
<1>4. ASSUME NEW r \in Reqs, GrantStarter(r) PROVE Conserved'
  BY <1>1, <1>4, ConservedGrant
<1>5. ASSUME NEW r \in Reqs, Pay(r) PROVE Conserved'
  <2>1. req[r].from \in Accounts /\ req[r].to \in Accounts /\ req[r].amount \in Int
    BY <1>1, AmountsAssumption DEF Requests
  <2> QED BY <1>1, <1>5, <2>1, ConservedMoved DEF Pay
<1>6. ASSUME NEW r \in Reqs, PayReward(r) PROVE Conserved'
  <2>1. req[r].from \in Accounts /\ House \in Accounts /\ Reward \in Int
    BY <1>1, AmountsAssumption DEF Requests, Accounts
  <2> QED BY <1>1, <1>6, <2>1, ConservedMoved DEF PayReward
<1>7. ASSUME NEW u \in Users, NEW to \in Accounts, NEW n \in Prices, Settle(u, to, n) PROVE Conserved'
  <2>1. u \in Accounts /\ n \in Int
    BY DEF Accounts, Prices
  <2> QED BY <1>1, <1>7, <2>1, ConservedMoved DEF Settle
<1>8. ASSUME NEW u \in Users, AdminGrant(u) PROVE Conserved'
  BY <1>1, <1>8, ConservedAdmin
<1>9. CASE Midnight \/ UNCHANGED vars \/ \E u \in Users : Drop(u)
  BY <1>9, ConservedSame DEF Midnight, vars, Drop, ledger
<1> QED BY <1>2, <1>3, <1>4, <1>5, <1>6, <1>7, <1>8, <1>9 DEF Next

(* Credits are only made by starter grants and by admins: transfers, recipes,
   settlements and rewards leave the sum over all accounts alone, whatever
   interleaves (post_ledger: both rows in one commit). *)
THEOREM CreditsConserved == Spec => []Conserved
<1>1. Init => Conserved
  <2> SUFFICES ASSUME Init PROVE Conserved
    OBVIOUS
  <2>1. /\ SumFunctionOnSet(balance, Accounts) = 0
        /\ SumFunctionOnSet(starters, Accounts) = 0
    BY AccountsFinite, SumZero DEF Init
  <2> QED BY <2>1, AmountsAssumption DEF Init, Conserved
<1> QED BY <1>1, BoardAlways, ConservedNext, PTL DEF Spec
=============================================================================
