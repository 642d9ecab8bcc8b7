--------------------------- MODULE SaleRing_proofs ---------------------------
(***************************************************************************)
(* For any number of tills, handlers, members, orders and days:            *)
(*   - every table, page and handler stays well-typed;                     *)
(*   - the numbers of a day are dense although count-then-insert is not    *)
(*     atomic;                                                             *)
(*   - a held order is claimed by at most one sale of a day although       *)
(*     nothing locks it;                                                   *)
(*   - a basket is charged at most once through every retry;               *)
(*   - the points of a member never exceed the credit ledger;              *)
(*   - the whole implements the abstract book of SaleBook.                 *)
(***************************************************************************)
EXTENDS SaleRing, FiniteSetTheorems, SequenceTheorems, TLAPS

(* A set of rows with dense numbers stays dense under the next row whose
   number is free and was counted no further than the set reaches. *)
LEMMA DenseAdd ==
    ASSUME NEW S, IsFiniteSet(S), NEW s, NEW c \in Nat,
           {x.num : x \in S} = 1 .. Cardinality(S),
           c <= Cardinality(S), s.num = c + 1,
           \A x \in S : x.num # s.num
    PROVE  /\ c = Cardinality(S)
           /\ Cardinality(S \cup {s}) = c + 1
           /\ {x.num : x \in S \cup {s}} = 1 .. Cardinality(S \cup {s})
<1>1. Cardinality(S) \in Nat
  BY FS_CardinalityType
<1>2. c + 1 \notin 1 .. Cardinality(S)
  <2>1. SUFFICES ASSUME c + 1 \in {x.num : x \in S} PROVE FALSE
    OBVIOUS
  <2>2. PICK x \in S : x.num = c + 1
    BY <2>1
  <2> QED BY <2>2
<1>3. c = Cardinality(S)
  BY <1>1, <1>2
<1>4. s \notin S
  OBVIOUS
<1>5. Cardinality(S \cup {s}) = c + 1
  BY <1>3, <1>4, FS_AddElement
<1>6. {x.num : x \in S \cup {s}} = {x.num : x \in S} \cup {c + 1}
  OBVIOUS
<1>7. (1 .. c) \cup {c + 1} = 1 .. (c + 1)
  OBVIOUS
<1> QED BY <1>3, <1>5, <1>6, <1>7
-----------------------------------------------------------------------------
(* Types.  DEF lists kept in one place: what a record or table is made of. *)
USE DEF MaybeMember, MaybeOrder, Days

LEMMA IdleTyped == /\ IdleReq \in Requests
                   /\ IdleTill \in TillStates
BY LastDayAssumption, BoundsAssumption DEF IdleReq, IdleTill, Requests, TillStates

LEMMA TypeInit == Init => TypeOK
<1> SUFFICES ASSUME Init PROVE TypeOK
  OBVIOUS
<1>1. IsFiniteSet({})
  BY FS_EmptySet
<1> QED BY <1>1, IdleTyped, LastDayAssumption DEF Init, TypeOK

(* The till's own steps: only its record changes, and req on Submit. *)
LEMMA TypeTill ==
    ASSUME TypeOK, NEW t \in Tills,
           \/ \E m \in MaybeMember : StartBasket(t, m)
           \/ \E o \in Orders : RingOut(t, o)
           \/ Edit(t) \/ ClearCart(t) \/ GiveUp(t)
    PROVE  TypeOK'
<1>1. /\ UNCHANGED <<today, db, req, answered>>
      /\ till' = [till EXCEPT ![t] = till'[t]]
  BY DEF TypeOK, StartBasket, RingOut, Edit, ClearCart, GiveUp
<1>2. till'[t] \in TillStates
  <2>1. CASE \E m \in MaybeMember : StartBasket(t, m)
    <3>1. PICK m \in MaybeMember : StartBasket(t, m)
      BY <2>1
    <3> DEFINE b == [gen |-> till[t].gen + 1, edits |-> 0, from |-> None, member |-> m]
    <3>2. till[t] \in TillStates
      BY DEF TypeOK
    <3>9. till[t].gen \in 0 .. MaxBaskets
      BY <3>2 DEF TillStates
    <3>10. till[t].gen < MaxBaskets
      BY <3>1 DEF StartBasket
    <3>3. till[t].gen + 1 \in 1 .. MaxBaskets
      BY <3>9, <3>10, BoundsAssumption
    <3>4. till'[t] = [till[t] EXCEPT !.gen = @ + 1, !.basket = b]
      BY <3>1 DEF TypeOK, StartBasket
    <3>5. b \in Baskets
      BY <3>3, BoundsAssumption DEF Baskets
    <3> HIDE DEF b
    <3>6. till[t].gen + 1 \in 0 .. MaxBaskets
      BY <3>3, BoundsAssumption
    <3> QED BY <3>2, <3>4, <3>5, <3>6 DEF TillStates
  <2>2. CASE \E o \in Orders : RingOut(t, o)
    <3>1. PICK o \in Orders : RingOut(t, o)
      BY <2>2
    <3> DEFINE b == [gen |-> till[t].gen + 1, edits |-> 0, from |-> o, member |-> owner[o]]
    <3>2. till[t] \in TillStates
      BY DEF TypeOK
    <3>9. till[t].gen \in 0 .. MaxBaskets
      BY <3>2 DEF TillStates
    <3>10. till[t].gen < MaxBaskets
      BY <3>1 DEF RingOut
    <3>3. till[t].gen + 1 \in 1 .. MaxBaskets
      BY <3>9, <3>10, BoundsAssumption
    <3>4. till'[t] = [till[t] EXCEPT !.gen = @ + 1, !.basket = b, !.key = None, !.code = o]
      BY <3>1 DEF TypeOK, RingOut
    <3>5. b \in Baskets
      BY <3>3, BoundsAssumption DEF Baskets, TypeOK
    <3> HIDE DEF b
    <3>6. till[t].gen + 1 \in 0 .. MaxBaskets
      BY <3>3, BoundsAssumption
    <3> QED BY <3>2, <3>4, <3>5, <3>6 DEF TillStates
  <2>3. CASE Edit(t)
    <3>1. /\ till[t] \in TillStates
          /\ till[t].basket \in Baskets
          /\ till[t].basket.edits < MaxEdits
          /\ till'[t] = [till[t] EXCEPT !.basket.edits = @ + 1]
      BY <2>3 DEF TypeOK, Edit, TillStates
    <3>2. [till[t].basket EXCEPT !.edits = @ + 1] \in Baskets
      BY <3>1, BoundsAssumption DEF Baskets
    <3> QED BY <3>1, <3>2 DEF TillStates
  <2>4. CASE ClearCart(t)
    BY <2>4 DEF TypeOK, ClearCart, TillStates
  <2>5. CASE GiveUp(t)
    BY <2>5 DEF TypeOK, GiveUp, TillStates
  <2> QED BY <2>1, <2>2, <2>3, <2>4, <2>5
<1> QED BY <1>1, <1>2 DEF TypeOK, db

(* A handler's answer is a sale or nothing. *)
LEMMA ReplyTyped ==
    ASSUME TypeOK, NEW r \in Reqs, NEW s \in Sale \cup {None}, Reply(r, s)
    PROVE  req' \in [Reqs -> Requests]
<1>1. req[r] \in Requests
  BY DEF TypeOK
<1>2. req[r].till \in Tills \cup {None}
  BY <1>1 DEF Requests
<1>3. [IdleReq EXCEPT !.pc = "reply", !.till = req[r].till, !.answer = s] \in Requests
  BY <1>2, IdleTyped DEF Requests
<1> QED BY <1>3 DEF TypeOK, Reply

(* The steps of a handler that only read: its own record changes. *)
LEMMA TypeRead ==
    ASSUME TypeOK, NEW r \in Reqs,
           \/ Lookup(r) \/ ReadMember(r) \/ CountToday(r) \/ ReadOrder(r)
           \/ Reject(r) \/ Conflict(r) \/ Adopt(r) \/ StartLegacy(r)
    PROVE  TypeOK'
<1>1. UNCHANGED <<today, db, till, answered>>
  BY DEF Lookup, ReadMember, CountToday, ReadOrder, Reject, Conflict, Adopt, StartLegacy
<1>2. req[r] \in Requests
  BY DEF TypeOK
<1>3. req' \in [Reqs -> Requests]
  <2>1. CASE Lookup(r)
    <3>1. CASE \E s \in RungWith(req[r].key) : Reply(r, s)
      BY <3>1, ReplyTyped DEF RungWith, TypeOK
    <3>2. CASE req' = [req EXCEPT ![r].pc = "member"]
      BY <3>2, <1>2 DEF TypeOK, Requests
    <3> QED BY <2>1, <3>1, <3>2 DEF Lookup
  <2>2. CASE ReadMember(r)
    <3> DEFINE m == req[r].basket.member
               p == IF m \in Members THEN points[m] ELSE 0
               u == m \in Members /\ welcomeUsed[m]
    <3>1. p \in Nat /\ u \in BOOLEAN
      BY DEF TypeOK
    <3>2. req' = [req EXCEPT ![r] = [req[r] EXCEPT !.pc = "count", !.used = u, !.points = p]]
      BY <2>2 DEF ReadMember
    <3> HIDE DEF m, p, u
    <3>3. [req[r] EXCEPT !.pc = "count", !.used = u, !.points = p] \in Requests
      BY <1>2, <3>1 DEF Requests
    <3> QED BY <3>2, <3>3 DEF TypeOK
  <2>3. CASE CountToday(r)
    <3> DEFINE n == Cardinality(RowsOf(today))
    <3>1. n \in Nat
      <4>1. RowsOf(today) \subseteq sales
        BY DEF RowsOf
      <4> QED BY <4>1, FS_Subset, FS_CardinalityType DEF TypeOK
    <3>2. PICK p \in {"order", "insert"} :
             req' = [req EXCEPT ![r] = [req[r] EXCEPT !.pc = p, !.day = today, !.count = n]]
      BY <2>3 DEF CountToday
    <3> HIDE DEF n
    <3>3. [req[r] EXCEPT !.pc = p, !.day = today, !.count = n] \in Requests
      BY <1>2, <3>1 DEF Requests, TypeOK
    <3> QED BY <3>2, <3>3 DEF TypeOK
  <2>4. CASE ReadOrder(r)
    <3> DEFINE c == req[r].code
               m == req[r].basket.member
               open == c \in Orders /\ orders[c] = "open"
               w == open /\ m \in Members /\ owner[c] = m /\ ~req[r].used
    <3>1. open \in BOOLEAN /\ w \in BOOLEAN
      OBVIOUS
    <3>2. req' = [req EXCEPT ![r] = [req[r] EXCEPT !.pc = "commit", !.claim = open,
                                                   !.welcome = w]]
      BY <2>4 DEF ReadOrder
    <3> HIDE DEF open, w
    <3>3. [req[r] EXCEPT !.pc = "commit", !.claim = open, !.welcome = w] \in Requests
      BY <1>2, <3>1 DEF Requests
    <3> QED BY <3>2, <3>3 DEF TypeOK
  <2>5. CASE Reject(r)
    BY <2>5, ReplyTyped DEF Reject
  <2>6. CASE Conflict(r)
    BY <2>6, <1>2 DEF Conflict, TypeOK, Requests
  <2>7. CASE Adopt(r)
    BY <2>7, ReplyTyped DEF Adopt, RungWith, TypeOK
  <2>8. CASE StartLegacy(r)
    BY <2>8, IdleTyped DEF StartLegacy, TypeOK, Requests
  <2> QED BY <2>1, <2>2, <2>3, <2>4, <2>5, <2>6, <2>7, <2>8
<1> QED BY <1>1, <1>3 DEF TypeOK, db

(* A create_sale handler carries the key and the basket it was sent, and the
   sale it answers with has a key. *)
Keyed(h) ==
    /\ h.pc \in {"lookup", "member", "count", "order", "commit", "adopt"}
       => h.key \in Keys /\ h.basket \in Baskets
    /\ h.answer # None => h.answer.key \in Keys

HandlersKeyed == \A r \in Reqs : Keyed(req[r])

LEMMA TypeSubmit ==
    ASSUME TypeOK, NEW t \in Tills, NEW r \in Reqs, Submit(t, r)
    PROVE  TypeOK'
<1>1. till[t] \in TillStates /\ till[t].basket \in Baskets
  BY DEF TypeOK, TillStates, Submit
<1>2. SaleKey(t) \in Keys
  BY DEF Submit
<1>3. till' \in [Tills -> TillStates]
  <2> DEFINE n == IF till[t].key = None THEN till[t].drawn + 1 ELSE till[t].drawn
  <2>1. n \in Nat
    BY <1>1 DEF TillStates
  <2>2. till' = [till EXCEPT ![t] = [till[t] EXCEPT !.key = SaleKey(t), !.drawn = n,
                                                    !.waiting = r]]
    BY DEF Submit
  <2> HIDE DEF n
  <2>3. [till[t] EXCEPT !.key = SaleKey(t), !.drawn = n, !.waiting = r] \in TillStates
    BY <1>1, <1>2, <2>1 DEF TillStates
  <2> QED BY <2>2, <2>3 DEF TypeOK
<1>4. req' \in [Reqs -> Requests]
  <2>1. [IdleReq EXCEPT !.pc = "lookup", !.till = t, !.key = SaleKey(t),
                        !.basket = till[t].basket, !.code = till[t].code] \in Requests
    BY <1>1, <1>2, IdleTyped DEF Requests, TillStates
  <2> QED BY <2>1 DEF TypeOK, Submit
<1> QED BY <1>3, <1>4 DEF TypeOK, Submit, db

LEMMA NewSaleTyped ==
    ASSUME TypeOK, HandlersKeyed, NEW r \in Reqs, req[r].pc = "commit"
    PROVE  /\ NewSale(r) \in Sale
           /\ NewSale(r).key \in Keys
<1>1. req[r] \in Requests /\ req[r].key \in Keys /\ req[r].basket \in Baskets
  BY DEF TypeOK, HandlersKeyed, Keyed
<1>2. req[r].count + 1 \in Nat \ {0}
  BY <1>1 DEF Requests
<1> DEFINE o == IF req[r].claim THEN req[r].code ELSE None
<1>3. o \in MaybeOrder
  BY <1>1 DEF Requests
<1>4. req[r].basket.member \in MaybeMember
  BY <1>1 DEF Baskets
<1> HIDE DEF o
<1>5. NewSale(r) = [key |-> req[r].key, day |-> req[r].day, num |-> req[r].count + 1,
                    member |-> req[r].basket.member, order |-> o,
                    welcome |-> req[r].welcome, basket |-> req[r].basket]
  BY DEF NewSale, o
<1> QED BY <1>1, <1>2, <1>3, <1>4, <1>5 DEF Sale, Requests

LEMMA TypeCommit ==
    ASSUME TypeOK, HandlersKeyed, NEW r \in Reqs, Commit(r)
    PROVE  TypeOK'
<1> DEFINE s == NewSale(r)
<1>1. s \in Sale /\ s.key \in Keys
  BY NewSaleTyped DEF Commit
<1>2. s.member \in MaybeMember
  BY <1>1 DEF Sale
<1> HIDE DEF s
<1>3. sales' = sales \cup {s} /\ Reply(r, s)
  BY DEF Commit, s
<1>4. sales' \subseteq Sale /\ IsFiniteSet(sales')
  BY <1>1, <1>3, FS_AddElement DEF TypeOK
<1>5. req' \in [Reqs -> Requests]
  BY <1>1, <1>3, ReplyTyped
<1>6. points' \in [Members -> Nat]
  <2>1. req[r].points + 1 \in Nat
    BY DEF TypeOK, Requests
  <2>2. \/ points' = points
        \/ points' = [points EXCEPT ![s.member] = req[r].points + 1]
    BY DEF Commit, s
  <2> QED BY <2>1, <2>2 DEF TypeOK
<1>7. ledger' \subseteq Credit
  <2>1. CASE s.member = None
    BY <2>1 DEF Commit, s, TypeOK
  <2>2. CASE s.member # None
    <3>1. [member |-> s.member, key |-> s.key] \in Credit
      BY <1>1, <1>2, <2>2 DEF Credit
    <3>2. ledger' = ledger \cup {[member |-> s.member, key |-> s.key]}
      BY <2>2 DEF Commit, s
    <3> QED BY <3>1, <3>2 DEF TypeOK
  <2> QED BY <2>1, <2>2
<1>8. welcomeUsed' \in [Members -> BOOLEAN]
  BY DEF Commit, TypeOK
<1>9. orders' \in [Orders -> {"absent", "open", "claimed"}]
  BY DEF Commit, TypeOK
<1> QED BY <1>4, <1>5, <1>6, <1>7, <1>8, <1>9 DEF TypeOK, Commit

LEMMA TypeLegacyInsert ==
    ASSUME TypeOK, NEW r \in Reqs, LegacyInsert(r)
    PROVE  TypeOK'
<1>1. req[r].count + 1 \in Nat \ {0} /\ req[r].day \in Days
  BY DEF TypeOK, Requests
<1>2. LegacySale(r) \in Sale
  BY <1>1 DEF LegacySale, Sale
<1>3. sales' \subseteq Sale /\ IsFiniteSet(sales')
  BY <1>2, FS_AddElement DEF TypeOK, LegacyInsert
<1>4. req' \in [Reqs -> Requests]
  BY IdleTyped DEF TypeOK, LegacyInsert
<1> QED BY <1>3, <1>4 DEF TypeOK, LegacyInsert

LEMMA TypeDeliver ==
    ASSUME TypeOK, HandlersKeyed, NEW r \in Reqs, Deliver(r)
    PROVE  TypeOK'
<1> DEFINE t == req[r].till
           s == req[r].answer
<1>1. t \in Tills \cup {None} /\ s \in Sale \cup {None} /\ (s # None => s.key \in Keys)
  BY DEF TypeOK, Requests, HandlersKeyed, Keyed
<1>2. req' \in [Reqs -> Requests]
  BY IdleTyped DEF TypeOK, Deliver
<1>3. answered' \subseteq Keys \X Days \X Nat
  <2>1. s # None => <<s.key, s.day, s.num>> \in Keys \X Days \X Nat
    BY <1>1 DEF Sale
  <2>2. \/ answered' = answered
        \/ s # None /\ answered' = answered \cup {<<s.key, s.day, s.num>>}
    BY Zenon DEF Deliver
  <2> QED BY <2>1, <2>2 DEF TypeOK
<1>4. till' \in [Tills -> TillStates]
  <2>1. CASE till' = till
    BY <2>1 DEF TypeOK
  <2>2. CASE till' = [till EXCEPT ![t].waiting = None]
    <3>1. t \in Tills => [till[t] EXCEPT !.waiting = None] \in TillStates
      BY DEF TypeOK, TillStates
    <3> HIDE DEF t
    <3> QED BY <2>2, <3>1 DEF TypeOK
  <2>3. CASE till' = [till EXCEPT ![t] = [IdleTill EXCEPT !.gen = till[t].gen,
                                                          !.drawn = till[t].drawn]]
    <3>1. t \in Tills => [IdleTill EXCEPT !.gen = till[t].gen,
                                          !.drawn = till[t].drawn] \in TillStates
      BY IdleTyped DEF TypeOK, TillStates
    <3> QED BY <2>3, <3>1 DEF TypeOK
  <2> QED BY <2>1, <2>2, <2>3 DEF Deliver
<1> QED BY <1>2, <1>3, <1>4 DEF TypeOK, Deliver, db

LEMMA TypeOrder ==
    ASSUME TypeOK, NEW o \in Orders,
           (\E m \in MaybeMember : KioskUpsert(o, m)) \/ CartClaim(o)
    PROVE  TypeOK'
BY DEF TypeOK, KioskUpsert, CartClaim

LEMMA TypeWorld ==
    ASSUME TypeOK, Midnight \/ Restart
    PROVE  TypeOK'
<1>1. CASE Midnight
  BY <1>1, LastDayAssumption DEF Midnight, TypeOK, db
<1>2. CASE Restart
  <2>1. \A t \in Tills : [till[t] EXCEPT !.waiting = None] \in TillStates
    BY DEF TypeOK, TillStates
  <2> QED BY <1>2, <2>1, IdleTyped DEF Restart, TypeOK, db
<1> QED BY <1>1, <1>2
-----------------------------------------------------------------------------
LEMMA TypeNext ==
    ASSUME TypeOK, HandlersKeyed, Next
    PROVE  TypeOK'
<1>1. ASSUME NEW o \in Orders, (\E m \in MaybeMember : KioskUpsert(o, m)) \/ CartClaim(o)
      PROVE  TypeOK'
  BY <1>1, TypeOrder
<1>2. ASSUME NEW t \in Tills,
             \/ \E m \in MaybeMember : StartBasket(t, m)
             \/ \E o \in Orders : RingOut(t, o)
             \/ Edit(t) \/ ClearCart(t) \/ GiveUp(t)
      PROVE  TypeOK'
  BY <1>2, TypeTill
<1>3. ASSUME NEW t \in Tills, NEW r \in Reqs, Submit(t, r) PROVE TypeOK'
  BY <1>3, TypeSubmit
<1>4. ASSUME NEW r \in Reqs,
             \/ Lookup(r) \/ ReadMember(r) \/ CountToday(r) \/ ReadOrder(r)
             \/ Reject(r) \/ Conflict(r) \/ Adopt(r) \/ StartLegacy(r)
      PROVE  TypeOK'
  BY <1>4, TypeRead
<1>5. ASSUME NEW r \in Reqs, Commit(r) PROVE TypeOK'
  BY <1>5, TypeCommit
<1>6. ASSUME NEW r \in Reqs, Deliver(r) PROVE TypeOK'
  BY <1>6, TypeDeliver
<1>7. ASSUME NEW r \in Reqs, LegacyInsert(r) PROVE TypeOK'
  BY <1>7, TypeLegacyInsert
<1>8. Midnight \/ Restart => TypeOK'
  BY TypeWorld
<1> QED BY <1>1, <1>2, <1>3, <1>4, <1>5, <1>6, <1>7, <1>8 DEF Next

(* The handlers keep their key: only Submit draws one, and a handler answers
   with a row that has its own key. *)
LEMMA KeyedNext ==
    ASSUME TypeOK, HandlersKeyed, [Next]_vars
    PROVE  HandlersKeyed'
<1> SUFFICES ASSUME NEW q \in Reqs PROVE Keyed(req'[q])
  BY DEF HandlersKeyed
<1>1. Keyed(req[q]) /\ req[q] \in Requests
  BY DEF HandlersKeyed, TypeOK
<1>2. Keyed(IdleReq)
  BY DEF Keyed, IdleReq
<1>3. ASSUME NEW r \in Reqs, NEW s, Reply(r, s), s # None => s.key \in Keys
      PROVE  Keyed(req'[q])
  <2>1. Keyed([IdleReq EXCEPT !.pc = "reply", !.till = req[r].till, !.answer = s])
    BY <1>3 DEF Keyed, IdleReq
  <2> QED BY <2>1, <1>1, <1>3 DEF Reply, TypeOK
<1>4. ASSUME NEW r \in Reqs, NEW s \in RungWith(req[r].key), req[r].key \in Keys
      PROVE  s.key \in Keys
  BY <1>4 DEF RungWith
<1>5. ASSUME NEW r \in Reqs, Lookup(r) \/ Adopt(r) PROVE Keyed(req'[q])
  <2>1. Keyed(req[r]) /\ req[r].key \in Keys
    BY <1>5 DEF HandlersKeyed, Keyed, Lookup, Adopt
  <2>2. CASE \E s \in RungWith(req[r].key) : Reply(r, s)
    BY <2>1, <2>2, <1>3, <1>4
  <2>3. CASE Reply(r, None)
    BY <2>3, <1>3
  <2>4. CASE req[r].pc = "lookup" /\ req' = [req EXCEPT ![r].pc = "member"]
    BY <2>1, <2>4, <1>1 DEF Keyed, TypeOK, Requests
  <2> QED BY <1>5, <2>2, <2>3, <2>4 DEF Lookup, Adopt
<1>6. ASSUME NEW r \in Reqs, ReadMember(r) \/ CountToday(r) \/ ReadOrder(r) \/ Conflict(r)
      PROVE  Keyed(req'[q])
  <2>1. Keyed(req[r]) /\ req[r] \in Requests
    BY DEF HandlersKeyed, TypeOK
  <2>2. CASE ReadMember(r)
    BY <1>1, <2>1, <2>2 DEF Keyed, TypeOK, Requests, ReadMember
  <2>3. CASE CountToday(r)
    BY <1>1, <2>1, <2>3 DEF Keyed, TypeOK, Requests, CountToday
  <2>4. CASE ReadOrder(r)
    BY <1>1, <2>1, <2>4 DEF Keyed, TypeOK, Requests, ReadOrder
  <2>5. CASE Conflict(r)
    BY <1>1, <2>1, <2>5 DEF Keyed, TypeOK, Requests, Conflict
  <2> QED BY <1>6, <2>2, <2>3, <2>4, <2>5
<1>7. ASSUME NEW r \in Reqs, Reject(r) PROVE Keyed(req'[q])
  BY <1>7, <1>3 DEF Reject
<1>8. ASSUME NEW r \in Reqs, Commit(r) PROVE Keyed(req'[q])
  BY <1>8, <1>3, NewSaleTyped DEF Commit
<1>9. ASSUME NEW r \in Reqs, Deliver(r) \/ LegacyInsert(r) PROVE Keyed(req'[q])
  BY <1>1, <1>2, <1>9 DEF Deliver, LegacyInsert, TypeOK
<1>10. ASSUME NEW r \in Reqs, StartLegacy(r) PROVE Keyed(req'[q])
  BY <1>1, <1>10 DEF StartLegacy, TypeOK, Keyed, IdleReq
<1>11. ASSUME NEW t \in Tills, NEW r \in Reqs, Submit(t, r) PROVE Keyed(req'[q])
  <2>1. till[t].basket \in Baskets /\ SaleKey(t) \in Keys
    BY <1>11 DEF Submit, TypeOK, TillStates
  <2> QED BY <2>1, <1>1, <1>11 DEF Submit, TypeOK, Keyed, IdleReq
<1>12. Restart => Keyed(req'[q])
  BY <1>2 DEF Restart
<1>13. ASSUME UNCHANGED req PROVE Keyed(req'[q])
  BY <1>1, <1>13
<1>14. ASSUME NEW o \in Orders, (\E m \in MaybeMember : KioskUpsert(o, m)) \/ CartClaim(o)
       PROVE  UNCHANGED req
  BY <1>14 DEF KioskUpsert, CartClaim
<1>15. ASSUME NEW t \in Tills,
              \/ \E m \in MaybeMember : StartBasket(t, m)
              \/ \E o \in Orders : RingOut(t, o)
              \/ Edit(t) \/ ClearCart(t) \/ GiveUp(t)
       PROVE  UNCHANGED req
  BY <1>15 DEF StartBasket, RingOut, Edit, ClearCart, GiveUp
<1>16. Midnight \/ UNCHANGED vars => UNCHANGED req
  BY DEF Midnight, vars
<1> QED
  BY <1>5, <1>6, <1>7, <1>8, <1>9, <1>10, <1>11, <1>12, <1>13, <1>14, <1>15, <1>16 DEF Next
-----------------------------------------------------------------------------
(* The book of a day.  Only Commit and LegacyInsert add a row, and the row they
   add has a free number one above the handler's count. *)
LEMMA RowsFinite ==
    ASSUME TypeOK, NEW d
    PROVE  /\ IsFiniteSet(RowsOf(d))
           /\ Cardinality(RowsOf(d)) \in Nat
<1>1. RowsOf(d) \subseteq sales
  BY DEF RowsOf
<1> QED BY <1>1, FS_Subset, FS_CardinalityType DEF TypeOK

(* Every step leaves the book alone or adds one such row, by the handler that
   counted. *)
Adds(r, s) == /\ s \in Sale /\ sales' = sales \cup {s}
              /\ s.day = req[r].day /\ s.num = req[r].count + 1 /\ Unique(s)
              /\ req[r].pc \in {"commit", "insert"}
              /\ \A q \in Reqs : q # r => req'[q] = req[q]
              /\ req'[r].pc \in {"idle", "reply"}

LEMMA BookGrows ==
    ASSUME TypeOK, HandlersKeyed, Next
    PROVE  \/ UNCHANGED sales
           \/ \E r \in Reqs : Adds(r, NewSale(r)) /\ Commit(r)
           \/ \E r \in Reqs : Adds(r, LegacySale(r)) /\ LegacyInsert(r)
<1>1. ASSUME NEW r \in Reqs, Commit(r) PROVE Adds(r, NewSale(r))
  <2>1. NewSale(r) \in Sale
    BY <1>1, NewSaleTyped DEF Commit
  <2>2. NewSale(r).day = req[r].day /\ NewSale(r).num = req[r].count + 1
    BY DEF NewSale
  <2>3. /\ \A q \in Reqs : q # r => req'[q] = req[q]
        /\ req'[r].pc = "reply"
    BY <1>1 DEF Commit, Reply, TypeOK, IdleReq
  <2> QED BY <1>1, <2>1, <2>2, <2>3 DEF Commit, Adds
<1>2. ASSUME NEW r \in Reqs, LegacyInsert(r), sales' # sales PROVE Adds(r, LegacySale(r))
  <2>1. req[r] \in Requests
    BY DEF TypeOK
  <2>2. LegacySale(r) \in Sale
    BY <2>1 DEF LegacySale, Sale, Requests
  <2>3. LegacySale(r).day = req[r].day /\ LegacySale(r).num = req[r].count + 1
    BY DEF LegacySale
  <2>4. /\ \A q \in Reqs : q # r => req'[q] = req[q]
        /\ req'[r].pc = "idle"
    BY <1>2 DEF LegacyInsert, TypeOK, IdleReq
  <2> QED BY <1>2, <2>2, <2>3, <2>4 DEF LegacyInsert, Adds
<1>3. ASSUME NEW r \in Reqs,
             \/ Lookup(r) \/ ReadMember(r) \/ CountToday(r) \/ ReadOrder(r)
             \/ Reject(r) \/ Conflict(r) \/ Adopt(r) \/ Deliver(r) \/ StartLegacy(r)
      PROVE  UNCHANGED sales
  BY <1>3 DEF Lookup, ReadMember, CountToday, ReadOrder, Reject, Conflict, Adopt, Deliver,
              StartLegacy, db
<1>4. ASSUME NEW t \in Tills,
             \/ \E m \in MaybeMember : StartBasket(t, m)
             \/ \E o \in Orders : RingOut(t, o)
             \/ \E r \in Reqs : Submit(t, r)
             \/ Edit(t) \/ ClearCart(t) \/ GiveUp(t)
      PROVE  UNCHANGED sales
  BY <1>4 DEF StartBasket, RingOut, Edit, ClearCart, GiveUp, Submit, db
<1>5. ASSUME NEW o \in Orders, (\E m \in MaybeMember : KioskUpsert(o, m)) \/ CartClaim(o)
      PROVE  UNCHANGED sales
  BY <1>5 DEF KioskUpsert, CartClaim
<1>6. Midnight \/ Restart => UNCHANGED sales
  BY DEF Midnight, Restart, db
<1> QED BY <1>1, <1>2, <1>3, <1>4, <1>5, <1>6 DEF Next

(* A handler's count, day and claim change in CountToday and ReadOrder only,
   or no longer matter. *)
LEMMA HandlerStep ==
    ASSUME TypeOK, Next, NEW q \in Reqs
    PROVE  \/ req'[q] = req[q]
           \/ req'[q].pc \in {"idle", "lookup", "member", "count", "adopt", "reply", "legacy"}
           \/ CountToday(q) \/ ReadOrder(q)
<1> DEFINE Quiet == req'[q].pc \in {"idle", "lookup", "member", "count", "adopt", "reply",
                                    "legacy"}
<1>1. ASSUME NEW r \in Reqs, NEW s, Reply(r, s) PROVE req'[q] = req[q] \/ Quiet
  BY <1>1 DEF Reply, TypeOK, IdleReq
<1>2. ASSUME NEW r \in Reqs, Lookup(r) \/ Reject(r) \/ Adopt(r) \/ Commit(r) \/ Conflict(r)
      PROVE  req'[q] = req[q] \/ Quiet
  <2>1. CASE \E s : Reply(r, s)
    BY <1>1, <2>1
  <2>2. CASE \E p \in {"member", "adopt"} : req' = [req EXCEPT ![r].pc = p]
    BY <2>2 DEF TypeOK, Requests
  <2> QED BY <1>2, <2>1, <2>2 DEF Lookup, Reject, Adopt, Commit, Conflict
<1>3. ASSUME NEW r \in Reqs,
             ReadMember(r) \/ Deliver(r) \/ StartLegacy(r) \/ LegacyInsert(r)
      PROVE  req'[q] = req[q] \/ Quiet
  <2>1. CASE ReadMember(r)
    BY <2>1 DEF ReadMember, TypeOK, Requests
  <2>2. CASE Deliver(r) \/ LegacyInsert(r)
    <3>1. req' = [req EXCEPT ![r] = IdleReq]
      BY <2>2 DEF Deliver, LegacyInsert
    <3> QED BY <3>1 DEF TypeOK, IdleReq
  <2>3. CASE StartLegacy(r)
    BY <2>3 DEF StartLegacy, TypeOK, IdleReq
  <2> QED BY <1>3, <2>1, <2>2, <2>3
<1>4. ASSUME NEW r \in Reqs, CountToday(r) \/ ReadOrder(r), r # q PROVE req'[q] = req[q]
  BY <1>4 DEF CountToday, ReadOrder, TypeOK
<1>5. ASSUME NEW t \in Tills, NEW r \in Reqs, Submit(t, r) PROVE req'[q] = req[q] \/ Quiet
  BY <1>5 DEF Submit, TypeOK, IdleReq
<1>6. ASSUME NEW t \in Tills,
             \/ \E m \in MaybeMember : StartBasket(t, m)
             \/ \E o \in Orders : RingOut(t, o)
             \/ Edit(t) \/ ClearCart(t) \/ GiveUp(t)
      PROVE  req'[q] = req[q]
  BY <1>6 DEF StartBasket, RingOut, Edit, ClearCart, GiveUp
<1>7. ASSUME NEW o \in Orders, (\E m \in MaybeMember : KioskUpsert(o, m)) \/ CartClaim(o)
      PROVE  req'[q] = req[q]
  BY <1>7 DEF KioskUpsert, CartClaim
<1>8. Midnight \/ Restart => req'[q] = req[q] \/ Quiet
  BY DEF Midnight, Restart, IdleReq
<1> QED BY <1>2, <1>3, <1>4, <1>5, <1>6, <1>7, <1>8 DEF Next
-----------------------------------------------------------------------------
(* A handler that has counted may be behind the book, never ahead of it: rows
   are only added.  This is what makes a stale count collide. *)
CountsNotAhead ==
    \A r \in Reqs : req[r].pc \in {"order", "commit", "insert"}
        => req[r].count <= Cardinality(RowsOf(req[r].day))

BookInv == TypeOK /\ HandlersKeyed /\ NumbersDense /\ CountsNotAhead

RowsAfter(d) == {x \in sales' : x.day = d}

(* The row a handler adds is the next one: a count that is behind would name a
   number that is taken. *)
LEMMA NextRow ==
    ASSUME BookInv, NEW r \in Reqs, NEW s, Adds(r, s)
    PROVE  /\ req[r].count = Cardinality(RowsOf(s.day))
           /\ RowsAfter(s.day) = RowsOf(s.day) \cup {s}
           /\ Cardinality(RowsAfter(s.day)) = req[r].count + 1
           /\ {x.num : x \in RowsAfter(s.day)} = 1 .. Cardinality(RowsAfter(s.day))
           /\ \A d \in Days : d # s.day => RowsAfter(d) = RowsOf(d)
<1> USE DEF BookInv
<1>1. /\ IsFiniteSet(RowsOf(s.day))
      /\ req[r].count \in Nat
      /\ req[r].count <= Cardinality(RowsOf(s.day))
      /\ s.day \in Days /\ s.num = req[r].count + 1
  BY RowsFinite DEF Adds, CountsNotAhead, TypeOK, Requests
<1>2. {x.num : x \in RowsOf(s.day)} = 1 .. Cardinality(RowsOf(s.day))
  BY <1>1 DEF NumbersDense
<1>3. \A x \in RowsOf(s.day) : x.num # s.num
  BY DEF Adds, Unique, RowsOf
<1>4. /\ req[r].count = Cardinality(RowsOf(s.day))
      /\ Cardinality(RowsOf(s.day) \cup {s}) = req[r].count + 1
      /\ {x.num : x \in RowsOf(s.day) \cup {s}} = 1 .. Cardinality(RowsOf(s.day) \cup {s})
  BY <1>1, <1>2, <1>3, DenseAdd
<1>5. RowsAfter(s.day) = RowsOf(s.day) \cup {s}
  BY DEF Adds, RowsOf, RowsAfter
<1>6. \A d \in Days : d # s.day => RowsAfter(d) = RowsOf(d)
  BY DEF Adds, RowsOf, RowsAfter
<1> QED BY <1>4, <1>5, <1>6

LEMMA BookInvInit == Init => BookInv
<1> SUFFICES ASSUME Init PROVE BookInv
  OBVIOUS
<1>1. TypeOK
  BY TypeInit
<1>2. HandlersKeyed
  BY DEF Init, HandlersKeyed, Keyed, IdleReq
<1>3. NumbersDense
  <2>1. \A d \in Days : RowsOf(d) = {}
    BY DEF Init, RowsOf
  <2>2. Cardinality({}) = 0
    BY FS_EmptySet
  <2> QED BY <2>1, <2>2 DEF NumbersDense
<1>4. CountsNotAhead
  BY DEF Init, CountsNotAhead, IdleReq
<1> QED BY <1>1, <1>2, <1>3, <1>4 DEF BookInv

LEMMA BookInvNext == BookInv /\ [Next]_vars => BookInv'
<1> SUFFICES ASSUME BookInv, [Next]_vars PROVE BookInv'
  OBVIOUS
<1> USE DEF BookInv
<1>1. CASE UNCHANGED vars
  BY <1>1 DEF vars, db, TypeOK, HandlersKeyed, NumbersDense, CountsNotAhead, RowsOf
<1>2. CASE Next
  <2>1. TypeOK' /\ HandlersKeyed'
    BY <1>2, TypeNext, KeyedNext
  <2>2. NumbersDense'
    <3>1. CASE UNCHANGED sales
      BY <3>1 DEF NumbersDense, RowsOf
    <3>2. ASSUME NEW r \in Reqs, NEW s, Adds(r, s) PROVE NumbersDense'
      <4> SUFFICES ASSUME NEW d \in Days
                   PROVE  {x.num : x \in RowsAfter(d)} = 1 .. Cardinality(RowsAfter(d))
        BY DEF NumbersDense, RowsOf, RowsAfter
      <4> QED BY <3>2, NextRow DEF NumbersDense
    <3> QED BY <1>2, <3>1, <3>2, BookGrows
  <2>3. CountsNotAhead'
    <3> SUFFICES ASSUME NEW q \in Reqs, req'[q].pc \in {"order", "commit", "insert"}
                 PROVE  req'[q].count <= Cardinality(RowsAfter(req'[q].day))
      BY DEF CountsNotAhead, RowsOf, RowsAfter
    <3>1. CASE UNCHANGED sales
      <4>1. RowsAfter(req'[q].day) = RowsOf(req'[q].day)
        BY <3>1 DEF RowsOf, RowsAfter
      <4>2. CASE req'[q] = req[q]
        BY <4>1, <4>2 DEF CountsNotAhead
      <4>3. CASE CountToday(q)
        <5>1. req'[q].day = today /\ req'[q].count = Cardinality(RowsOf(today))
          BY <4>3 DEF CountToday, TypeOK, Requests
        <5>2. Cardinality(RowsOf(today)) \in Nat
          BY RowsFinite
        <5> QED BY <4>1, <5>1, <5>2
      <4>4. CASE ReadOrder(q)
        <5>1. req[q].pc = "order" /\ req'[q].day = req[q].day /\ req'[q].count = req[q].count
          BY <4>4 DEF ReadOrder, TypeOK, Requests
        <5> QED BY <4>1, <5>1 DEF CountsNotAhead
      <4> QED BY <1>2, <4>2, <4>3, <4>4, HandlerStep
    <3>2. ASSUME NEW r \in Reqs, NEW s, Adds(r, s)
          PROVE  req'[q].count <= Cardinality(RowsAfter(req'[q].day))
      <4>1. req'[q] = req[q] /\ req[q] \in Requests
        BY <3>2 DEF Adds, TypeOK
      <4>2. req[q].count <= Cardinality(RowsOf(req[q].day)) /\ req[q].day \in Days
        BY <4>1 DEF CountsNotAhead, Requests
      <4>3. CASE req[q].day # s.day
        BY <3>2, <4>1, <4>2, <4>3, NextRow
      <4>4. CASE req[q].day = s.day
        <5>1. Cardinality(RowsAfter(s.day)) = Cardinality(RowsOf(s.day)) + 1
          BY <3>2, NextRow
        <5>2. Cardinality(RowsOf(s.day)) \in Nat /\ req[q].count \in Nat
          BY <4>1, RowsFinite DEF Requests
        <5> QED BY <4>1, <4>2, <4>4, <5>1, <5>2
      <4> QED BY <4>3, <4>4
    <3> QED BY <1>2, <3>1, <3>2, BookGrows
  <2> QED BY <2>1, <2>2, <2>3
<1> QED BY <1>1, <1>2

(* The tables, the pages and the handlers stay well-typed, whatever the number
   of tills and handlers and however they interleave. *)
THEOREM TypeCorrect == Spec => []TypeOK
<1>1. BookInv => TypeOK
  BY DEF BookInv
<1> QED BY <1>1, BookInvInit, BookInvNext, PTL DEF Spec

(* The transaction numbers of a day are exactly 1, 2, ..., n, although the count
   and the insert are separate steps of create_sale and create_transaction. *)
THEOREM NumbersStayDense == Spec => []NumbersDense
<1>1. BookInv => NumbersDense
  BY DEF BookInv
<1> QED BY <1>1, BookInvInit, BookInvNext, PTL DEF Spec
-----------------------------------------------------------------------------
(* The held orders.  A sale's order is spent; a handler that means to claim an
   order counted before every sale of that day that already claimed it. *)
OrdersSpent ==
    \A s \in sales : s.order # None => s.order \in Orders /\ orders[s.order] = "claimed"

Ahead(h, S) == h.pc = "commit" /\ h.claim
               => /\ h.code \in Orders
                  /\ \A s \in S : s.order = h.code /\ s.day = h.day => h.count < s.num

ClaimsAhead == \A r \in Reqs : Ahead(req[r], sales)

ClaimInv == BookInv /\ OrdersSpent /\ ClaimsAhead /\ OrderClaimedOnce

LEMMA ClaimInvInit == Init => ClaimInv
<1> SUFFICES ASSUME Init PROVE ClaimInv
  OBVIOUS
<1>1. BookInv
  BY BookInvInit
<1>2. OrdersSpent /\ OrderClaimedOnce
  BY DEF Init, OrdersSpent, OrderClaimedOnce
<1>3. ClaimsAhead
  BY DEF Init, ClaimsAhead, Ahead, IdleReq
<1> QED BY <1>1, <1>2, <1>3 DEF ClaimInv

(* Outside Commit a claimed order stays claimed. *)
LEMMA OrdersStayClaimed ==
    ASSUME TypeOK, Next, NEW o \in Orders, orders[o] = "claimed"
    PROVE  orders'[o] = "claimed"
<1>1. ASSUME NEW r \in Reqs, Commit(r) PROVE orders'[o] = "claimed"
  BY <1>1 DEF Commit, TypeOK
<1>2. ASSUME NEW x \in Orders, (\E m \in MaybeMember : KioskUpsert(x, m)) \/ CartClaim(x)
      PROVE  orders'[o] = "claimed"
  BY <1>2 DEF KioskUpsert, CartClaim, TypeOK
<1>3. ASSUME NEW r \in Reqs,
             \/ Lookup(r) \/ ReadMember(r) \/ CountToday(r) \/ ReadOrder(r)
             \/ Reject(r) \/ Conflict(r) \/ Adopt(r) \/ Deliver(r)
             \/ StartLegacy(r) \/ LegacyInsert(r)
      PROVE  UNCHANGED orders
  BY <1>3 DEF Lookup, ReadMember, CountToday, ReadOrder, Reject, Conflict, Adopt, Deliver,
              StartLegacy, LegacyInsert, db
<1>4. ASSUME NEW t \in Tills,
             \/ \E m \in MaybeMember : StartBasket(t, m)
             \/ \E x \in Orders : RingOut(t, x)
             \/ \E r \in Reqs : Submit(t, r)
             \/ Edit(t) \/ ClearCart(t) \/ GiveUp(t)
      PROVE  UNCHANGED orders
  BY <1>4 DEF StartBasket, RingOut, Edit, ClearCart, GiveUp, Submit, db
<1>5. Midnight \/ Restart => UNCHANGED orders
  BY DEF Midnight, Restart, db
<1> QED BY <1>1, <1>2, <1>3, <1>4, <1>5 DEF Next

(* The new sale's order, if any, was claimed by this very commit. *)
LEMMA ClaimOfCommit ==
    ASSUME ClaimInv, NEW r \in Reqs, Commit(r), Adds(r, NewSale(r)), NewSale(r).order # None
    PROVE  /\ req[r].claim /\ NewSale(r).order = req[r].code
           /\ req[r].code \in Orders /\ orders'[req[r].code] = "claimed"
           /\ \A s \in sales : s.order = req[r].code => s.day # req[r].day
<1>1. req[r].claim /\ NewSale(r).order = req[r].code /\ req[r].pc = "commit"
  BY DEF NewSale, Commit
<1>2. /\ req[r].code \in Orders
      /\ \A s \in sales : s.order = req[r].code /\ s.day = req[r].day
                          => req[r].count < s.num
  BY <1>1 DEF ClaimInv, ClaimsAhead, Ahead
<1>3. orders'[req[r].code] = "claimed"
  BY <1>1, <1>2 DEF Commit, ClaimInv, BookInv, TypeOK
<1>4. ASSUME NEW s \in sales, s.order = req[r].code, s.day = req[r].day PROVE FALSE
  <2>1. req[r].count < s.num /\ s \in RowsOf(req[r].day)
    BY <1>2, <1>4 DEF RowsOf
  <2>2. NewSale(r).day = req[r].day
    BY DEF NewSale
  <2>3. req[r].count = Cardinality(RowsOf(req[r].day))
    BY <2>2, NextRow DEF ClaimInv
  <2>4. req[r].day \in Days /\ req[r].count \in Nat
    BY DEF ClaimInv, BookInv, TypeOK, Requests
  <2>5. s.num \in 1 .. Cardinality(RowsOf(req[r].day))
    BY <2>1, <2>4 DEF ClaimInv, BookInv, NumbersDense
  <2> QED BY <2>1, <2>3, <2>4, <2>5
<1> QED BY <1>1, <1>2, <1>3, <1>4

LEMMA ClaimInvNext == ClaimInv /\ [Next]_vars => ClaimInv'
<1> SUFFICES ASSUME ClaimInv, [Next]_vars PROVE ClaimInv'
  OBVIOUS
<1> USE DEF ClaimInv
<1>1. BookInv'
  BY BookInvNext
<1>2. CASE UNCHANGED vars
  BY <1>1, <1>2 DEF vars, db, OrdersSpent, ClaimsAhead, OrderClaimedOnce
<1>3. CASE Next
  <2>1. CASE UNCHANGED sales
    <3>1. OrdersSpent'
      BY <1>3, <2>1, OrdersStayClaimed DEF OrdersSpent, BookInv
    <3>2. OrderClaimedOnce'
      BY <2>1 DEF OrderClaimedOnce
    <3>3. ClaimsAhead'
      <4> SUFFICES ASSUME NEW q \in Reqs PROVE Ahead(req'[q], sales)
        BY <2>1 DEF ClaimsAhead
      <4>1. CASE req'[q] = req[q]
        BY <4>1 DEF ClaimsAhead
      <4>2. CASE ReadOrder(q)
        <5>1. /\ req'[q].code = req[q].code
              /\ req'[q].claim => req[q].code \in Orders /\ orders[req[q].code] = "open"
          BY <4>2 DEF ReadOrder, BookInv, TypeOK, Requests
        <5> QED BY <5>1, NoneAssumption DEF Ahead, OrdersSpent
      <4>3. CASE req'[q].pc # "commit"
        BY <4>3 DEF Ahead
      <4>4. CountToday(q) => req'[q].pc # "commit"
        BY DEF CountToday, BookInv, TypeOK, Requests
      <4> QED BY <1>3, <4>1, <4>2, <4>3, <4>4, HandlerStep DEF BookInv
    <3> QED BY <1>1, <3>1, <3>2, <3>3
  <2>2. ASSUME NEW r \in Reqs, Adds(r, NewSale(r)), Commit(r) PROVE ClaimInv'
    <3> DEFINE s == NewSale(r)
    <3>1. sales' = sales \cup {s} /\ s.day = req[r].day /\ s.num = req[r].count + 1
      BY <2>2 DEF Adds
    <3>2. s.order # None => /\ s.order \in Orders /\ orders'[s.order] = "claimed"
                            /\ \A x \in sales : s.order = x.order => s.day # x.day
      BY <2>2, <3>1, ClaimOfCommit
    <3>3. req[r].count = Cardinality(RowsOf(s.day))
      BY <2>2, NextRow
    <3> HIDE DEF s
    <3>4. OrdersSpent'
      BY <1>3, <3>1, <3>2, OrdersStayClaimed DEF OrdersSpent, BookInv
    <3>5. OrderClaimedOnce'
      BY <3>1, <3>2 DEF OrderClaimedOnce
    <3>6. ClaimsAhead'
      <4> SUFFICES ASSUME NEW q \in Reqs PROVE Ahead(req'[q], sales')
        BY DEF ClaimsAhead
      <4>1. CASE q = r
        BY <2>2, <4>1 DEF Adds, Ahead
      <4>2. CASE q # r
        <5>1. req'[q] = req[q] /\ Ahead(req[q], sales) /\ req[q] \in Requests
          BY <2>2, <4>2 DEF Adds, ClaimsAhead, BookInv, TypeOK
        <5>2. req[q].pc = "commit" /\ req[q].day = s.day => req[q].count < s.num
          <6>1. req[q].pc = "commit" => req[q].count <= Cardinality(RowsOf(req[q].day))
            BY DEF BookInv, CountsNotAhead
          <6>2. req[q].count \in Nat /\ req[r].count \in Nat
            BY DEF BookInv, TypeOK, Requests
          <6> QED BY <3>1, <3>3, <6>1, <6>2
        <5> QED BY <3>1, <5>1, <5>2 DEF Ahead
      <4> QED BY <4>1, <4>2
    <3> QED BY <1>1, <3>4, <3>5, <3>6
  <2>3. ASSUME NEW r \in Reqs, Adds(r, LegacySale(r)), LegacyInsert(r) PROVE ClaimInv'
    <3>1. LegacySale(r).order = None
      BY DEF LegacySale
    <3>2. sales' = sales \cup {LegacySale(r)} /\ UNCHANGED orders
      BY <2>3 DEF Adds, LegacyInsert
    <3>3. OrdersSpent'
      BY <3>1, <3>2 DEF OrdersSpent
    <3>4. OrderClaimedOnce'
      BY <3>1, <3>2 DEF OrderClaimedOnce
    <3>5. ClaimsAhead'
      <4> SUFFICES ASSUME NEW q \in Reqs PROVE Ahead(req'[q], sales')
        BY DEF ClaimsAhead
      <4>1. CASE q = r
        BY <2>3, <4>1 DEF Adds, Ahead
      <4>2. CASE q # r
        <5>1. req'[q] = req[q] /\ Ahead(req[q], sales)
          BY <2>3, <4>2 DEF Adds, ClaimsAhead
        <5> QED BY <3>1, <3>2, <5>1, NoneAssumption DEF Ahead
      <4> QED BY <4>1, <4>2
    <3> QED BY <1>1, <3>3, <3>4, <3>5
  <2> QED BY <1>3, <2>1, <2>2, <2>3, BookGrows DEF BookInv
<1> QED BY <1>2, <1>3

(* A held order is claimed by at most one sale of a day: the handlers read its
   status without a lock, but the second to commit is behind in its count and
   collides on the transaction number. *)
THEOREM OrderStaysClaimedOnce == Spec => []OrderClaimedOnce
<1>1. ClaimInv => OrderClaimedOnce
  BY DEF ClaimInv
<1> QED BY <1>1, ClaimInvInit, ClaimInvNext, PTL DEF Spec
-----------------------------------------------------------------------------
(* What was rung stays rung: one sale per key, and a handler answers with a sale
   that is in the book. *)
(* A handler that still carries the key and the basket it was sent. *)
Working(h) == h.pc \in {"lookup", "member", "count", "order", "commit", "adopt"}

(* Key k went out with a basket of generation g: a handler carries the two, or a
   sale was rung with them. *)
Sent(k, g) ==
    \/ \E r \in Reqs : Working(req[r]) /\ req[r].key = k /\ req[r].basket.gen = g
    \/ \E s \in sales : s.key = k /\ s.basket.gen = g

KeysUnique == \A s, x \in sales : s.key \in Keys /\ s.key = x.key => s = x
SalesKeyed == \A s \in sales : s.key \in Keys => s.basket \in Baskets
AnswersRung == \A r \in Reqs : req[r].answer # None => req[r].answer \in sales

SoldInv == KeysUnique /\ SalesKeyed /\ AnswersRung

(* The page: the key belongs to the basket, and is one the page drew. *)
PageOk(t) ==
    /\ till[t].basket = None => till[t].key = None
    /\ till[t].basket # None => till[t].basket.gen = till[t].gen
    /\ till[t].key # None => till[t].key[1] = t /\ till[t].key[2] <= till[t].drawn

(* The page is past what went out, or still has its key. *)
SentOk(k, g) ==
    LET p == till[k[1]] IN
    /\ g \in Nat /\ g <= p.gen /\ k[2] <= p.drawn
    /\ p.basket # None /\ g = p.gen => p.key = k
    /\ p.key = k => g = p.gen

(* A key for every basket and a basket for every key. *)
OneToOne == \A k, l \in Keys : \A g, f :
    Sent(k, g) /\ Sent(l, f) /\ k[1] = l[1] => (k = l <=> g = f)

(* The page waits with the key it sent. *)
Awaited(h, r) ==
    h.till # None /\ till[h.till].waiting = r =>
        /\ Working(h) => h.key = till[h.till].key
        /\ h.answer # None => h.answer.key = till[h.till].key

BasketInv == /\ \A t \in Tills : PageOk(t)
             /\ \A k \in Keys : \A g : Sent(k, g) => SentOk(k, g)
             /\ OneToOne
             /\ \A r \in Reqs : Awaited(req[r], r)

(* A step as one handler sees it: its working steps keep what it was sent, its
   answer is a sale with its key. *)
Keeps(h, g) == h.key = g.key /\ h.basket = g.basket /\ h.till = g.till /\ h.answer = g.answer
Answers(h, g, s) == /\ Working(h) /\ g.pc = "reply" /\ g.till = h.till /\ g.answer = s
                    /\ s # None => s \in sales' /\ s.key = h.key
Ends(h, g) == ~Working(g) /\ (g.answer = None \/ (g.answer = h.answer /\ g.till = h.till))

HandlerMoves(h, g) ==
    \/ g = h
    \/ Working(h) /\ Working(g) /\ Keeps(h, g)
    \/ \E s : Answers(h, g, s)
    \/ Ends(h, g)

LEMMA ReplyMoves ==
    ASSUME TypeOK, NEW r \in Reqs, NEW s, Reply(r, s), Working(req[r]),
           s # None => s \in sales' /\ s.key = req[r].key, NEW q \in Reqs
    PROVE  HandlerMoves(req[q], req'[q])
<1>1. CASE q # r
  <2>1. req'[q] = req[q]
    BY <1>1 DEF Reply, TypeOK
  <2> QED BY <2>1 DEF HandlerMoves
<1>2. CASE q = r
  <2>1. req'[r] = [IdleReq EXCEPT !.pc = "reply", !.till = req[r].till, !.answer = s]
    BY DEF Reply, TypeOK
  <2>2. req'[r].pc = "reply" /\ req'[r].till = req[r].till /\ req'[r].answer = s
    BY <2>1 DEF IdleReq
  <2>3. Answers(req[r], req'[r], s)
    BY <2>2 DEF Answers
  <2> QED BY <1>2, <2>3 DEF HandlerMoves
<1> QED BY <1>1, <1>2

LEMMA MovesHandler ==
    ASSUME TypeOK, HandlersKeyed, [Next]_vars, NEW q \in Reqs
    PROVE  HandlerMoves(req[q], req'[q]) \/ \E t \in Tills : Submit(t, q)
<1>0. req[q] \in Requests
  BY DEF TypeOK
<1>1. ASSUME UNCHANGED req PROVE HandlerMoves(req[q], req'[q])
  BY <1>1 DEF HandlerMoves
<1>2. ASSUME NEW r \in Reqs, Lookup(r) \/ Adopt(r) PROVE HandlerMoves(req[q], req'[q])
  <2>1. Working(req[r]) /\ UNCHANGED sales
    BY <1>2 DEF Lookup, Adopt, Working, db
  <2>2. ASSUME NEW s \in RungWith(req[r].key), Reply(r, s) PROVE HandlerMoves(req[q], req'[q])
    <3>1. s \in sales' /\ s.key = req[r].key
      BY <2>1 DEF RungWith
    <3> QED BY <2>1, <2>2, <3>1, ReplyMoves
  <2>3. CASE Reply(r, None)
    BY <2>1, <2>3, ReplyMoves
  <2>4. CASE Lookup(r) /\ req' = [req EXCEPT ![r].pc = "member"]
    BY <1>0, <2>4 DEF Lookup, TypeOK, Requests, HandlerMoves, Working, Keeps
  <2> QED BY <1>2, <2>2, <2>3, <2>4 DEF Lookup, Adopt
<1>3. ASSUME NEW r \in Reqs, ReadMember(r) \/ ReadOrder(r) \/ Conflict(r) \/ CountToday(r), r # q
      PROVE  HandlerMoves(req[q], req'[q])
  <2>1. req'[q] = req[q]
    BY <1>3 DEF ReadMember, ReadOrder, Conflict, CountToday, TypeOK
  <2> QED BY <2>1 DEF HandlerMoves
<1>4. ASSUME ReadMember(q) \/ ReadOrder(q) \/ Conflict(q) \/ CountToday(q)
      PROVE  HandlerMoves(req[q], req'[q])
  <2>1. CASE ReadMember(q)
    BY <1>0, <2>1 DEF ReadMember, TypeOK, Requests, HandlerMoves, Working, Keeps
  <2>2. CASE ReadOrder(q)
    BY <1>0, <2>2 DEF ReadOrder, TypeOK, Requests, HandlerMoves, Working, Keeps
  <2>3. CASE Conflict(q)
    BY <1>0, <2>3 DEF Conflict, TypeOK, Requests, HandlerMoves, Working, Keeps
  <2>4. CASE CountToday(q)
    <3>1. /\ req'[q].key = req[q].key /\ req'[q].basket = req[q].basket
          /\ req'[q].till = req[q].till /\ req'[q].answer = req[q].answer
          /\ req[q].pc \in {"count", "legacy"}
          /\ req'[q].pc = IF req[q].pc = "count" THEN "order" ELSE "insert"
      BY <1>0, <2>4 DEF CountToday, TypeOK, Requests
    <3>2. CASE req[q].pc = "count"
      BY <3>1, <3>2 DEF HandlerMoves, Working, Keeps
    <3>3. CASE req[q].pc = "legacy"
      BY <3>1, <3>3 DEF HandlerMoves, Working, Ends
    <3> QED BY <3>1, <3>2, <3>3
  <2> QED BY <1>4, <2>1, <2>2, <2>3, <2>4
<1>5. ASSUME NEW r \in Reqs, Reject(r) PROVE HandlerMoves(req[q], req'[q])
  <2>1. Working(req[r]) /\ Reply(r, None)
    BY <1>5 DEF Reject, Working
  <2> QED BY <2>1, ReplyMoves
<1>6. ASSUME NEW r \in Reqs, Commit(r) PROVE HandlerMoves(req[q], req'[q])
  <2>1. Working(req[r]) /\ Reply(r, NewSale(r)) /\ NewSale(r) \in sales' /\ NewSale(r).key = req[r].key
    BY <1>6 DEF Commit, Working, NewSale
  <2> QED BY <2>1, ReplyMoves
<1>7. ASSUME NEW r \in Reqs, Deliver(r) \/ LegacyInsert(r) PROVE HandlerMoves(req[q], req'[q])
  <2>1. req' = [req EXCEPT ![r] = IdleReq]
    BY <1>7 DEF Deliver, LegacyInsert
  <2> QED BY <2>1 DEF TypeOK, HandlerMoves, Ends, Working, IdleReq
<1>8. ASSUME NEW r \in Reqs, StartLegacy(r) PROVE HandlerMoves(req[q], req'[q])
  BY <1>8 DEF StartLegacy, TypeOK, HandlerMoves, Ends, Working, IdleReq
<1>9. ASSUME NEW t \in Tills, NEW r \in Reqs, Submit(t, r), r # q PROVE HandlerMoves(req[q], req'[q])
  BY <1>9 DEF Submit, TypeOK, HandlerMoves
<1>10. ASSUME Restart PROVE HandlerMoves(req[q], req'[q])
  BY <1>10 DEF Restart, HandlerMoves, Ends, Working, IdleReq
<1>11. ASSUME NEW o \in Orders, (\E m \in MaybeMember : KioskUpsert(o, m)) \/ CartClaim(o)
       PROVE  UNCHANGED req
  BY <1>11 DEF KioskUpsert, CartClaim
<1>12. ASSUME NEW t \in Tills,
              \/ \E m \in MaybeMember : StartBasket(t, m)
              \/ \E o \in Orders : RingOut(t, o)
              \/ Edit(t) \/ ClearCart(t) \/ GiveUp(t)
       PROVE  UNCHANGED req
  BY <1>12 DEF StartBasket, RingOut, Edit, ClearCart, GiveUp
<1>13. Midnight \/ UNCHANGED vars => UNCHANGED req
  BY DEF Midnight, vars
<1> QED BY <1>1, <1>2, <1>3, <1>4, <1>5, <1>6, <1>7, <1>8, <1>9, <1>10, <1>11, <1>12, <1>13 DEF Next

(* A step as one page sees it. *)
SamePage(p, q) == /\ q.key = p.key /\ q.gen = p.gen /\ q.drawn = p.drawn
                  /\ q.basket = None <=> p.basket = None
                  /\ p.basket # None => q.basket.gen = p.basket.gen
NextBasket(p, q) == /\ q.gen = p.gen + 1 /\ q.basket # None /\ q.basket.gen = q.gen
                    /\ q.drawn = p.drawn
                    /\ q.key = None \/ (p.basket = None /\ q.key = p.key)
Emptied(p, q) == q.basket = None /\ q.key = None /\ q.gen = p.gen /\ q.drawn = p.drawn

PageMoves(p, q) == \/ q = p
                   \/ q.waiting = None /\ (SamePage(p, q) \/ NextBasket(p, q) \/ Emptied(p, q))

LEMMA MovesPage ==
    ASSUME TypeOK, [Next]_vars, NEW t \in Tills
    PROVE  PageMoves(till[t], till'[t]) \/ \E r \in Reqs : Submit(t, r)
<1>0. till[t] \in TillStates
  BY DEF TypeOK
<1>1. ASSUME UNCHANGED till PROVE PageMoves(till[t], till'[t])
  BY <1>1 DEF PageMoves
<1>2. ASSUME NEW u \in Tills,
             \/ \E m \in MaybeMember : StartBasket(u, m)
             \/ \E o \in Orders : RingOut(u, o)
             \/ \E r \in Reqs : Submit(u, r)
             \/ Edit(u) \/ ClearCart(u) \/ GiveUp(u), u # t
      PROVE  PageMoves(till[t], till'[t])
  <2>1. till'[t] = till[t]
    BY <1>2 DEF StartBasket, RingOut, Submit, Edit, ClearCart, GiveUp, TypeOK
  <2> QED BY <2>1 DEF PageMoves
<1>3. ASSUME NEW m \in MaybeMember, StartBasket(t, m) PROVE PageMoves(till[t], till'[t])
  <2>1. PICK b : b = [gen |-> till[t].gen + 1, edits |-> 0, from |-> None, member |-> m]
    OBVIOUS
  <2>2. till'[t] = [till[t] EXCEPT !.gen = @ + 1, !.basket = b]
    BY <1>3, <2>1 DEF StartBasket, TypeOK
  <2>3. b \in Baskets
    <3>1. till[t].gen + 1 \in 1 .. MaxBaskets
      BY <1>0, <1>3, BoundsAssumption DEF StartBasket, TillStates
    <3> QED BY <2>1, <3>1, BoundsAssumption DEF Baskets
  <2>4. /\ till'[t].gen = till[t].gen + 1 /\ till'[t].basket = b /\ b.gen = till[t].gen + 1
        /\ till'[t].drawn = till[t].drawn /\ till'[t].key = till[t].key
        /\ till[t].basket = None /\ till'[t].waiting = None
    <3>1. till[t].waiting = None /\ till[t].basket = None /\ b.gen = till[t].gen + 1
      BY <1>3, <2>1 DEF StartBasket, AtRest
    <3> QED BY <1>0, <2>2, <3>1 DEF TillStates
  <2>5. NextBasket(till[t], till'[t])
    BY <2>3, <2>4, NullAssumption DEF NextBasket
  <2> QED BY <2>4, <2>5 DEF PageMoves
<1>4. ASSUME NEW o \in Orders, RingOut(t, o) PROVE PageMoves(till[t], till'[t])
  <2>1. PICK b : b = [gen |-> till[t].gen + 1, edits |-> 0, from |-> o, member |-> owner[o]]
    OBVIOUS
  <2>2. till'[t] = [till[t] EXCEPT !.gen = @ + 1, !.basket = b, !.key = None, !.code = o]
    BY <1>4, <2>1 DEF RingOut, TypeOK
  <2>3. b \in Baskets
    <3>1. till[t].gen + 1 \in 1 .. MaxBaskets
      BY <1>0, <1>4, BoundsAssumption DEF RingOut, TillStates
    <3>2. owner[o] \in MaybeMember
      BY DEF TypeOK
    <3> QED BY <2>1, <3>1, <3>2, BoundsAssumption DEF Baskets
  <2>4. /\ till'[t].gen = till[t].gen + 1 /\ till'[t].basket = b /\ b.gen = till[t].gen + 1
        /\ till'[t].drawn = till[t].drawn /\ till'[t].key = None
        /\ till'[t].waiting = None
    <3>1. till[t].waiting = None /\ b.gen = till[t].gen + 1
      BY <1>4, <2>1 DEF RingOut, AtRest
    <3> QED BY <1>0, <2>2, <3>1 DEF TillStates
  <2>5. NextBasket(till[t], till'[t])
    BY <2>3, <2>4, NullAssumption DEF NextBasket
  <2> QED BY <2>4, <2>5 DEF PageMoves
<1>5. ASSUME Edit(t) PROVE PageMoves(till[t], till'[t])
  <2>1. PICK b : b = [till[t].basket EXCEPT !.edits = @ + 1]
    OBVIOUS
  <2>2. till[t].basket \in Baskets /\ till[t].basket.edits < MaxEdits /\ till[t].waiting = None
    BY <1>0, <1>5 DEF Edit, AtRest, TillStates
  <2>3. b \in Baskets /\ b.gen = till[t].basket.gen
    BY <2>1, <2>2, BoundsAssumption DEF Baskets
  <2>4. till'[t] = [till[t] EXCEPT !.basket = b]
    BY <1>0, <1>5, <2>1 DEF Edit, TypeOK, TillStates
  <2>5. SamePage(till[t], till'[t]) /\ till'[t].waiting = None
    BY <1>0, <2>2, <2>3, <2>4, NullAssumption DEF SamePage, TillStates
  <2> QED BY <2>5 DEF PageMoves
<1>6. ASSUME ClearCart(t) PROVE PageMoves(till[t], till'[t])
  <2>1. /\ till'[t] = [till[t] EXCEPT !.basket = None, !.key = None]
        /\ till[t].waiting = None
    BY <1>6 DEF ClearCart, AtRest, TypeOK
  <2>2. Emptied(till[t], till'[t]) /\ till'[t].waiting = None
    BY <1>0, <2>1 DEF Emptied, TillStates
  <2> QED BY <2>2 DEF PageMoves
<1>7. ASSUME till'[t] = [till[t] EXCEPT !.waiting = None] PROVE PageMoves(till[t], till'[t])
  <2>1. SamePage(till[t], till'[t]) /\ till'[t].waiting = None
    BY <1>0, <1>7 DEF SamePage, TillStates
  <2> QED BY <2>1 DEF PageMoves
<1>8. GiveUp(t) => till'[t] = [till[t] EXCEPT !.waiting = None]
  BY DEF GiveUp, TypeOK
<1>9. Restart => till'[t] = [till[t] EXCEPT !.waiting = None]
  BY DEF Restart
<1>10. ASSUME NEW r \in Reqs, Deliver(r) PROVE PageMoves(till[t], till'[t])
  <2>1. CASE till' = till
    BY <2>1, <1>1
  <2>2. CASE till' = [till EXCEPT ![req[r].till].waiting = None]
    <3>1. till'[t] = till[t] \/ till'[t] = [till[t] EXCEPT !.waiting = None]
      BY <2>2 DEF TypeOK
    <3> QED BY <3>1, <1>7 DEF PageMoves
  <2>3. CASE till' = [till EXCEPT ![req[r].till] = [IdleTill EXCEPT !.gen = till[req[r].till].gen,
                                                                    !.drawn = till[req[r].till].drawn]]
    <3>1. \/ till'[t] = till[t]
          \/ till'[t] = [IdleTill EXCEPT !.gen = till[t].gen, !.drawn = till[t].drawn]
      BY <2>3 DEF TypeOK
    <3>2. CASE till'[t] = [IdleTill EXCEPT !.gen = till[t].gen, !.drawn = till[t].drawn]
      <4>1. Emptied(till[t], till'[t]) /\ till'[t].waiting = None
        BY <3>2 DEF Emptied, IdleTill
      <4> QED BY <4>1 DEF PageMoves
    <3> QED BY <3>1, <3>2 DEF PageMoves
  <2> QED BY <1>10, <2>1, <2>2, <2>3 DEF Deliver
<1>11. ASSUME NEW r \in Reqs,
             \/ Lookup(r) \/ ReadMember(r) \/ CountToday(r) \/ ReadOrder(r) \/ Reject(r)
             \/ Commit(r) \/ Conflict(r) \/ Adopt(r) \/ StartLegacy(r) \/ LegacyInsert(r)
       PROVE  UNCHANGED till
  BY <1>11 DEF Lookup, ReadMember, CountToday, ReadOrder, Reject, Commit, Conflict, Adopt,
              StartLegacy, LegacyInsert
<1>12. ASSUME NEW o \in Orders, (\E m \in MaybeMember : KioskUpsert(o, m)) \/ CartClaim(o)
       PROVE  UNCHANGED till
  BY <1>12 DEF KioskUpsert, CartClaim
<1>13. Midnight \/ UNCHANGED vars => UNCHANGED till
  BY DEF Midnight, vars
<1> QED BY <1>1, <1>2, <1>3, <1>4, <1>5, <1>6, <1>7, <1>8, <1>9, <1>10, <1>11, <1>12, <1>13 DEF Next

LEMMA SalesKept ==
    ASSUME TypeOK, HandlersKeyed, [Next]_vars
    PROVE  /\ sales \subseteq sales'
           /\ \A s \in sales' : \/ s \in sales
                                \/ \E r \in Reqs : s = NewSale(r) /\ Unique(s) /\ Commit(r)
                                \/ s.key = None /\ Unique(s)
<1>1. CASE UNCHANGED sales
  BY <1>1
<1>2. ASSUME NEW r \in Reqs, Adds(r, NewSale(r)), Commit(r)
      PROVE  sales' = sales \cup {NewSale(r)} /\ Unique(NewSale(r))
  BY <1>2 DEF Adds
<1>3. ASSUME NEW r \in Reqs, Adds(r, LegacySale(r))
      PROVE  sales' = sales \cup {LegacySale(r)} /\ Unique(LegacySale(r)) /\ LegacySale(r).key = None
  BY <1>3 DEF Adds, LegacySale
<1>4. UNCHANGED vars => UNCHANGED sales
  BY DEF vars, db
<1> QED BY <1>1, <1>2, <1>3, <1>4, BookGrows

LEMMA SoldNext ==
    ASSUME TypeOK, HandlersKeyed, SoldInv, [Next]_vars
    PROVE  SoldInv'
<1>1. KeysUnique'
  <2>1. ASSUME NEW s \in sales', s \notin sales, s.key \in Keys PROVE \A x \in sales : x.key # s.key
    BY <2>1, SalesKept, NullAssumption DEF Unique
  <2>2. ASSUME NEW s \in sales', NEW x \in sales', s.key \in Keys, s.key = x.key,
               s \notin sales, x \notin sales
        PROVE  s = x
    <3>1. CASE UNCHANGED sales \/ UNCHANGED vars
      BY <2>2, <3>1 DEF vars, db
    <3>2. CASE \E r \in Reqs : \E y : Adds(r, y)
      BY <2>2, <3>2 DEF Adds
    <3> QED BY <3>1, <3>2, BookGrows
  <2> QED BY <2>1, <2>2 DEF SoldInv, KeysUnique
<1>2. SalesKeyed'
  <2> SUFFICES ASSUME NEW s \in sales', s.key \in Keys PROVE s.basket \in Baskets
    BY DEF SalesKeyed
  <2>1. CASE s \in sales
    BY <2>1 DEF SoldInv, SalesKeyed
  <2>2. ASSUME NEW r \in Reqs, s = NewSale(r), Commit(r) PROVE s.basket \in Baskets
    BY <2>2 DEF NewSale, Commit, HandlersKeyed, Keyed
  <2> QED BY <2>1, <2>2, SalesKept, NullAssumption
<1>3. AnswersRung'
  <2> SUFFICES ASSUME NEW q \in Reqs, req'[q].answer # None PROVE req'[q].answer \in sales'
    BY DEF AnswersRung
  <2>1. CASE HandlerMoves(req[q], req'[q])
    BY <2>1, SalesKept DEF HandlerMoves, Keeps, Answers, Ends, SoldInv, AnswersRung
  <2>2. ASSUME NEW t \in Tills, Submit(t, q) PROVE FALSE
    BY <2>2 DEF Submit, TypeOK, IdleReq
  <2> QED BY <2>1, <2>2, MovesHandler
<1> QED BY <1>1, <1>2, <1>3 DEF SoldInv
-----------------------------------------------------------------------------
(* Only a submit sends something new. *)
LEMMA SentBefore ==
    ASSUME TypeOK, HandlersKeyed, [Next]_vars, NEW k \in Keys, NEW g, Sent(k, g)'
    PROVE  \/ Sent(k, g)
           \/ \E t \in Tills, r \in Reqs : Submit(t, r) /\ k = SaleKey(t) /\ g = till[t].basket.gen
<1>1. ASSUME NEW q \in Reqs, Working(req'[q]), req'[q].key = k, req'[q].basket.gen = g,
             HandlerMoves(req[q], req'[q])
      PROVE  Sent(k, g)
  BY <1>1 DEF HandlerMoves, Keeps, Answers, Ends, Sent, Working
<1>2. ASSUME NEW q \in Reqs, req'[q].key = k, req'[q].basket.gen = g,
             NEW t \in Tills, Submit(t, q)
      PROVE  k = SaleKey(t) /\ g = till[t].basket.gen
  <2>1. req'[q] = [IdleReq EXCEPT !.pc = "lookup", !.till = t, !.key = SaleKey(t),
                                  !.basket = till[t].basket, !.code = till[t].code]
    BY <1>2 DEF Submit, TypeOK
  <2>2. req'[q].key = SaleKey(t) /\ req'[q].basket = till[t].basket
    BY <2>1 DEF IdleReq
  <2> QED BY <1>2, <2>2
<1>3. ASSUME NEW s \in sales', s.key = k, s.basket.gen = g PROVE Sent(k, g)
  <2>1. CASE s \in sales
    BY <1>3, <2>1 DEF Sent
  <2>2. ASSUME NEW r \in Reqs, s = NewSale(r), Commit(r) PROVE Sent(k, g)
    BY <1>3, <2>2 DEF NewSale, Commit, Sent, Working
  <2> QED BY <1>3, <2>1, <2>2, SalesKept, NullAssumption
<1> QED BY <1>1, <1>2, <1>3, MovesHandler DEF Sent

LEMMA SubmitPage ==
    ASSUME TypeOK, BasketInv, NEW t \in Tills, NEW r \in Reqs, Submit(t, r)
    PROVE  LET p == till[t]
               q == till'[t]
               k == SaleKey(t)
           IN /\ k \in Keys /\ k[1] = t /\ k[2] <= q.drawn /\ p.drawn <= q.drawn
              /\ p.basket # None /\ p.basket.gen = p.gen /\ p.waiting = None
              /\ q.basket = p.basket /\ q.gen = p.gen /\ q.key = k /\ q.waiting = r
              /\ p.key = k \/ (p.key = None /\ k[2] > p.drawn)
<1>1. PICK n : n = IF till[t].key = None THEN till[t].drawn + 1 ELSE till[t].drawn
  OBVIOUS
<1>2. /\ till[t] \in TillStates /\ till[t].drawn \in Nat
      /\ till[t].waiting = None /\ till[t].basket # None /\ SaleKey(t) \in Keys
  BY DEF TypeOK, Submit, AtRest, TillStates
<1>3. till'[t] = [till[t] EXCEPT !.key = SaleKey(t), !.drawn = n, !.waiting = r]
  BY <1>1 DEF Submit, TypeOK
<1>4. /\ till'[t].key = SaleKey(t) /\ till'[t].drawn = n /\ till'[t].waiting = r
      /\ till'[t].basket = till[t].basket /\ till'[t].gen = till[t].gen
  BY <1>2, <1>3 DEF TillStates
<1>5. PageOk(t)
  BY DEF BasketInv
<1>6. CASE till[t].key = None
  BY <1>1, <1>2, <1>4, <1>5, <1>6 DEF SaleKey, PageOk
<1>7. CASE till[t].key # None
  BY <1>1, <1>2, <1>4, <1>5, <1>7 DEF SaleKey, PageOk
<1> QED BY <1>6, <1>7

LEMMA BasketNext ==
    ASSUME TypeOK, TypeOK', HandlersKeyed, BasketInv, [Next]_vars
    PROVE  BasketInv'
<1>1. \A t \in Tills : /\ till[t].gen \in Nat /\ till[t].drawn \in Nat /\ till'[t].gen \in Nat
                       /\ PageOk(t)
  BY BoundsAssumption DEF TypeOK, TillStates, BasketInv
<1>2. \A k \in Keys : k[1] \in Tills /\ k[2] \in Nat
  BY DEF Keys
<1>3. ASSUME NEW t \in Tills PROVE PageOk(t)'
  <2>1. CASE PageMoves(till[t], till'[t])
    <3>1. CASE till'[t] = till[t]
      BY <1>1, <3>1 DEF PageOk
    <3>2. CASE SamePage(till[t], till'[t])
      BY <1>1, <3>2 DEF PageOk, SamePage
    <3>3. CASE NextBasket(till[t], till'[t])
      BY <1>1, <3>3 DEF PageOk, NextBasket
    <3>4. CASE Emptied(till[t], till'[t])
      BY <3>4 DEF PageOk, Emptied
    <3> QED BY <2>1, <3>1, <3>2, <3>3, <3>4 DEF PageMoves
  <2>2. ASSUME NEW r \in Reqs, Submit(t, r) PROVE PageOk(t)'
    BY <2>2, SubmitPage, NullAssumption DEF PageOk
  <2> QED BY <2>1, <2>2, MovesPage
(* What went out earlier. *)
<1>4. ASSUME NEW k \in Keys, NEW g, Sent(k, g) PROVE SentOk(k, g)'
  <2> DEFINE t == k[1]
  <2>1. t \in Tills /\ SentOk(k, g) /\ g \in Nat /\ k[2] \in Nat /\ k # None
    BY <1>2, <1>4, NullAssumption DEF BasketInv, SentOk
  <2> HIDE DEF t
  <2>2. /\ g <= till[t].gen /\ k[2] <= till[t].drawn
        /\ till[t].basket # None /\ g = till[t].gen => till[t].key = k
        /\ till[t].key = k => g = till[t].gen
    BY <2>1 DEF SentOk, t
  <2>3. SUFFICES /\ g <= till'[t].gen /\ k[2] <= till'[t].drawn
                 /\ till'[t].basket # None /\ g = till'[t].gen => till'[t].key = k
                 /\ till'[t].key = k => g = till'[t].gen
    BY <2>1 DEF SentOk, t
  <2>4. CASE PageMoves(till[t], till'[t])
    <3>1. CASE till'[t] = till[t]
      BY <2>2, <3>1
    <3>2. CASE SamePage(till[t], till'[t])
      BY <2>2, <3>2 DEF SamePage
    <3>3. CASE NextBasket(till[t], till'[t])
      BY <1>1, <2>1, <2>2, <3>3 DEF PageOk, NextBasket
    <3>4. CASE Emptied(till[t], till'[t])
      BY <2>1, <2>2, <3>4 DEF Emptied
    <3> QED BY <2>4, <3>1, <3>2, <3>3, <3>4 DEF PageMoves
  <2>5. ASSUME NEW r \in Reqs, Submit(t, r)
        PROVE  /\ g <= till'[t].gen /\ k[2] <= till'[t].drawn
               /\ till'[t].basket # None /\ g = till'[t].gen => till'[t].key = k
               /\ till'[t].key = k => g = till'[t].gen
    <3>1. till'[t].drawn \in Nat /\ till[t].drawn \in Nat
      BY <2>1 DEF TypeOK, TillStates
    <3> QED BY <2>1, <2>2, <2>5, <3>1, SubmitPage
  <2> QED BY <2>1, <2>4, <2>5, MovesPage
(* What goes out now. *)
<1>5. ASSUME NEW t \in Tills, NEW r \in Reqs, Submit(t, r),
             NEW k, NEW g, k = SaleKey(t), g = till[t].basket.gen
      PROVE  /\ k \in Keys /\ k[1] = t /\ SentOk(k, g)'
             /\ \A l \in Keys : \A f : Sent(l, f) /\ l[1] = t => (l = k <=> f = g)
  <2>2. /\ k \in Keys /\ k[1] = t /\ g = till[t].gen /\ till[t].basket # None
        /\ till[t].key = k \/ (till[t].key = None /\ k[2] > till[t].drawn)
        /\ till'[t].basket # None /\ till'[t].gen = g /\ till'[t].key = k /\ k[2] <= till'[t].drawn
    BY <1>5, SubmitPage
  <2>3. SentOk(k, g)'
    BY <1>1, <2>2 DEF SentOk
  <2>4. ASSUME NEW l \in Keys, NEW f, Sent(l, f), l[1] = t PROVE l = k <=> f = g
    <3>1. /\ l[2] <= till[t].drawn /\ l[2] \in Nat /\ l # None
          /\ f = till[t].gen => till[t].key = l
          /\ till[t].key = l => f = till[t].gen
      BY <1>2, <2>2, <2>4, NullAssumption DEF BasketInv, SentOk
    <3>2. CASE till[t].key = k
      BY <2>2, <3>1, <3>2
    <3>3. CASE till[t].key = None /\ k[2] > till[t].drawn
      BY <1>1, <2>2, <3>1, <3>3
    <3> QED BY <2>2, <3>2, <3>3
  <2> QED BY <2>2, <2>3, <2>4
<1>6. ASSUME NEW k \in Keys, NEW g, Sent(k, g)' PROVE SentOk(k, g)'
  BY <1>4, <1>5, <1>6, SentBefore
<1>7. OneToOne'
  <2> SUFFICES ASSUME NEW k \in Keys, NEW l \in Keys, NEW g, NEW f,
                      Sent(k, g)', Sent(l, f)', k[1] = l[1]
               PROVE  k = l <=> g = f
    BY DEF OneToOne
  <2>1. CASE Sent(k, g) /\ Sent(l, f)
    BY <2>1 DEF BasketInv, OneToOne
  <2>2. ASSUME NEW t \in Tills, NEW r \in Reqs, Submit(t, r), k = SaleKey(t), g = till[t].basket.gen,
               Sent(l, f)
        PROVE  k = l <=> g = f
    BY <1>5, <2>2
  <2>3. ASSUME NEW t \in Tills, NEW r \in Reqs, Submit(t, r), l = SaleKey(t), f = till[t].basket.gen,
               Sent(k, g)
        PROVE  k = l <=> g = f
    BY <1>5, <2>3
  <2>4. ASSUME NEW t \in Tills, NEW r \in Reqs, Submit(t, r), k = SaleKey(t), g = till[t].basket.gen,
               NEW u \in Tills, NEW q \in Reqs, Submit(u, q), l = SaleKey(u), f = till[u].basket.gen
        PROVE  k = l <=> g = f
    <3>1. k[1] = t /\ l[1] = u
      BY <1>5, <2>4
    <3> QED BY <2>4, <3>1
  <2>5. \/ Sent(k, g)
        \/ \E t \in Tills, r \in Reqs : Submit(t, r) /\ k = SaleKey(t) /\ g = till[t].basket.gen
    BY SentBefore
  <2>6. \/ Sent(l, f)
        \/ \E t \in Tills, r \in Reqs : Submit(t, r) /\ l = SaleKey(t) /\ f = till[t].basket.gen
    BY SentBefore
  <2> QED BY <2>1, <2>2, <2>3, <2>4, <2>5, <2>6
<1>8. ASSUME NEW r \in Reqs PROVE Awaited(req[r], r)'
  <2>1. PICK h, t : h = req'[r] /\ t = h.till
    OBVIOUS
  <2>2. SUFFICES ASSUME t # None, till'[t].waiting = r
                 PROVE  /\ Working(h) => h.key = till'[t].key
                        /\ h.answer # None => h.answer.key = till'[t].key
    BY <2>1 DEF Awaited
  <2>3. t \in Tills /\ r # None
    <3>1. h \in Requests
      BY <2>1 DEF TypeOK
    <3> QED BY <2>1, <2>2, <3>1, NoneAssumption DEF Requests
  <2>4. ASSUME NEW u \in Tills, Submit(u, r)
        PROVE  /\ Working(h) => h.key = till'[t].key
               /\ h.answer # None => h.answer.key = till'[t].key
    <3>1. h = [IdleReq EXCEPT !.pc = "lookup", !.till = u, !.key = SaleKey(u),
                              !.basket = till[u].basket, !.code = till[u].code]
      BY <2>1, <2>4 DEF Submit, TypeOK
    <3>2. h.till = u /\ h.key = SaleKey(u) /\ h.answer = None
      BY <3>1 DEF IdleReq
    <3> QED BY <2>1, <2>4, <3>2, SubmitPage
  <2>5. CASE HandlerMoves(req[r], h)
    <3>1. ASSUME PageMoves(till[t], till'[t]) PROVE till'[t] = till[t]
      BY <2>2, <2>3, <3>1 DEF PageMoves
    <3>2. ASSUME NEW q \in Reqs, Submit(t, q) PROVE Submit(t, r)
      BY <2>2, <2>3, <3>2, SubmitPage
    <3>3. CASE till'[t] = till[t]
      <4>1. Awaited(req[r], r)
        BY DEF BasketInv
      <4> QED BY <2>1, <2>2, <2>5, <3>3, <4>1 DEF HandlerMoves, Keeps, Answers, Ends, Awaited, Working
    <3> QED BY <2>3, <2>4, <3>1, <3>2, <3>3, MovesPage
  <2> QED BY <2>1, <2>4, <2>5, MovesHandler
<1> QED BY <1>3, <1>6, <1>7, <1>8 DEF BasketInv

LEMMA SoldInit == Init => SoldInv /\ BasketInv
<1> SUFFICES ASSUME Init PROVE SoldInv /\ BasketInv
  OBVIOUS
<1>1. SoldInv
  BY DEF Init, SoldInv, KeysUnique, SalesKeyed, AnswersRung, IdleReq
<1>2. \A k, g : ~Sent(k, g)
  BY DEF Init, Sent, Working, IdleReq
<1>3. \A t \in Tills : PageOk(t)
  BY DEF Init, PageOk, IdleTill
<1>4. \A r \in Reqs : Awaited(req[r], r)
  BY DEF Init, Awaited, IdleReq
<1> QED BY <1>1, <1>2, <1>3, <1>4 DEF BasketInv, OneToOne

LEMMA ChargedOnce ==
    ASSUME TypeOK, HandlersKeyed, SoldInv, BasketInv
    PROVE  BasketChargedOnce
<1>1. \A s \in sales : s.key # None => s.key \in Keys /\ Sent(s.key, s.basket.gen)
  BY DEF TypeOK, Sale, Sent
<1>2. ASSUME NEW s \in sales, NEW x \in sales, s.key # None, x.key # None,
             s.key[1] = x.key[1], s.basket.gen = x.basket.gen
      PROVE  s = x
  <2>1. s.key = x.key
    BY <1>1, <1>2 DEF BasketInv, OneToOne
  <2> QED BY <1>1, <1>2, <2>1 DEF SoldInv, KeysUnique
<1>3. ASSUME NEW r \in Reqs, req[r].answer # None, req[r].till # None,
             till[req[r].till].waiting = r
      PROVE  req[r].answer.basket.gen = till[req[r].till].basket.gen
  <2>1. PICK t, s : t = req[r].till /\ s = req[r].answer
    OBVIOUS
  <2>2. s \in sales /\ s.key \in Keys /\ s.key = till[t].key
    BY <1>3, <2>1 DEF SoldInv, AnswersRung, HandlersKeyed, Keyed, BasketInv, Awaited
  <2>3. t \in Tills
    BY <1>3, <2>1 DEF TypeOK, Requests
  <2>4. s.key[1] = t /\ till[t].basket # None /\ till[t].basket.gen = till[t].gen
    BY <2>2, <2>3, NullAssumption DEF BasketInv, PageOk
  <2>5. SentOk(s.key, s.basket.gen)
    BY <1>1, <2>2, NullAssumption DEF BasketInv
  <2> QED BY <2>1, <2>2, <2>4, <2>5 DEF SentOk
<1> QED BY <1>2, <1>3 DEF BasketChargedOnce

(* A basket is charged at most once, through every edit, time-out and retry, and
   the page is never answered with the sale of another basket: key and basket are
   matched one to one from the moment they are sent.  (checkout.html saleUuid,
   create_sale: client_uuid.) *)
THEOREM BasketsChargedOnce == Spec => []BasketChargedOnce
<1> DEFINE Inv == BookInv /\ SoldInv /\ BasketInv
<1>1. Init => Inv
  BY BookInvInit, SoldInit
<1>2. ASSUME Inv, [Next]_vars PROVE Inv'
  <2>1. BookInv' /\ TypeOK /\ TypeOK' /\ HandlersKeyed
    BY <1>2, BookInvNext DEF BookInv
  <2>2. SoldInv'
    BY <1>2, <2>1, SoldNext
  <2>3. BasketInv'
    BY <1>2, <2>1, BasketNext
  <2> QED BY <2>1, <2>2, <2>3
<1>3. Inv => BasketChargedOnce
  BY ChargedOnce DEF BookInv
<1> QED BY <1>1, <1>2, <1>3, PTL DEF Spec
-----------------------------------------------------------------------------
(* The points.  A handler between its read of the balance and its commit still
   holds a balance the ledger accounts for, and the credit row its commit writes
   is a new one because its key is. *)
Reading(h) == h.pc \in {"count", "order", "commit"}

CreditsRung == \A l \in ledger : \E s \in sales : s.key = l.key

PointsRead == \A r \in Reqs, m \in Members :
    Reading(req[r]) /\ req[r].basket.member = m => req[r].points <= Cardinality(CreditRows(m))

PointsInv == IsFiniteSet(ledger) /\ CreditsRung /\ PointsRead /\ PointsWithinLedger

LEMMA CreditRowsFinite ==
    ASSUME IsFiniteSet(ledger), NEW m
    PROVE  IsFiniteSet(CreditRows(m)) /\ Cardinality(CreditRows(m)) \in Nat
<1>1. CreditRows(m) \subseteq ledger
  BY DEF CreditRows
<1> QED BY <1>1, FS_Subset, FS_CardinalityType

(* The balance a handler holds is the one it read, or is read now. *)
LEMMA HoldsPoints ==
    ASSUME TypeOK, HandlersKeyed, [Next]_vars, NEW q \in Reqs, Reading(req'[q])
    PROVE  \/ Reading(req[q]) /\ req'[q].basket = req[q].basket /\ req'[q].points = req[q].points
           \/ ReadMember(q)
<1>0. req[q] \in Requests
  BY DEF TypeOK
<1>1. CASE UNCHANGED req
  BY <1>1
<1>2. ASSUME NEW r \in Reqs, NEW s, Reply(r, s), r = q PROVE FALSE
  BY <1>2 DEF Reply, TypeOK, IdleReq, Reading
<1>3. ASSUME NEW r \in Reqs, r # q,
             \/ ReadMember(r) \/ ReadOrder(r) \/ Conflict(r) \/ CountToday(r)
             \/ Deliver(r) \/ LegacyInsert(r) \/ StartLegacy(r)
             \/ (\E s : Reply(r, s)) \/ (\E p : req' = [req EXCEPT ![r].pc = p])
             \/ \E t \in Tills : Submit(t, r)
      PROVE  req'[q] = req[q]
  <2>1. CASE \E s : Reply(r, s)
    BY <1>3, <2>1 DEF Reply, TypeOK
  <2>2. CASE \E p : req' = [req EXCEPT ![r].pc = p]
    BY <1>3, <2>2 DEF TypeOK
  <2>3. CASE Deliver(r) \/ LegacyInsert(r) \/ StartLegacy(r)
    BY <1>3, <2>3 DEF Deliver, LegacyInsert, StartLegacy, TypeOK
  <2>4. CASE \E t \in Tills : Submit(t, r)
    BY <1>3, <2>4 DEF Submit, TypeOK
  <2>5. CASE ReadMember(r) \/ ReadOrder(r) \/ Conflict(r) \/ CountToday(r)
    BY <1>3, <2>5 DEF ReadMember, ReadOrder, Conflict, CountToday, TypeOK
  <2> QED BY <1>3, <2>1, <2>2, <2>3, <2>4, <2>5
<1>4. ASSUME Lookup(q) \/ Adopt(q) \/ Reject(q) \/ Commit(q) \/ Conflict(q) PROVE FALSE
  <2>1. CASE \E p \in {"member", "adopt"} : req' = [req EXCEPT ![q].pc = p]
    BY <1>0, <2>1 DEF TypeOK, Requests, Reading
  <2> QED BY <1>2, <1>4, <2>1 DEF Lookup, Adopt, Reject, Commit, Conflict
<1>5. ASSUME NEW r \in Reqs, Lookup(r) \/ Adopt(r) \/ Reject(r) \/ Commit(r) \/ Conflict(r)
      PROVE  (\E s : Reply(r, s)) \/ \E p : req' = [req EXCEPT ![r].pc = p]
  BY <1>5 DEF Lookup, Adopt, Reject, Commit, Conflict
<1>6. ASSUME CountToday(q) \/ ReadOrder(q)
      PROVE  Reading(req[q]) /\ req'[q].basket = req[q].basket /\ req'[q].points = req[q].points
  <2>1. CASE ReadOrder(q)
    BY <1>0, <2>1 DEF ReadOrder, TypeOK, Requests, Reading
  <2>2. CASE CountToday(q)
    <3>1. /\ req'[q].basket = req[q].basket /\ req'[q].points = req[q].points
          /\ req[q].pc \in {"count", "legacy"}
          /\ req'[q].pc = IF req[q].pc = "count" THEN "order" ELSE "insert"
      BY <1>0, <2>2 DEF CountToday, TypeOK, Requests
    <3> QED BY <3>1 DEF Reading
  <2> QED BY <1>6, <2>1, <2>2
<1>7. ASSUME Deliver(q) \/ LegacyInsert(q) \/ StartLegacy(q) \/ \E t \in Tills : Submit(t, q)
      PROVE  FALSE
  <2>1. CASE Deliver(q) \/ LegacyInsert(q) \/ StartLegacy(q)
    BY <2>1 DEF Deliver, LegacyInsert, StartLegacy, TypeOK, IdleReq, Reading
  <2>2. ASSUME NEW t \in Tills, Submit(t, q) PROVE req'[q].pc = "lookup"
    BY <2>2 DEF Submit, TypeOK, IdleReq
  <2> QED BY <1>7, <2>1, <2>2 DEF Reading
<1>8. ~Restart
  BY DEF Restart, Reading, IdleReq
<1>9. ASSUME NEW o \in Orders, (\E m \in MaybeMember : KioskUpsert(o, m)) \/ CartClaim(o)
      PROVE  UNCHANGED req
  BY <1>9 DEF KioskUpsert, CartClaim
<1>10. ASSUME NEW t \in Tills,
              \/ \E m \in MaybeMember : StartBasket(t, m)
              \/ \E o \in Orders : RingOut(t, o)
              \/ Edit(t) \/ ClearCart(t) \/ GiveUp(t)
       PROVE  UNCHANGED req
  BY <1>10 DEF StartBasket, RingOut, Edit, ClearCart, GiveUp
<1>11. Midnight \/ UNCHANGED vars => UNCHANGED req
  BY DEF Midnight, vars
<1>12. ASSUME NEW r \in Reqs,
              \/ Lookup(r) \/ ReadMember(r) \/ CountToday(r) \/ ReadOrder(r)
              \/ Reject(r) \/ Commit(r) \/ Conflict(r) \/ Adopt(r) \/ Deliver(r)
              \/ StartLegacy(r) \/ LegacyInsert(r) \/ \E t \in Tills : Submit(t, r)
       PROVE  \/ req'[q] = req[q] \/ ReadMember(q)
              \/ Reading(req[q]) /\ req'[q].basket = req[q].basket /\ req'[q].points = req[q].points
  <2>1. CASE r = q
    BY <1>12, <2>1, <1>4, <1>6, <1>7
  <2>2. CASE r # q
    BY <1>12, <2>2, <1>3, <1>5
  <2> QED BY <2>1, <2>2
<1> QED BY <1>1, <1>8, <1>9, <1>10, <1>11, <1>12 DEF Next

(* Only a commit books points, and it books one more than the handler holds,
   with a row of its own. *)
LEMMA PointsStep ==
    ASSUME TypeOK, HandlersKeyed, PointsInv, [Next]_vars
    PROVE  \/ UNCHANGED <<points, ledger>>
           \/ \E r \in Reqs, m \in Members :
                /\ Reading(req[r]) /\ req[r].basket.member = m
                /\ points' = [points EXCEPT ![m] = req[r].points + 1]
                /\ \E l : /\ l \notin ledger /\ l.member = m /\ ledger' = ledger \cup {l}
                          /\ \E s \in sales' : s.key = l.key
<1>1. ASSUME NEW r \in Reqs, Commit(r), NewSale(r).member = None PROVE UNCHANGED <<points, ledger>>
  BY <1>1 DEF Commit
<1>2. ASSUME NEW r \in Reqs, Commit(r), NewSale(r).member # None
      PROVE  \E m \in Members :
                /\ Reading(req[r]) /\ req[r].basket.member = m
                /\ points' = [points EXCEPT ![m] = req[r].points + 1]
                /\ \E l : /\ l \notin ledger /\ l.member = m /\ ledger' = ledger \cup {l}
                          /\ \E s \in sales' : s.key = l.key
  <2>1. PICK s, m, l : s = NewSale(r) /\ m = s.member /\ l = [member |-> m, key |-> s.key]
    OBVIOUS
  <2>2. s.key \in Keys /\ s \in Sale /\ m = req[r].basket.member
    BY <1>2, <2>1, NewSaleTyped DEF Commit, NewSale
  <2>3. m \in Members
    BY <1>2, <2>1, <2>2 DEF Sale
  <2>4. /\ points' = [points EXCEPT ![m] = req[r].points + 1]
        /\ ledger' = ledger \cup {l} /\ s \in sales' /\ Reading(req[r]) /\ Unique(s)
    BY <1>2, <2>1 DEF Commit, Reading
  <2>5. l \notin ledger
    BY <2>1, <2>2, <2>4, NullAssumption DEF PointsInv, CreditsRung, Unique
  <2>6. l.member = m /\ l.key = s.key
    BY <2>1
  <2> QED BY <2>2, <2>3, <2>4, <2>5, <2>6
<1>3. ASSUME NEW r \in Reqs,
             \/ Lookup(r) \/ ReadMember(r) \/ CountToday(r) \/ ReadOrder(r)
             \/ Reject(r) \/ Conflict(r) \/ Adopt(r) \/ Deliver(r)
             \/ StartLegacy(r) \/ LegacyInsert(r)
      PROVE  UNCHANGED <<points, ledger>>
  BY <1>3 DEF Lookup, ReadMember, CountToday, ReadOrder, Reject, Conflict, Adopt, Deliver,
              StartLegacy, LegacyInsert, db
<1>4. ASSUME NEW t \in Tills,
             \/ \E m \in MaybeMember : StartBasket(t, m)
             \/ \E x \in Orders : RingOut(t, x)
             \/ \E r \in Reqs : Submit(t, r)
             \/ Edit(t) \/ ClearCart(t) \/ GiveUp(t)
      PROVE  UNCHANGED <<points, ledger>>
  BY <1>4 DEF StartBasket, RingOut, Edit, ClearCart, GiveUp, Submit, db
<1>5. ASSUME NEW o \in Orders, (\E m \in MaybeMember : KioskUpsert(o, m)) \/ CartClaim(o)
      PROVE  UNCHANGED <<points, ledger>>
  BY <1>5 DEF KioskUpsert, CartClaim
<1>6. Midnight \/ Restart \/ UNCHANGED vars => UNCHANGED <<points, ledger>>
  BY DEF Midnight, Restart, db, vars
<1> QED BY <1>1, <1>2, <1>3, <1>4, <1>5, <1>6 DEF Next

LEMMA PointsInit == Init => PointsInv
<1> SUFFICES ASSUME Init PROVE PointsInv
  OBVIOUS
<1>1. \A m \in Members : CreditRows(m) = {}
  BY DEF Init, CreditRows
<1>2. IsFiniteSet({}) /\ Cardinality({}) = 0
  BY FS_EmptySet
<1>3. \A r \in Reqs : ~Reading(req[r])
  BY DEF Init, Reading, IdleReq
<1>4. PointsWithinLedger
  BY <1>1, <1>2 DEF Init, PointsWithinLedger
<1> QED BY <1>2, <1>3, <1>4 DEF Init, PointsInv, CreditsRung, PointsRead

CreditRowsAfter(m) == {l \in ledger' : l.member = m}

LEMMA PointsNext ==
    ASSUME TypeOK, TypeOK', HandlersKeyed, PointsInv, [Next]_vars
    PROVE  PointsInv'
<1>1. \A m \in Members : points[m] \in Nat /\ points'[m] \in Nat
  BY DEF TypeOK
(* The ledger only grows. *)
<1>2. IsFiniteSet(ledger') /\ ledger \subseteq ledger'
  BY PointsStep, FS_AddElement DEF PointsInv
<1>3. ASSUME NEW m \in Members
      PROVE  /\ Cardinality(CreditRows(m)) \in Nat /\ Cardinality(CreditRowsAfter(m)) \in Nat
             /\ Cardinality(CreditRows(m)) <= Cardinality(CreditRowsAfter(m))
  <2>1. CreditRows(m) \subseteq CreditRowsAfter(m) /\ CreditRowsAfter(m) \subseteq ledger'
    BY <1>2 DEF CreditRows, CreditRowsAfter
  <2>2. IsFiniteSet(CreditRowsAfter(m))
    BY <1>2, <2>1, FS_Subset
  <2> QED BY <2>1, <2>2, FS_Subset, FS_CardinalityType
<1>4. CreditsRung'
  <2>1. sales \subseteq sales'
    BY SalesKept
  <2> QED BY <2>1, PointsStep DEF PointsInv, CreditsRung
<1>5. PointsRead'
  <2> SUFFICES ASSUME NEW q \in Reqs, NEW m \in Members,
                      Reading(req'[q]), req'[q].basket.member = m
               PROVE  req'[q].points <= Cardinality(CreditRowsAfter(m))
    BY DEF PointsRead, CreditRows, CreditRowsAfter
  <2>1. req[q] \in Requests /\ req[q].points \in Nat
    BY DEF TypeOK, Requests
  <2>2. CASE Reading(req[q]) /\ req'[q].basket = req[q].basket /\ req'[q].points = req[q].points
    <3>1. req[q].points <= Cardinality(CreditRows(m))
      BY <2>2 DEF PointsInv, PointsRead
    <3> QED BY <1>3, <2>1, <2>2, <3>1
  <2>3. CASE ReadMember(q)
    <3>1. PICK p : p = IF req[q].basket.member \in Members THEN points[req[q].basket.member] ELSE 0
      OBVIOUS
    <3>2. req'[q].basket = req[q].basket /\ req'[q].points = p
      BY <2>1, <2>3, <3>1 DEF ReadMember, TypeOK, Requests
    <3>3. p = points[m]
      BY <3>1, <3>2
    <3> QED BY <1>1, <1>3, <3>2, <3>3 DEF PointsInv, PointsWithinLedger
  <2> QED BY <2>2, <2>3, HoldsPoints
<1>6. PointsWithinLedger'
  <2> SUFFICES ASSUME NEW m \in Members PROVE points'[m] <= Cardinality(CreditRowsAfter(m))
    BY DEF PointsWithinLedger, CreditRows, CreditRowsAfter
  <2>1. points[m] <= Cardinality(CreditRows(m))
    BY DEF PointsInv, PointsWithinLedger
  <2>2. CASE points'[m] = points[m]
    BY <1>1, <1>3, <2>1, <2>2
  <2>3. ASSUME NEW r \in Reqs, Reading(req[r]), req[r].basket.member = m,
               points' = [points EXCEPT ![m] = req[r].points + 1],
               NEW l, l \notin ledger, l.member = m, ledger' = ledger \cup {l}
        PROVE  points'[m] <= Cardinality(CreditRowsAfter(m))
    <3>1. CreditRowsAfter(m) = CreditRows(m) \cup {l} /\ l \notin CreditRows(m)
      BY <2>3 DEF CreditRows, CreditRowsAfter
    <3>2. Cardinality(CreditRowsAfter(m)) = Cardinality(CreditRows(m)) + 1
      BY <3>1, FS_AddElement, CreditRowsFinite DEF PointsInv
    <3>3. points'[m] = req[r].points + 1 /\ req[r].points \in Nat
      BY <2>3 DEF TypeOK, Requests
    <3>4. req[r].points <= Cardinality(CreditRows(m))
      BY <2>3 DEF PointsInv, PointsRead
    <3> QED BY <1>3, <3>2, <3>3, <3>4
  <2>4. ASSUME NEW r \in Reqs, NEW n \in Members, n # m, points' = [points EXCEPT ![n] = req[r].points + 1]
        PROVE  points'[m] = points[m]
    BY <2>4 DEF TypeOK
  <2> QED BY <2>2, <2>3, <2>4, PointsStep
<1> QED BY <1>2, <1>4, <1>5, <1>6 DEF PointsInv

(* A member's stored balance is never more than the credit ledger accounts for:
   interleaved sales may overwrite one another's points, they never mint any.
   (create_sale, CRM block.) *)
THEOREM PointsStayWithinLedger == Spec => []PointsWithinLedger
<1> DEFINE Inv == BookInv /\ PointsInv
<1>1. Init => Inv
  BY BookInvInit, PointsInit
<1>2. ASSUME Inv, [Next]_vars PROVE Inv'
  <2>1. BookInv' /\ TypeOK /\ TypeOK' /\ HandlersKeyed
    BY <1>2, BookInvNext DEF BookInv
  <2> QED BY <1>2, <2>1, PointsNext
<1>3. Inv => PointsWithinLedger
  BY DEF PointsInv
<1> QED BY <1>1, <1>2, <1>3, PTL DEF Spec
-----------------------------------------------------------------------------
(* The refinement.  The book of a day is read off the rows by their numbers;
   this is well defined because the numbers are dense and no two rows of a day
   share one. *)
NumbersUnique == \A s, x \in sales : s.day = x.day /\ s.num = x.num => s = x

RefineInv == BookInv /\ SoldInv /\ NumbersUnique

Pages == [d \in Days |-> [n \in 1 .. Cardinality(RowsOf(d)) |-> Entry(d, n)]]

LEMMA RefineInit == Init => RefineInv /\ Book!Init
<1> SUFFICES ASSUME Init PROVE RefineInv /\ Book!Init
  OBVIOUS
<1>1. RefineInv
  BY BookInvInit, SoldInit DEF Init, RefineInv, NumbersUnique
<1>2. \A d \in Days : RowsOf(d) = {} /\ Cardinality(RowsOf(d)) = 0
  BY FS_EmptySet DEF Init, RowsOf
<1>3. Pages = [d \in Days |-> << >>]
  BY <1>2 DEF Pages
<1> QED BY <1>1, <1>3 DEF Init, Book!Init, Book!Days, Pages

LEMMA RefineNext == RefineInv /\ [Next]_vars => RefineInv'
<1> SUFFICES ASSUME RefineInv, [Next]_vars PROVE RefineInv'
  OBVIOUS
<1>1. BookInv' /\ SoldInv'
  BY BookInvNext, SoldNext DEF RefineInv, BookInv
<1>2. NumbersUnique'
  <2>1. CASE UNCHANGED sales \/ UNCHANGED vars
    BY <2>1 DEF RefineInv, NumbersUnique, vars, db
  <2>2. ASSUME NEW r \in Reqs, NEW s, Adds(r, s) PROVE NumbersUnique'
    BY <2>2 DEF Adds, Unique, RefineInv, NumbersUnique
  <2> QED BY <2>1, <2>2, BookGrows DEF RefineInv, BookInv
<1> QED BY <1>1, <1>2 DEF RefineInv

(* The entry of a row is the row's key. *)
RowsEntered == \A s \in sales : /\ s.day \in Days
                                /\ s.num \in 1 .. Cardinality(RowsOf(s.day))
                                /\ Entry(s.day, s.num) = s.key

LEMMA EntryOfRow == RefineInv => RowsEntered
<1> SUFFICES ASSUME RefineInv, NEW s \in sales
             PROVE  /\ s.day \in Days
                    /\ s.num \in 1 .. Cardinality(RowsOf(s.day))
                    /\ Entry(s.day, s.num) = s.key
  BY DEF RowsEntered
<1>1. s.day \in Days /\ s \in RowsOf(s.day)
  BY DEF RefineInv, BookInv, TypeOK, Sale, RowsOf
<1>2. s.num \in 1 .. Cardinality(RowsOf(s.day))
  BY <1>1 DEF RefineInv, BookInv, NumbersDense
<1>3. \A x \in RowsOf(s.day) : x.num = s.num => x = s
  BY DEF RefineInv, NumbersUnique, RowsOf
<1>4. (CHOOSE x \in RowsOf(s.day) : x.num = s.num) = s
  BY <1>1, <1>3
<1> QED BY <1>1, <1>2, <1>4 DEF Entry

LEMMA EntryOfRowAfter == RefineInv' => RowsEntered'
BY EntryOfRow, PTL

(* Every entry is the entry of a row. *)
LEMMA RowOfEntry ==
    ASSUME RefineInv, NEW d \in Days, NEW n \in 1 .. Cardinality(RowsOf(d))
    PROVE  \E s \in sales : s.day = d /\ s.num = n /\ s.key = Entry(d, n)
<1>1. n \in {s.num : s \in RowsOf(d)}
  BY DEF RefineInv, BookInv, NumbersDense
<1>2. PICK s \in RowsOf(d) : s.num = n
  BY <1>1
<1>3. s \in sales /\ s.day = d
  BY DEF RowsOf
<1> QED BY <1>2, <1>3, EntryOfRow DEF RowsEntered

LEMMA PageIsSeq ==
    ASSUME RefineInv, NEW d \in Days
    PROVE  /\ Pages[d] \in Seq(Keys \cup {None})
           /\ Len(Pages[d]) = Cardinality(RowsOf(d))
<1>1. PICK c : c = Cardinality(RowsOf(d))
  OBVIOUS
<1>2. c \in Nat
  BY <1>1, RowsFinite DEF RefineInv, BookInv
<1>3. \A n \in 1 .. c : Entry(d, n) \in Keys \cup {None}
  BY <1>1, RowOfEntry DEF RefineInv, BookInv, TypeOK, Sale
<1>4. Pages[d] = [n \in 1 .. c |-> Entry(d, n)]
  BY <1>1 DEF Pages
<1>5. Pages[d] \in [1 .. c -> Keys \cup {None}]
  BY <1>3, <1>4
<1> QED BY <1>1, <1>2, <1>5, ElementOfSeq, LenProperties

(* The row a handler adds is entered at the end of its day. *)
LEMMA RowIsRung ==
    ASSUME RefineInv, RefineInv', NEW r \in Reqs, NEW s, Adds(r, s), UNCHANGED answered
    PROVE  Book!Ring(s.day, s.key)
<1>1. PICK d, k, c : d = s.day /\ k = s.key /\ c = Cardinality(RowsOf(d))
  OBVIOUS
<1>2. d \in Days /\ k \in Keys \cup {None} /\ s \in sales' /\ sales \subseteq sales'
  BY <1>1 DEF Adds, Sale
<1>3. /\ c \in Nat /\ s.num = c + 1 /\ Cardinality(RowsAfter(d)) = c + 1
      /\ \A e \in Days : e # d => RowsAfter(e) = RowsOf(e)
  BY <1>1, NextRow, RowsFinite DEF RefineInv, BookInv, Adds
<1>4. \A e : RowsAfter(e) = RowsOf(e)'
  BY DEF RowsAfter, RowsOf
<1>5. Pages' = [e \in Days |-> [n \in 1 .. Cardinality(RowsAfter(e)) |-> Entry(e, n)']]
  BY <1>4 DEF Pages
<1>6. ASSUME NEW e \in Days, e # d PROVE Pages'[e] = Pages[e]
  <2>1. RowsOf(e)' = RowsOf(e)
    BY <1>3, <1>4, <1>6
  <2>2. \A n : Entry(e, n)' = Entry(e, n)
    BY <2>1 DEF Entry
  <2> QED BY <1>3, <1>5, <1>6, <2>2 DEF Pages
<1>7. Pages'[d] = Append(Pages[d], k)
  <2>1. \A x \in sales : Entry(x.day, x.num)' = x.key /\ Entry(x.day, x.num) = x.key
    BY <1>2, EntryOfRow, EntryOfRowAfter DEF RowsEntered
  <2>2. ASSUME NEW n \in 1 .. c PROVE Entry(d, n)' = Entry(d, n)
    <3>1. PICK x \in sales : x.day = d /\ x.num = n
      BY <1>1, <1>2, RowOfEntry
    <3> QED BY <2>1, <3>1
  <2>3. Entry(d, c + 1)' = k
    BY <1>1, <1>2, <1>3, EntryOfRowAfter DEF RowsEntered
  <2>4. Pages[d] \in Seq(Keys \cup {None}) /\ Len(Pages[d]) = c
    BY <1>1, <1>2, PageIsSeq
  <2>5. Pages'[d] = [n \in 1 .. c + 1 |-> Entry(d, n)']
    BY <1>2, <1>3, <1>5
  <2>6. Pages[d] = [n \in 1 .. c |-> Entry(d, n)]
    BY <1>1, <1>2 DEF Pages
  <2> QED BY <1>2, <1>3, <2>2, <2>3, <2>4, <2>5, <2>6, AppendProperties
<1>8. Pages' = [Pages EXCEPT ![d] = Append(Pages[d], k)]
  BY <1>2, <1>5, <1>6, <1>7 DEF Pages
<1>9. k \in Keys => k \notin Book!Entered
  <2> SUFFICES ASSUME k \in Keys, NEW e \in Days, NEW n \in DOMAIN Pages[e], Pages[e][n] = k
               PROVE  FALSE
    BY DEF Book!Entered, Book!Days, Pages
  <2>1. n \in 1 .. Cardinality(RowsOf(e)) /\ Entry(e, n) = k
    BY DEF Pages
  <2>2. PICK x \in sales : x.key = k
    BY <2>1, RowOfEntry
  <2> QED BY <1>1, <2>2, NullAssumption DEF Adds, Unique
<1> QED BY <1>1, <1>8, <1>9 DEF Book!Ring, Pages

(* What a till is told is the entry that carries its key. *)
LEMMA ToldIsEntered ==
    ASSUME RefineInv, NEW s \in sales, s.key \in Keys, UNCHANGED sales,
           answered' = answered \cup {<<s.key, s.day, s.num>>}
    PROVE  Book!Answer(s.key)
<1>1. PICK k, d, n : k = s.key /\ d = s.day /\ n = s.num
  OBVIOUS
<1>2. d \in Days /\ n \in 1 .. Cardinality(RowsOf(d)) /\ Entry(d, n) = k
  BY <1>1, EntryOfRow DEF RowsEntered
<1>3. d \in Book!Days /\ n \in DOMAIN Pages[d] /\ Pages[d][n] = k
  BY <1>2 DEF Pages, Book!Days
<1>4. UNCHANGED Pages
  BY DEF Pages, RowsOf, Entry
<1> QED BY <1>1, <1>3, <1>4 DEF Book!Answer, Pages

LEMMA AnsweredByDeliver ==
    ASSUME TypeOK, [Next]_vars, answered' # answered
    PROVE  \E r \in Reqs : Deliver(r)
<1>1. ASSUME NEW r \in Reqs,
             \/ Lookup(r) \/ ReadMember(r) \/ CountToday(r) \/ ReadOrder(r)
             \/ Reject(r) \/ Commit(r) \/ Conflict(r) \/ Adopt(r)
             \/ StartLegacy(r) \/ LegacyInsert(r)
      PROVE  FALSE
  BY <1>1 DEF Lookup, ReadMember, CountToday, ReadOrder, Reject, Commit, Conflict, Adopt,
              StartLegacy, LegacyInsert
<1>2. ASSUME NEW t \in Tills,
             \/ \E m \in MaybeMember : StartBasket(t, m)
             \/ \E x \in Orders : RingOut(t, x)
             \/ \E r \in Reqs : Submit(t, r)
             \/ Edit(t) \/ ClearCart(t) \/ GiveUp(t)
      PROVE  FALSE
  BY <1>2 DEF StartBasket, RingOut, Edit, ClearCart, GiveUp, Submit
<1>3. ASSUME NEW o \in Orders, (\E m \in MaybeMember : KioskUpsert(o, m)) \/ CartClaim(o)
      PROVE  FALSE
  BY <1>3 DEF KioskUpsert, CartClaim
<1>4. ~Midnight /\ ~Restart /\ ~UNCHANGED vars
  BY DEF Midnight, Restart, vars
<1> QED BY <1>1, <1>2, <1>3, <1>4 DEF Next

LEMMA StepRefines ==
    ASSUME RefineInv, RefineInv', [Next]_vars
    PROVE  [Book!Next]_(Book!vars)
<1> USE DEF RefineInv, BookInv
<1>1. CASE UNCHANGED <<sales, answered>>
  <2>1. UNCHANGED Pages
    BY <1>1 DEF Pages, RowsOf, Entry
  <2> QED BY <1>1, <2>1 DEF Book!vars, Pages
<1>2. ASSUME NEW r \in Reqs, NEW s, Adds(r, s), UNCHANGED answered PROVE Book!Next
  <2>1. s.day \in Book!Days /\ s.key \in Keys \cup {None}
    BY <1>2 DEF Adds, Sale, Book!Days
  <2>2. Book!Ring(s.day, s.key)
    BY <1>2, RowIsRung
  <2> QED BY <2>1, <2>2 DEF Book!Next
<1>3. ASSUME NEW r \in Reqs, Deliver(r), answered' # answered PROVE Book!Next
  <2>1. PICK s : s = req[r].answer
    OBVIOUS
  <2>2. s # None /\ answered' = answered \cup {<<s.key, s.day, s.num>>} /\ UNCHANGED sales
    BY <1>3, <2>1, Zenon DEF Deliver, db
  <2>3. s \in sales /\ s.key \in Keys
    BY <2>1, <2>2 DEF SoldInv, AnswersRung, HandlersKeyed, Keyed
  <2>4. Book!Answer(s.key)
    BY <2>2, <2>3, ToldIsEntered
  <2> QED BY <2>3, <2>4 DEF Book!Next
<1>4. ASSUME NEW r \in Reqs, Deliver(r) PROVE UNCHANGED sales
  BY <1>4 DEF Deliver, db
<1>5. CASE answered' = answered
  BY <1>1, <1>2, <1>5, BookGrows DEF vars, db
<1>6. CASE answered' # answered
  BY <1>3, <1>6, AnsweredByDeliver
<1> QED BY <1>5, <1>6

(* create_sale, create_transaction and the tills that retry implement the book:
   one append per sale, at the end of its day, once per key; and every answer a
   till hears names the entry that carries its key. *)
THEOREM SalesImplementBook == Spec => ImplementsBook
<1>1. Init => RefineInv /\ Book!Init
  BY RefineInit
<1>2. RefineInv /\ [Next]_vars => RefineInv'
  BY RefineNext
<1>3. RefineInv /\ RefineInv' /\ [Next]_vars => [Book!Next]_(Book!vars)
  BY StepRefines
<1> QED BY <1>1, <1>2, <1>3, PTL DEF Spec, ImplementsBook, Book!Spec
=============================================================================
