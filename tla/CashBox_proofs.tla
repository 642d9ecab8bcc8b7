---------------------------- MODULE CashBox_proofs ----------------------------
(***************************************************************************)
(* The cash box, for any number of handlers, boxes, sales and movements.   *)
(*                                                                         *)
(* Whatever interleaves: a closed box stays closed, its closing figures    *)
(* are one closer's, and no movement is invented.  With one person opening *)
(* there is one open box; with one handler at a time the promises of the   *)
(* sources hold.                                                           *)
(***************************************************************************)
EXTENDS CashBox, Finite_proofs, SequenceTheorems, TLAPS

Sale == [method : Methods, status : {"completed", "refunded"},
         total : 1 .. SaleTotal, completed : Nat, updated : Nat]

Pcs == {"idle", "open.expect", "open.commit", "paid.commit", "close.sum", "close.commit",
        "sale.stamp", "sale.commit", "refund.commit"}

Handler == [pc : Pcs, shift : Nat, row : Shift, sale : Nat, amount : Int,
            kind : {"none", "in", "out", "count", "force"} \cup Methods,
            counted : Int, at : Nat, cash : Nat, refunds : Nat]

(* What a handler in flight carries. *)
Holds(h) ==
    /\ h.shift \in 0 .. Len(shifts)
    /\ h.pc \in {"paid.commit", "close.sum", "close.commit"} => h.shift # 0
    /\ h.pc = "paid.commit" => h.kind \in {"in", "out"}
    /\ h.pc \in {"sale.stamp", "sale.commit"} => h.kind \in Methods
    /\ h.pc = "refund.commit" => /\ h.sale \in 1 .. Len(sales)
                                 /\ h.amount \in 1 .. SaleTotal
                                 /\ h.counted \in 1 .. SaleTotal

Typed == /\ TypeOK
         /\ IsFiniteSet(moves)
         /\ req \in [Reqs -> Handler]
         /\ \A r \in Reqs : Holds(req[r])

LEMMA OpenedTyped ==
    ASSUME NEW n \in Int, NEW e \in Int, NEW p \in Nat, NEW at \in Nat
    PROVE  Opened(n, e, p, at) \in Shift
BY DEF Opened, Shift

LEMMA IdleTyped == Idle \in Handler
<1>1. Opened(0, 0, 0, 0) \in Shift
  BY OpenedTyped
<1> QED BY <1>1 DEF Idle, Handler, Pcs

LEMMA Rows ==
    ASSUME TypeOK
    PROVE  /\ Len(shifts) \in Nat /\ DOMAIN shifts = 1 .. Len(shifts)
           /\ \A i \in DOMAIN shifts : shifts[i] \in Shift
           /\ Len(sales) \in Nat /\ DOMAIN sales = 1 .. Len(sales)
           /\ \A i \in DOMAIN sales : sales[i] \in Sale
           /\ Len(given) = Len(sales) /\ DOMAIN given = 1 .. Len(sales)
           /\ \A i \in DOMAIN given : given[i] \in Nat
           /\ IsFiniteSet(DOMAIN shifts) /\ IsFiniteSet(DOMAIN sales)
<1>1. shifts \in Seq(Shift) /\ sales \in Seq(Sale) /\ given \in Seq(Nat) /\ Len(given) = Len(sales)
  BY DEF TypeOK, Sale
<1>2. /\ Len(shifts) \in Nat /\ DOMAIN shifts = 1 .. Len(shifts)
      /\ Len(sales) \in Nat /\ DOMAIN sales = 1 .. Len(sales)
      /\ DOMAIN given = 1 .. Len(sales)
  BY <1>1, LenProperties
<1>3. IsFiniteSet(DOMAIN shifts) /\ IsFiniteSet(DOMAIN sales)
  BY <1>2, FS_Interval
<1>4. /\ \A i \in 1 .. Len(shifts) : shifts[i] \in Shift
      /\ \A i \in 1 .. Len(sales) : sales[i] \in Sale
      /\ \A i \in 1 .. Len(given) : given[i] \in Nat
  BY <1>1, ElementOfSeq
<1> QED BY <1>1, <1>2, <1>3, <1>4

(* The open box is an open box, the last reconciled one a closed box. *)
LEMMA OpenTillOpen ==
    ASSUME TypeOK
    PROVE  IF WithStatus("open") = {} THEN OpenTill = 0
           ELSE OpenTill \in WithStatus("open") /\ OpenTill # 0
<1>1. CASE WithStatus("open") = {}
  BY <1>1 DEF OpenTill
<1>2. CASE WithStatus("open") # {}
  <2> DEFINE S == WithStatus("open")
             f == [i \in DOMAIN shifts |-> -shifts[i].opened]
             T == {f[i] : i \in S}
  <2>1. IsFiniteSet(S) /\ S \subseteq DOMAIN shifts /\ 0 \notin S
    BY Rows, FS_Subset DEF WithStatus
  <2>2. \A i \in S : f[i] \in Int /\ f[i] = -shifts[i].opened /\ shifts[i].opened \in Nat
    BY <2>1, Rows DEF Shift
  <2>3. IsFiniteSet(T) /\ T \subseteq Int /\ T # {}
    <3>1. IsFiniteSet(T)
      <4> HIDE DEF S, f
      <4> QED BY <2>1, ImageFinite
    <3> QED BY <1>2, <2>2, <3>1
  <2>4. PICK m \in T : \A y \in T : m >= y
    <3> HIDE DEF T
    <3> QED BY <2>3, GreatestExists
  <2>5. PICK i \in S : m = f[i]
    OBVIOUS
  <2>6. \A j \in S : shifts[i].opened <= shifts[j].opened
    <3> SUFFICES ASSUME NEW j \in S PROVE shifts[i].opened <= shifts[j].opened
      OBVIOUS
    <3>1. f[i] >= f[j]
      BY <2>4, <2>5
    <3> HIDE DEF f, S
    <3> QED BY <2>2, <3>1
  <2>7. OpenTill \in S
    <3> HIDE DEF T, f
    <3> QED BY <1>2, <2>6 DEF OpenTill
  <2> QED BY <1>2, <2>1, <2>7
<1> QED BY <1>1, <1>2

LEMMA LastReconciledClosed ==
    ASSUME TypeOK
    PROVE  IF WithStatus("closed") = {} THEN LastReconciled = 0
           ELSE LastReconciled \in WithStatus("closed") /\ LastReconciled # 0
<1>1. CASE WithStatus("closed") = {}
  BY <1>1 DEF LastReconciled
<1>2. CASE WithStatus("closed") # {}
  <2> DEFINE S == WithStatus("closed")
             f == [i \in DOMAIN shifts |-> shifts[i].closed]
             T == {f[i] : i \in S}
  <2>1. IsFiniteSet(S) /\ S \subseteq DOMAIN shifts /\ 0 \notin S
    BY Rows, FS_Subset DEF WithStatus
  <2>2. \A i \in S : f[i] \in Int /\ f[i] = shifts[i].closed
    BY <2>1, Rows DEF Shift
  <2>3. IsFiniteSet(T) /\ T \subseteq Int /\ T # {}
    <3>1. IsFiniteSet(T)
      <4> HIDE DEF S, f
      <4> QED BY <2>1, ImageFinite
    <3> QED BY <1>2, <2>2, <3>1
  <2>4. PICK m \in T : \A y \in T : m >= y
    <3> HIDE DEF T
    <3> QED BY <2>3, GreatestExists
  <2>5. PICK i \in S : m = f[i]
    OBVIOUS
  <2>6. \A j \in S : shifts[i].closed >= shifts[j].closed
    <3> SUFFICES ASSUME NEW j \in S PROVE shifts[i].closed >= shifts[j].closed
      OBVIOUS
    <3>1. f[i] >= f[j]
      BY <2>4, <2>5
    <3> HIDE DEF f, S
    <3> QED BY <2>2, <3>1
  <2>7. LastReconciled \in S
    <3> HIDE DEF T, f
    <3> QED BY <1>2, <2>6 DEF LastReconciled
  <2> QED BY <1>2, <2>1, <2>7
<1> QED BY <1>1, <1>2

(* The clock is ahead of every timestamp. *)
LEMMA NowAhead ==
    ASSUME Typed
    PROVE  Now \in Nat /\ \A t \in Stamps : t \in Nat /\ t < Now
<1> DEFINE A == {shifts[i].opened : i \in DOMAIN shifts}
           B == {shifts[i].closed : i \in DOMAIN shifts}
           C == {sales[i].completed : i \in DOMAIN sales}
           D == {sales[i].updated : i \in DOMAIN sales}
           E == {req[r].at : r \in Reqs}
<1>1. Stamps = {0} \cup A \cup B \cup C \cup D \cup E
  BY DEF Stamps
<1>2. IsFiniteSet(A)
  <2> DEFINE f == [i \in DOMAIN shifts |-> shifts[i].opened]
  <2>1. A = {f[i] : i \in DOMAIN shifts}
    OBVIOUS
  <2> HIDE DEF A, f
  <2> QED BY <2>1, Rows, ImageFinite DEF Typed
<1>3. IsFiniteSet(B)
  <2> DEFINE f == [i \in DOMAIN shifts |-> shifts[i].closed]
  <2>1. B = {f[i] : i \in DOMAIN shifts}
    OBVIOUS
  <2> HIDE DEF B, f
  <2> QED BY <2>1, Rows, ImageFinite DEF Typed
<1>4. IsFiniteSet(C)
  <2> DEFINE f == [i \in DOMAIN sales |-> sales[i].completed]
  <2>1. C = {f[i] : i \in DOMAIN sales}
    OBVIOUS
  <2> HIDE DEF C, f
  <2> QED BY <2>1, Rows, ImageFinite DEF Typed
<1>5. IsFiniteSet(D)
  <2> DEFINE f == [i \in DOMAIN sales |-> sales[i].updated]
  <2>1. D = {f[i] : i \in DOMAIN sales}
    OBVIOUS
  <2> HIDE DEF D, f
  <2> QED BY <2>1, Rows, ImageFinite DEF Typed
<1>6. IsFiniteSet(E)
  <2> DEFINE f == [r \in Reqs |-> req[r].at]
  <2>1. E = {f[r] : r \in Reqs}
    OBVIOUS
  <2> HIDE DEF E, f
  <2> QED BY <2>1, CashAssumption, ImageFinite
<1>7. A \subseteq Nat /\ B \subseteq Nat /\ C \subseteq Nat /\ D \subseteq Nat /\ E \subseteq Nat
  <2>1. \A i \in DOMAIN shifts : shifts[i].opened \in Nat /\ shifts[i].closed \in Nat
    BY Rows DEF Typed, Shift
  <2>2. \A i \in DOMAIN sales : sales[i].completed \in Nat /\ sales[i].updated \in Nat
    BY Rows DEF Typed, Sale
  <2>3. \A r \in Reqs : req[r].at \in Nat
    BY DEF Typed, Handler
  <2> QED BY <2>1, <2>2, <2>3
<1>8. IsFiniteSet(Stamps) /\ Stamps \subseteq Nat /\ Stamps # {}
  <2> HIDE DEF A, B, C, D, E
  <2>1. IsFiniteSet({0} \cup A \cup B \cup C \cup D \cup E)
    BY <1>2, <1>3, <1>4, <1>5, <1>6, FS_Singleton, FS_Union
  <2> QED BY <1>1, <1>7, <2>1
<1>9. PICK m \in Stamps : \A y \in Stamps : m >= y
  <2>1. Stamps \subseteq Int
    BY <1>8
  <2> QED BY <1>8, <2>1, GreatestExists
<1>10. Max(Stamps) \in Stamps /\ \A y \in Stamps : Max(Stamps) >= y
  BY <1>9, Zenon DEF Max
<1> DEFINE top == Max(Stamps)
<1>11. top \in Nat /\ \A y \in Stamps : y \in Nat /\ top >= y
  BY <1>8, <1>10
<1> HIDE DEF top
<1>12. top + 1 \in Nat /\ \A y \in Stamps : y \in Nat /\ y < top + 1
  BY <1>11
<1>13. Now = top + 1
  BY DEF Now, top
<1> QED BY <1>12, <1>13
-----------------------------------------------------------------------------
(* Types. *)

LEMMA HoldsGrows ==
    ASSUME NEW g, Holds(g),
           Len(shifts) \in Nat, Len(shifts') \in Nat, Len(shifts') >= Len(shifts),
           Len(sales) \in Nat, Len(sales') \in Nat, Len(sales') >= Len(sales)
    PROVE  Holds(g)'
BY DEF Holds

(* A handler takes its next step while the tables only grow. *)
LEMMA SetHandler ==
    ASSUME Typed, NEW r \in Reqs, NEW h \in Handler,
           req' = [req EXCEPT ![r] = h],
           Len(shifts)' \in Nat, Len(shifts)' >= Len(shifts),
           Len(sales)' \in Nat, Len(sales)' >= Len(sales),
           Holds(h)'
    PROVE  /\ req' \in [Reqs -> Handler]
           /\ \A q \in Reqs : Holds(req[q])'
           /\ DOMAIN req' = Reqs
           /\ \A q \in Reqs : req'[q].shift \in 0 .. Len(shifts') /\ req'[q].row \in Shift
<1>1. req' \in [Reqs -> Handler] /\ DOMAIN req' = Reqs
  BY DEF Typed
<1>2. ASSUME NEW q \in Reqs PROVE Holds(req[q])'
  <2>1. CASE q = r
    <3>1. req'[q] = h
      BY <2>1 DEF Typed
    <3> QED BY <3>1 DEF Holds
  <2>2. CASE q # r
    <3>1. req'[q] = req[q] /\ Holds(req[q]) /\ req[q] \in Handler
      BY <2>2 DEF Typed
    <3>2. Len(shifts) \in Nat /\ Len(sales) \in Nat
      BY Rows DEF Typed
    <3>3. \A g : g = req[q] => Holds(g)'
      BY <3>1, <3>2, HoldsGrows
    <3> QED BY <3>1, <3>3 DEF Holds
  <2> QED BY <2>1, <2>2
<1>3. \A q \in Reqs : req'[q].shift \in 0 .. Len(shifts') /\ req'[q].row \in Shift
  BY <1>1, <1>2 DEF Holds, Handler
<1> QED BY <1>1, <1>2, <1>3

(* A handler that changes no table. *)
LEMMA StepAlone ==
    ASSUME Typed, NEW r \in Reqs, NEW h \in Handler,
           req' = [req EXCEPT ![r] = h], Holds(h),
           UNCHANGED <<rows, drawer, counts, given>>
    PROVE  Typed'
<1>1. /\ shifts' = shifts /\ sales' = sales /\ moves' = moves
      /\ drawer' = drawer /\ counts' = counts /\ given' = given
  BY DEF rows
<1>2. Holds(h)'
  BY <1>1 DEF Holds
<1>3. Len(shifts)' \in Nat /\ Len(shifts)' >= Len(shifts) /\ Len(sales)' \in Nat /\ Len(sales)' >= Len(sales)
  BY <1>1, Rows DEF Typed
<1>4. /\ req' \in [Reqs -> Handler]
      /\ \A q \in Reqs : Holds(req[q])'
      /\ DOMAIN req' = Reqs
      /\ \A q \in Reqs : req'[q].shift \in 0 .. Len(shifts') /\ req'[q].row \in Shift
  BY <1>2, <1>3, SetHandler
<1> QED BY <1>1, <1>4 DEF Typed, TypeOK

LEMMA IdleHolds == ASSUME Typed PROVE Holds(Idle)
BY Rows DEF Typed, Holds, Idle

LEMMA TillTyped ==
    ASSUME Typed, OpenTill # 0
    PROVE  OpenTill \in 1 .. Len(shifts) /\ shifts[OpenTill] \in Shift
           /\ shifts[OpenTill].status = "open"
<1>1. OpenTill \in WithStatus("open")
  BY OpenTillOpen DEF Typed
<1> QED BY <1>1, Rows DEF WithStatus, Typed

LEMMA TypedOpenCheck ==
    ASSUME Typed, NEW r \in Reqs, OpenCheck(r)
    PROVE  Typed'
<1> DEFINE h == [Idle EXCEPT !.pc = "open.expect", !.counted = drawer]
<1>1. h \in Handler
  BY IdleTyped DEF Handler, Pcs, Typed, TypeOK
<1>2. Holds(h)
  BY IdleHolds DEF Holds, Idle
<1>3. req' = [req EXCEPT ![r] = h] /\ UNCHANGED <<rows, drawer, counts, given>>
  BY DEF OpenCheck
<1> HIDE DEF h
<1> QED BY <1>1, <1>2, <1>3, StepAlone

LEMMA TypedOpenExpect ==
    ASSUME Typed, NEW r \in Reqs, OpenExpect(r)
    PROVE  Typed'
<1> DEFINE e == IF LastReconciled = 0 THEN Baseline ELSE shifts[LastReconciled].counted
           h == [req[r] EXCEPT !.pc = "open.commit", !.shift = LastReconciled, !.amount = e]
<1>1. /\ LastReconciled \in 0 .. Len(shifts)
      /\ LastReconciled # 0 => shifts[LastReconciled].counted \in Int
  BY LastReconciledClosed, Rows DEF WithStatus, Typed, Shift
<1>2. req[r] \in Handler /\ Holds(req[r])
  BY DEF Typed
<1>3. h \in Handler
  <2>1. e \in Int /\ LastReconciled \in Nat
    BY <1>1, CashAssumption, Rows DEF Typed
  <2> HIDE DEF e
  <2> QED BY <1>2, <2>1 DEF Handler, Pcs
<1>4. Holds(h)
  BY <1>1, <1>2 DEF Holds, Handler
<1>5. req' = [req EXCEPT ![r] = h] /\ UNCHANGED <<rows, drawer, counts, given>>
  BY DEF OpenExpect
<1> HIDE DEF h
<1> QED BY <1>3, <1>4, <1>5, StepAlone

LEMMA TypedOpenCommit ==
    ASSUME Typed, NEW r \in Reqs, OpenCommit(r)
    PROVE  Typed'
<1> DEFINE row == Opened(req[r].counted, req[r].amount, req[r].shift, Now)
<1>1. row \in Shift
  BY NowAhead, OpenedTyped DEF Typed, Handler
<1>2. shifts' = Append(shifts, row) /\ req' = [req EXCEPT ![r] = Idle]
      /\ UNCHANGED <<sales, moves, drawer, counts, given>>
  BY DEF OpenCommit
<1> HIDE DEF row
<1>3. shifts' \in Seq(Shift) /\ Len(shifts') = Len(shifts) + 1
      /\ DOMAIN shifts \subseteq DOMAIN shifts'
  <2>1. shifts \in Seq(Shift)
    BY DEF Typed, TypeOK
  <2> QED BY <1>1, <1>2, <2>1, AppendProperties, LenProperties
<1>4. Holds(Idle)'
  BY <1>2, <1>3, Rows DEF Holds, Idle, Typed
<1>5. /\ req' \in [Reqs -> Handler]
      /\ \A q \in Reqs : Holds(req[q])'
      /\ DOMAIN req' = Reqs
      /\ \A q \in Reqs : req'[q].shift \in 0 .. Len(shifts') /\ req'[q].row \in Shift
  <2>1. Len(shifts)' \in Nat /\ Len(shifts)' >= Len(shifts) /\ Len(sales)' \in Nat /\ Len(sales)' >= Len(sales)
    BY <1>2, <1>3, Rows DEF Typed
  <2> QED BY <1>2, <1>4, <2>1, IdleTyped, SetHandler
<1>6. moves' \subseteq [id : Nat, shift : DOMAIN shifts', kind : {"in", "out"}]
      /\ counts' \subseteq (DOMAIN shifts') \X Int
  BY <1>2, <1>3 DEF Typed, TypeOK
<1> QED BY <1>2, <1>3, <1>5, <1>6 DEF Typed, TypeOK

LEMMA TypedPaidRead ==
    ASSUME Typed, NEW r \in Reqs, NEW k \in {"in", "out"}, PaidRead(r, k)
    PROVE  Typed'
<1> DEFINE i == OpenTill
           s == shifts[i]
           h == [Idle EXCEPT !.pc = "paid.commit", !.shift = i, !.row = s, !.kind = k]
<1>1. i \in 1 .. Len(shifts) /\ s \in Shift /\ Len(shifts) \in Nat
  BY TillTyped, Rows DEF PaidRead, Typed
<1>2. req' = [req EXCEPT ![r] = h] /\ UNCHANGED <<rows, drawer, counts, given>>
  BY DEF PaidRead
<1> HIDE DEF i, s
<1>3. h \in Handler
  <2>1. i \in Nat /\ k \in {"none", "in", "out", "count", "force"} \cup Methods
    BY <1>1
  <2> QED BY <1>1, <2>1, IdleTyped DEF Handler, Pcs
<1>4. Holds(h)
  BY <1>1 DEF Holds, Idle
<1> HIDE DEF h
<1> QED BY <1>2, <1>3, <1>4, StepAlone

(* A row of a box is written. *)
LEMMA RowWritten ==
    ASSUME Typed, NEW r \in Reqs, NEW i \in 1 .. Len(shifts), NEW row \in Shift,
           shifts' = [shifts EXCEPT ![i] = row],
           req' = [req EXCEPT ![r] = Idle],
           sales' = sales, given' = given, drawer' \in Int, IsFiniteSet(moves'),
           moves' \subseteq [id : Nat, shift : DOMAIN shifts, kind : {"in", "out"}],
           counts' \subseteq (DOMAIN shifts) \X Int
    PROVE  Typed'
<1>1. shifts' \in Seq(Shift) /\ Len(shifts') = Len(shifts) /\ DOMAIN shifts' = DOMAIN shifts
  <2>1. shifts \in Seq(Shift)
    BY DEF Typed, TypeOK
  <2> QED BY <2>1, ExceptSeq, LenProperties
<1>2. Holds(Idle)'
  BY <1>1, Rows DEF Holds, Idle, Typed
<1>3. /\ req' \in [Reqs -> Handler]
      /\ \A q \in Reqs : Holds(req[q])'
      /\ DOMAIN req' = Reqs
      /\ \A q \in Reqs : req'[q].shift \in 0 .. Len(shifts') /\ req'[q].row \in Shift
  <2>1. Len(shifts)' \in Nat /\ Len(shifts)' >= Len(shifts) /\ Len(sales)' \in Nat /\ Len(sales)' >= Len(sales)
    BY <1>1, Rows DEF Typed
  <2> QED BY <1>2, <2>1, IdleTyped, SetHandler
<1> QED BY <1>1, <1>3 DEF Typed, TypeOK

LEMMA CreditedTyped ==
    ASSUME NEW row \in Shift, NEW loaded \in Shift, NEW k
    PROVE  Credited(row, loaded, k) \in Shift
BY DEF Credited, Shift

LEMMA TypedPaidCommit ==
    ASSUME Typed, NEW r \in Reqs, PaidCommit(r)
    PROVE  Typed'
<1> DEFINE i == req[r].shift
           k == req[r].kind
           row == Credited(shifts[i], req[r].row, k)
           v == [id |-> Cardinality(moves) + 1, shift |-> i, kind |-> k]
<1>1. i \in 1 .. Len(shifts) /\ k \in {"in", "out"} /\ req[r].row \in Shift
  BY DEF PaidCommit, Typed, Holds, Handler
<1>2. row \in Shift
  BY <1>1, Rows, CreditedTyped DEF Typed
<1>3. shifts' = [shifts EXCEPT ![i] = row] /\ req' = [req EXCEPT ![r] = Idle]
      /\ sales' = sales /\ given' = given /\ counts' = counts /\ moves' = moves \cup {v}
      /\ drawer' = IF k = "in" THEN drawer + 1 ELSE drawer - 1
  BY DEF PaidCommit
<1> HIDE DEF i, k, row
<1>4. drawer' \in Int
  BY <1>3 DEF Typed, TypeOK
<1>5. IsFiniteSet(moves')
  BY <1>3, FS_AddElement DEF Typed
<1>6. moves' \subseteq [id : Nat, shift : DOMAIN shifts, kind : {"in", "out"}]
  <2>1. Cardinality(moves) + 1 \in Nat
    BY FS_CardinalityType DEF Typed
  <2> QED BY <1>1, <1>3, <2>1, Rows DEF Typed, TypeOK
<1>7. counts' \subseteq (DOMAIN shifts) \X Int
  BY <1>3 DEF Typed, TypeOK
<1> QED BY <1>1, <1>2, <1>3, <1>4, <1>5, <1>6, <1>7, RowWritten

LEMMA TypedCloseRead ==
    ASSUME Typed, NEW r \in Reqs, NEW k \in {"count", "force"}, CloseRead(r, k)
    PROVE  Typed'
<1> DEFINE i == OpenTill
           s == shifts[i]
           n == Now
           h == [Idle EXCEPT !.pc = "close.sum", !.shift = i, !.row = s, !.kind = k,
                             !.counted = drawer, !.at = n]
<1>1. /\ i \in 1 .. Len(shifts) /\ s \in Shift /\ Len(shifts) \in Nat
      /\ drawer \in Int /\ n \in Nat
  BY TillTyped, Rows, NowAhead DEF CloseRead, Typed, TypeOK
<1>2. req' = [req EXCEPT ![r] = h] /\ UNCHANGED <<rows, drawer, counts, given>>
  BY DEF CloseRead
<1> HIDE DEF i, s, n
<1>3. h \in Handler
  <2>1. i \in Nat /\ k \in {"none", "in", "out", "count", "force"} \cup Methods
    BY <1>1
  <2> QED BY <1>1, <2>1, IdleTyped DEF Handler, Pcs
<1>4. Holds(h)
  BY <1>1 DEF Holds, Idle
<1> HIDE DEF h
<1> QED BY <1>2, <1>3, <1>4, StepAlone

LEMMA TotalTyped ==
    ASSUME Typed, NEW S \in SUBSET DOMAIN sales
    PROVE  TotalOf(S) \in Nat
<1> DEFINE f == [i \in S |-> sales[i].total]
<1>1. IsFiniteSet(S)
  BY Rows, FS_Subset DEF Typed
<1>2. \A i \in S : f[i] \in Nat
  BY Rows, CashAssumption DEF Typed, Sale
<1> HIDE DEF f
<1>3. SumFunctionOnSet(f, S) \in Nat
  BY <1>1, <1>2, SumNat
<1> QED BY <1>3 DEF TotalOf, f

LEMMA TypedCloseSum ==
    ASSUME Typed, NEW r \in Reqs, CloseSum(r)
    PROVE  Typed'
<1> DEFINE w == Window(req[r].row.opened, req[r].at)
           c == TotalOf(CashWith("completed", w))
           b == TotalOf(CashWith("refunded", w))
           h == [req[r] EXCEPT !.pc = "close.commit", !.cash = c, !.refunds = b]
<1>1. w \in SUBSET DOMAIN sales
  BY DEF Window
<1> HIDE DEF w
<1>2. c \in Nat /\ b \in Nat
  BY <1>1, TotalTyped DEF CashWith
<1>3. req' = [req EXCEPT ![r] = h] /\ UNCHANGED <<rows, drawer, counts, given>>
      /\ req[r].pc = "close.sum"
  BY DEF CloseSum, w
<1> HIDE DEF c, b
<1>4. req[r] \in Handler /\ Holds(req[r])
  BY DEF Typed
<1>5. h \in Handler
  BY <1>2, <1>4 DEF Handler, Pcs
<1>6. Holds(h)
  BY <1>3, <1>4 DEF Holds, Handler
<1> HIDE DEF h
<1> QED BY <1>3, <1>5, <1>6, StepAlone

LEMMA ClosingTyped ==
    ASSUME NEW row \in Shift, NEW h \in Handler
    PROVE  ClosingRow(row, h) \in Shift
<1> DEFINE e == ExpectedCash(h.row, h.cash, h.refunds)
           n == IF h.kind = "count" THEN h.counted ELSE e
           v == Variance(n, e)
           b == Verified(row, h.kind)
           f == IF h.kind = "count" THEN row.forced ELSE TRUE
<1>1. e \in Int
  BY DEF ExpectedCash, Handler, Shift
<1> HIDE DEF e
<1>2. n \in Int
  BY <1>1 DEF Handler
<1>3. v \in Int
  BY <1>1, <1>2 DEF Variance
<1>4. b \in BOOLEAN /\ f \in BOOLEAN
  BY DEF Verified, Shift
<1>5. h.at \in Nat /\ h.cash \in Nat /\ h.refunds \in Nat
  BY DEF Handler
<1>6. ClosingRow(row, h) =
        [row EXCEPT !.status = "closed", !.closed = h.at, !.cash = h.cash,
                    !.refunds = h.refunds, !.expected = e, !.counted = n,
                    !.variance = v, !.verified = b, !.forced = f]
  BY DEF ClosingRow, e
<1> HIDE DEF n, v, b, f
<1>7. [row EXCEPT !.status = "closed", !.closed = h.at, !.cash = h.cash,
                    !.refunds = h.refunds, !.expected = e, !.counted = n,
                    !.variance = v, !.verified = b, !.forced = f] \in Shift
  BY <1>1, <1>2, <1>3, <1>4, <1>5 DEF Shift
<1> QED BY <1>6, <1>7

LEMMA TypedCloseCommit ==
    ASSUME Typed, NEW r \in Reqs, CloseCommit(r)
    PROVE  Typed'
<1> DEFINE h == req[r]
           row == ClosingRow(shifts[h.shift], h)
<1>1. h \in Handler /\ h.shift \in 1 .. Len(shifts) /\ h.counted \in Int
  BY DEF CloseCommit, Typed, Holds, Handler
<1>2. row \in Shift
  BY <1>1, Rows, ClosingTyped DEF Typed
<1>3. /\ shifts' = [shifts EXCEPT ![h.shift] = row] /\ req' = [req EXCEPT ![r] = Idle]
      /\ sales' = sales /\ given' = given /\ moves' = moves /\ drawer' = drawer
      /\ counts' \subseteq counts \cup {<<h.shift, h.counted>>}
  BY DEF CloseCommit
<1> HIDE DEF h, row
<1>4. counts' \subseteq (DOMAIN shifts) \X Int
  <2>1. <<h.shift, h.counted>> \in (DOMAIN shifts) \X Int
    BY <1>1, Rows DEF Typed
  <2>2. counts \subseteq (DOMAIN shifts) \X Int
    BY DEF Typed, TypeOK
  <2> QED BY <1>3, <2>1, <2>2
<1>5. moves' \subseteq [id : Nat, shift : DOMAIN shifts, kind : {"in", "out"}] /\ drawer' \in Int
      /\ IsFiniteSet(moves')
  BY <1>3 DEF Typed, TypeOK
<1> QED BY <1>1, <1>2, <1>3, <1>4, <1>5, RowWritten

LEMMA TypedSaleGate ==
    ASSUME Typed, NEW r \in Reqs, NEW m \in Methods, SaleGate(r, m)
    PROVE  Typed'
<1> DEFINE h == [Idle EXCEPT !.pc = "sale.stamp", !.kind = m]
<1>1. h \in Handler
  BY IdleTyped DEF Handler, Pcs
<1>2. Holds(h)
  BY IdleHolds DEF Holds, Idle
<1>3. req' = [req EXCEPT ![r] = h] /\ UNCHANGED <<rows, drawer, counts, given>>
  BY DEF SaleGate
<1> HIDE DEF h
<1> QED BY <1>1, <1>2, <1>3, StepAlone

LEMMA TypedSaleStamp ==
    ASSUME Typed, NEW r \in Reqs, SaleStamp(r)
    PROVE  Typed'
<1> DEFINE n == Now
           h == [req[r] EXCEPT !.pc = "sale.commit", !.at = n]
<1>1. n \in Nat /\ req[r] \in Handler /\ Holds(req[r])
  BY NowAhead DEF Typed
<1>2. req' = [req EXCEPT ![r] = h] /\ UNCHANGED <<rows, drawer, counts, given>>
      /\ req[r].pc = "sale.stamp"
  BY DEF SaleStamp
<1> HIDE DEF n
<1>3. h \in Handler
  BY <1>1 DEF Handler, Pcs
<1>4. Holds(h)
  BY <1>1, <1>2 DEF Holds, Handler
<1> HIDE DEF h
<1> QED BY <1>2, <1>3, <1>4, StepAlone

LEMMA TypedSaleCommit ==
    ASSUME Typed, NEW r \in Reqs, SaleCommit(r)
    PROVE  Typed'
<1> DEFINE s == [method |-> req[r].kind, status |-> "completed",
                 total |-> SaleTotal, completed |-> req[r].at, updated |-> 0]
<1>1. s \in Sale
  BY CashAssumption DEF SaleCommit, Typed, Holds, Handler, Sale
<1>2. sales' = Append(sales, s) /\ given' = Append(given, 0) /\ req' = [req EXCEPT ![r] = Idle]
      /\ shifts' = shifts /\ moves' = moves /\ counts' = counts
      /\ drawer' = IF req[r].kind = "cash" THEN drawer + SaleTotal ELSE drawer
  BY DEF SaleCommit
<1> HIDE DEF s
<1>3. sales' \in Seq(Sale) /\ Len(sales') = Len(sales) + 1
      /\ given' \in Seq(Nat) /\ Len(given') = Len(given) + 1
  <2>1. sales \in Seq(Sale) /\ given \in Seq(Nat)
    BY DEF Typed, TypeOK, Sale
  <2> QED BY <1>1, <1>2, <2>1, AppendProperties
<1>4. drawer' \in Int
  BY <1>2, CashAssumption DEF Typed, TypeOK
<1>5. Holds(Idle)'
  BY <1>2, Rows DEF Holds, Idle, Typed
<1>6. /\ req' \in [Reqs -> Handler]
      /\ \A q \in Reqs : Holds(req[q])'
      /\ DOMAIN req' = Reqs
      /\ \A q \in Reqs : req'[q].shift \in 0 .. Len(shifts') /\ req'[q].row \in Shift
  <2>1. Len(shifts)' \in Nat /\ Len(shifts)' >= Len(shifts) /\ Len(sales)' \in Nat /\ Len(sales)' >= Len(sales)
    BY <1>2, <1>3, Rows DEF Typed
  <2> QED BY <1>2, <1>5, <2>1, IdleTyped, SetHandler
<1> QED BY <1>2, <1>3, <1>4, <1>6 DEF Typed, TypeOK, Sale

LEMMA TypedRefundRead ==
    ASSUME Typed, NEW r \in Reqs, NEW i \in DOMAIN sales, NEW n \in 1 .. SaleTotal, RefundRead(r, i, n)
    PROVE  Typed'
<1> DEFINE c == sales[i].total
           t == Now
           h == [Idle EXCEPT !.pc = "refund.commit", !.sale = i, !.amount = n, !.counted = c, !.at = t]
<1>1. i \in 1 .. Len(sales) /\ Len(sales) \in Nat /\ c \in 1 .. SaleTotal /\ t \in Nat
      /\ Len(shifts) \in Nat
  BY Rows, NowAhead DEF Typed, Sale
<1>2. req' = [req EXCEPT ![r] = h] /\ UNCHANGED <<rows, drawer, counts, given>>
  BY DEF RefundRead
<1> HIDE DEF c, t
<1>3. h \in Handler
  <2>1. i \in Nat /\ n \in Int /\ c \in Int
    BY <1>1, CashAssumption
  <2> QED BY <1>1, <2>1, IdleTyped DEF Handler, Pcs
<1>4. Holds(h)
  BY <1>1 DEF Holds, Idle
<1> HIDE DEF h
<1> QED BY <1>2, <1>3, <1>4, StepAlone

LEMMA RefundedTyped ==
    ASSUME NEW sale \in Sale, NEW net \in Int, net <= SaleTotal, NEW at \in Nat
    PROVE  Refunded(sale, net, at) \in Sale
<1>1. CASE net > 0
  <2>1. net \in 1 .. SaleTotal
    BY <1>1, CashAssumption
  <2> QED BY <1>1, <2>1 DEF Refunded, Sale
<1>2. CASE ~(net > 0)
  BY <1>2 DEF Refunded, Sale
<1> QED BY <1>1, <1>2

LEMMA TypedRefundCommit ==
    ASSUME Typed, NEW r \in Reqs, RefundCommit(r)
    PROVE  Typed'
<1> DEFINE h == req[r]
           s == Refunded(sales[h.sale], h.counted - h.amount, h.at)
           g == given[h.sale] + h.amount
<1>1. /\ h \in Handler /\ h.sale \in 1 .. Len(sales)
      /\ h.counted \in 1 .. SaleTotal /\ h.amount \in 1 .. SaleTotal
  BY DEF RefundCommit, Typed, Holds
<1>2. s \in Sale
  <2>1. h.counted - h.amount \in Int /\ h.counted - h.amount <= SaleTotal /\ h.at \in Nat
    BY <1>1, CashAssumption DEF Handler
  <2>2. sales[h.sale] \in Sale
    BY <1>1, Rows DEF Typed
  <2> QED BY <2>1, <2>2, RefundedTyped
<1>3. g \in Nat
  BY <1>1, Rows DEF Typed
<1>4. /\ sales' = [sales EXCEPT ![h.sale] = s] /\ given' = [given EXCEPT ![h.sale] = g]
      /\ drawer' = drawer - h.amount /\ req' = [req EXCEPT ![r] = Idle]
      /\ shifts' = shifts /\ moves' = moves /\ counts' = counts
  BY DEF RefundCommit
<1> HIDE DEF s, g, h
<1>5. sales' \in Seq(Sale) /\ Len(sales') = Len(sales)
      /\ given' \in Seq(Nat) /\ Len(given') = Len(given)
  <2>1. sales \in Seq(Sale) /\ given \in Seq(Nat) /\ h.sale \in 1 .. Len(given)
    BY <1>1, Rows DEF Typed, TypeOK, Sale
  <2> QED BY <1>1, <1>2, <1>3, <1>4, <2>1, ExceptSeq
<1>6. drawer' \in Int
  BY <1>1, <1>4, CashAssumption DEF Typed, TypeOK
<1>7. Holds(Idle)'
  BY <1>4, Rows DEF Holds, Idle, Typed
<1>8. /\ req' \in [Reqs -> Handler]
      /\ \A q \in Reqs : Holds(req[q])'
      /\ DOMAIN req' = Reqs
      /\ \A q \in Reqs : req'[q].shift \in 0 .. Len(shifts') /\ req'[q].row \in Shift
  <2>1. Len(shifts)' \in Nat /\ Len(shifts)' >= Len(shifts) /\ Len(sales)' \in Nat /\ Len(sales)' >= Len(sales)
    BY <1>4, <1>5, Rows DEF Typed
  <2> QED BY <1>4, <1>7, <2>1, IdleTyped, SetHandler
<1> QED BY <1>4, <1>5, <1>6, <1>8 DEF Typed, TypeOK, Sale

LEMMA TypedRefuse ==
    ASSUME Typed, NEW r \in Reqs, Refuse(r)
    PROVE  Typed'
BY IdleTyped, IdleHolds, StepAlone DEF Refuse

LEMMA TypedInit == Init => Typed
<1> SUFFICES ASSUME Init PROVE Typed
  OBVIOUS
<1>1. shifts \in Seq(Shift) /\ sales \in Seq(Sale) /\ given \in Seq(Nat)
      /\ Len(shifts) = 0 /\ Len(sales) = 0 /\ Len(given) = 0
  BY EmptySeq DEF Init
<1>2. req \in [Reqs -> Handler]
  BY IdleTyped DEF Init
<1>3. \A r \in Reqs : Holds(req[r]) /\ req[r].shift \in 0 .. Len(shifts) /\ req[r].row \in Shift
  <2>1. \A r \in Reqs : req[r] = Idle
    BY DEF Init
  <2>2. Holds(Idle) /\ Idle.shift = 0 /\ Idle.row \in Shift
    BY <1>1, IdleTyped DEF Holds, Idle, Handler
  <2> QED BY <1>1, <2>1, <2>2
<1>4. IsFiniteSet(moves)
  BY FS_EmptySet DEF Init
<1> QED BY <1>1, <1>2, <1>3, <1>4, CashAssumption DEF Init, Typed, TypeOK, Sale

(* What one handler may do. *)
Acts(r) ==
    \/ OpenCheck(r) \/ OpenExpect(r) \/ OpenCommit(r)
    \/ (\E k \in {"in", "out"} : PaidRead(r, k)) \/ PaidCommit(r)
    \/ (\E k \in {"count", "force"} : CloseRead(r, k)) \/ CloseSum(r) \/ CloseCommit(r)
    \/ (\E m \in Methods : SaleGate(r, m)) \/ SaleStamp(r) \/ SaleCommit(r)
    \/ (\E i \in DOMAIN sales, n \in 1 .. SaleTotal : RefundRead(r, i, n)) \/ RefundCommit(r)
    \/ Refuse(r)

LEMMA NextActs == Next <=> \E r \in Reqs : Acts(r)
BY Zenon DEF Next, Acts

LEMMA TypedNext == Typed /\ [Next]_vars => Typed'
<1> SUFFICES ASSUME Typed, [Next]_vars PROVE Typed'
  OBVIOUS
<1>1. CASE UNCHANGED vars
  BY <1>1 DEF vars, rows, Typed, TypeOK, Holds
<1>2. CASE Next
  <2>1. PICK r \in Reqs : Acts(r)
    BY <1>2, NextActs
  <2> QED BY <2>1, TypedOpenCheck, TypedOpenExpect, TypedOpenCommit, TypedPaidRead,
             TypedPaidCommit, TypedCloseRead, TypedCloseSum, TypedCloseCommit, TypedSaleGate,
             TypedSaleStamp, TypedSaleCommit, TypedRefundRead, TypedRefundCommit, TypedRefuse DEF Acts
<1> QED BY <1>1, <1>2

LEMMA TypedAlways == Spec => []Typed
BY TypedInit, TypedNext, PTL DEF Spec

(* The rows of the tables and the handlers have their types, and a handler in
   flight refers to rows that exist (the handlers of the cash router). *)
THEOREM CashTyped == Spec => []TypeOK
<1>1. Typed => TypeOK
  BY DEF Typed
<1> QED BY <1>1, TypedAlways, PTL
-----------------------------------------------------------------------------
(* Who does not act waits. *)
LEMMA OthersWait ==
    ASSUME Typed, [Next]_vars, NEW r \in Reqs
    PROVE  req'[r] = req[r] \/ Acts(r)
<1>1. CASE UNCHANGED vars
  BY <1>1 DEF vars
<1>2. ASSUME NEW q \in Reqs, Acts(q), q # r PROVE req'[r] = req[r]
  BY <1>2 DEF Acts, OpenCheck, OpenExpect, OpenCommit, PaidRead, PaidCommit, CloseRead, CloseSum,
         CloseCommit, SaleGate, SaleStamp, SaleCommit, RefundRead, RefundCommit, Refuse, Typed
<1> QED BY <1>1, <1>2, NextActs

(* What a step may do to the rows of the boxes. *)

Kept(i) == shifts'[i] = shifts[i]
CreditedBy(r, i) == /\ PaidCommit(r) /\ i = req[r].shift
                    /\ shifts'[i] = Credited(shifts[i], req[r].row, req[r].kind)
ClosedBy(r, i) == /\ CloseCommit(r) /\ i = req[r].shift
                  /\ shifts'[i] = ClosingRow(shifts[i], req[r])
OpenedBy(r, i) == /\ OpenCommit(r)
                  /\ shifts'[i] = Opened(req[r].counted, req[r].amount, req[r].shift, Now)

LEMMA RowsStep ==
    ASSUME Typed, [Next]_vars
    PROVE  /\ DOMAIN shifts \subseteq DOMAIN shifts'
           /\ \A i \in DOMAIN shifts :
                 \/ Kept(i)
                 \/ \E r \in Reqs : CreditedBy(r, i) \/ ClosedBy(r, i)
           /\ \A i \in DOMAIN shifts' : i \notin DOMAIN shifts => \E r \in Reqs : OpenedBy(r, i)
<1>1. CASE UNCHANGED shifts
  BY <1>1 DEF Kept
<1>2. ASSUME NEW r \in Reqs, OpenCommit(r)
      PROVE  /\ DOMAIN shifts \subseteq DOMAIN shifts'
             /\ \A i \in DOMAIN shifts : Kept(i)
             /\ \A i \in DOMAIN shifts' : i \notin DOMAIN shifts => OpenedBy(r, i)
  <2> DEFINE row == Opened(req[r].counted, req[r].amount, req[r].shift, Now)
  <2>1. row \in Shift /\ shifts \in Seq(Shift) /\ shifts' = Append(shifts, row)
    BY <1>2, NowAhead, OpenedTyped DEF Typed, TypeOK, Handler, OpenCommit
  <2> HIDE DEF row
  <2>2. /\ Len(shifts) \in Nat /\ DOMAIN shifts = 1 .. Len(shifts)
        /\ DOMAIN shifts' = 1 .. Len(shifts) + 1
        /\ \A i \in 1 .. Len(shifts) : shifts'[i] = shifts[i]
        /\ shifts'[Len(shifts) + 1] = row
    BY <2>1, AppendProperties, LenProperties
  <2>3. \A i \in DOMAIN shifts' : i \notin DOMAIN shifts => shifts'[i] = row
    BY <2>2
  <2> QED BY <1>2, <2>2, <2>3 DEF Kept, OpenedBy, row
<1>3. ASSUME NEW r \in Reqs, PaidCommit(r)
      PROVE  DOMAIN shifts = DOMAIN shifts' /\ \A i \in DOMAIN shifts : Kept(i) \/ CreditedBy(r, i)
  BY <1>3 DEF PaidCommit, Kept, CreditedBy
<1>4. ASSUME NEW r \in Reqs, CloseCommit(r)
      PROVE  DOMAIN shifts = DOMAIN shifts' /\ \A i \in DOMAIN shifts : Kept(i) \/ ClosedBy(r, i)
  BY <1>4 DEF CloseCommit, Kept, ClosedBy
<1>5. CASE \A r \in Reqs : ~OpenCommit(r) /\ ~PaidCommit(r) /\ ~CloseCommit(r)
  <2>1. UNCHANGED shifts
    BY <1>5 DEF Next, vars, rows, OpenCheck, OpenExpect, PaidRead, CloseRead, CloseSum, SaleGate,
                SaleStamp, SaleCommit, RefundRead, RefundCommit, Refuse
  <2> QED BY <1>1, <2>1
<1> QED BY <1>2, <1>3, <1>4, <1>5

LEMMA ClosedStays ==
    ASSUME Typed, [Next]_vars, NEW i \in DOMAIN shifts, Closed(i)
    PROVE  Closed(i)' /\ shifts'[i].float = shifts[i].float
<1>1. shifts[i] \in Shift
  BY Rows DEF Typed
<1>2. CASE Kept(i)
  BY <1>2 DEF Kept, Closed
<1>3. ASSUME NEW r \in Reqs, CreditedBy(r, i)
      PROVE  Closed(i)' /\ shifts'[i].float = shifts[i].float
  BY <1>1, <1>3 DEF CreditedBy, Credited, Closed, Shift
<1>4. ASSUME NEW r \in Reqs, ClosedBy(r, i)
      PROVE  Closed(i)' /\ shifts'[i].float = shifts[i].float
  BY <1>1, <1>4 DEF ClosedBy, ClosingRow, Closed, Shift
<1> QED BY <1>2, <1>3, <1>4, RowsStep

(* A closed box is closed for good, whatever a handler that loaded it open
   still writes to it (shift_paid_in_out, close_cash_shift,
   force_close_cash_box). *)
THEOREM StaysClosed == Spec => ClosedForGood
<1>1. Typed /\ [Next]_vars => [\A i \in DOMAIN shifts : Closed(i)
                                => Closed(i)' /\ shifts'[i].float = shifts[i].float]_vars
  BY ClosedStays
<1> QED BY <1>1, TypedAlways, PTL DEF Spec, ClosedForGood
-----------------------------------------------------------------------------
(* One open box. *)

OneOpener == \A r, s \in Openers : r = s

AllClosed == \A i \in DOMAIN shifts : Closed(i)

OneOpen == \A i, j \in DOMAIN shifts : Closed(i) \/ Closed(j) \/ i = j

(* Whoever has seen that no box is open is the only one to open one. *)
OpenerAlone == \A r \in Reqs :
    req[r].pc \in {"open.expect", "open.commit"} => r \in Openers /\ AllClosed

OpenInv == OneOpen /\ OpenerAlone

LEMMA SomeClosed ==
    ASSUME Typed
    PROVE  AllClosed <=> OpenTill = 0
<1>1. \A i \in DOMAIN shifts : shifts[i].status \in {"open", "closed"}
  BY Rows DEF Typed, Shift
<1>2. AllClosed <=> WithStatus("open") = {}
  BY <1>1 DEF AllClosed, WithStatus, Closed
<1> QED BY <1>2, OpenTillOpen DEF Typed

LEMMA OpenNext ==
    ASSUME OneOpener, Typed, Typed', OpenInv, [Next]_vars
    PROVE  OpenInv'
<1>1. ASSUME NEW i \in DOMAIN shifts', i \notin DOMAIN shifts
      PROVE  \E r \in Reqs : OpenCommit(r) /\ r \in Openers /\ AllClosed
  BY <1>1, RowsStep DEF OpenedBy, OpenCommit, OpenInv, OpenerAlone
<1>2. \A i \in DOMAIN shifts : i \in DOMAIN shifts' /\ (Closed(i) => Closed(i)')
  BY RowsStep, ClosedStays
<1>3. OneOpen'
  <2>1. CASE DOMAIN shifts' \subseteq DOMAIN shifts
    BY <1>2, <2>1 DEF OpenInv, OneOpen
  <2>2. ASSUME NEW r \in Reqs, OpenCommit(r), AllClosed PROVE OneOpen'
    <3>1. \A i, j \in DOMAIN shifts' : i \notin DOMAIN shifts /\ j \notin DOMAIN shifts => i = j
      <4>1. PICK row : row = Opened(req[r].counted, req[r].amount, req[r].shift, Now)
        OBVIOUS
      <4>2. Len(shifts) \in Nat /\ DOMAIN shifts = 1 .. Len(shifts) /\ shifts' = Append(shifts, row)
        BY <2>2, <4>1, Rows DEF Typed, OpenCommit
      <4>3. DOMAIN shifts' = 1 .. Len(shifts) + 1
        BY <4>2
      <4> QED BY <4>2, <4>3
    <3> QED BY <1>2, <2>2, <3>1 DEF OneOpen, AllClosed
  <2> QED BY <1>1, <2>1, <2>2
<1>4. OpenerAlone'
  <2> SUFFICES ASSUME NEW r \in Reqs, req'[r].pc \in {"open.expect", "open.commit"}
               PROVE  r \in Openers /\ AllClosed'
    BY DEF OpenerAlone
  <2>1. r \in Openers /\ AllClosed
    <3>1. CASE req'[r] = req[r]
      BY <3>1 DEF OpenInv, OpenerAlone
    <3>2. CASE OpenCheck(r) \/ OpenExpect(r)
      BY <3>2, SomeClosed DEF OpenCheck, OpenExpect, OpenInv, OpenerAlone
    <3>3. CASE Acts(r) /\ ~OpenCheck(r) /\ ~OpenExpect(r)
      <4>1. req'[r].pc \notin {"open.expect", "open.commit"}
        <5>1. CASE CloseSum(r) \/ SaleStamp(r)
          BY <5>1 DEF CloseSum, SaleStamp, Typed, Handler
        <5>2. CASE \/ OpenCommit(r) \/ PaidCommit(r) \/ CloseCommit(r)
                   \/ SaleCommit(r) \/ RefundCommit(r) \/ Refuse(r)
          <6>1. req'[r] = Idle
            BY <5>2 DEF OpenCommit, PaidCommit, CloseCommit, SaleCommit, RefundCommit, Refuse, Typed
          <6> QED BY <6>1 DEF Idle
        <5>3. CASE \/ \E k \in {"in", "out"} : PaidRead(r, k)
                   \/ \E k \in {"count", "force"} : CloseRead(r, k)
                   \/ \E m \in Methods : SaleGate(r, m)
                   \/ \E i \in DOMAIN sales, n \in 1 .. SaleTotal : RefundRead(r, i, n)
          <6> USE DEF Typed
          <6>1. ASSUME NEW k \in {"in", "out"}, PaidRead(r, k) PROVE req'[r].pc = "paid.commit"
            BY <6>1 DEF PaidRead, Idle
          <6>2. ASSUME NEW k \in {"count", "force"}, CloseRead(r, k) PROVE req'[r].pc = "close.sum"
            BY <6>2 DEF CloseRead, Idle
          <6>3. ASSUME NEW m \in Methods, SaleGate(r, m) PROVE req'[r].pc = "sale.stamp"
            BY <6>3 DEF SaleGate, Idle
          <6>4. ASSUME NEW i \in DOMAIN sales, NEW n \in 1 .. SaleTotal, RefundRead(r, i, n)
                PROVE  req'[r].pc = "refund.commit"
            BY <6>4 DEF RefundRead, Idle
          <6> QED BY <5>3, <6>1, <6>2, <6>3, <6>4
        <5> QED BY <3>3, <5>1, <5>2, <5>3 DEF Acts
      <4> QED BY <4>1
    <3> QED BY <3>1, <3>2, <3>3, OthersWait
  <2>2. DOMAIN shifts' = DOMAIN shifts
    <3> SUFFICES ASSUME NEW i \in DOMAIN shifts', i \notin DOMAIN shifts PROVE FALSE
      BY <1>2
    <3>1. PICK q \in Reqs : OpenCommit(q) /\ q \in Openers
      BY <1>1
    <3>2. q = r
      BY <2>1, <3>1 DEF OneOpener
    <3>3. req'[r] = Idle
      BY <3>1, <3>2 DEF OpenCommit, Typed
    <3> QED BY <3>3 DEF Idle
  <2> QED BY <1>2, <2>1, <2>2 DEF AllClosed
<1> QED BY <1>3, <1>4 DEF OpenInv

LEMMA AtMostOne ==
    ASSUME OneOpen
    PROVE  Cardinality(WithStatus("open")) <= 1
<1>1. CASE WithStatus("open") = {}
  BY <1>1, FS_EmptySet
<1>2. ASSUME NEW i \in WithStatus("open") PROVE Cardinality(WithStatus("open")) <= 1
  <2>1. WithStatus("open") = {i}
    BY <1>2 DEF OneOpen, WithStatus, Closed
  <2> QED BY <2>1, FS_Singleton
<1> QED BY <1>1, <1>2

(* With one person at a time opening, there is at most one open box, whatever the
   other handlers do meanwhile (open_cash_shift asks _open_till, then waits). *)
THEOREM OneBoxOpen ==
    ASSUME OneOpener
    PROVE  Spec => [](Cardinality(WithStatus("open")) <= 1)
<1>1. Init => OpenInv
  BY DEF Init, OpenInv, OneOpen, OpenerAlone, Idle
<1>2. Typed /\ Typed' /\ OpenInv /\ [Next]_vars => OpenInv'
  BY OpenNext
<1>3. Typed /\ OpenInv => Cardinality(WithStatus("open")) <= 1
  BY AtMostOne DEF OpenInv
<1> QED BY <1>1, <1>2, <1>3, TypedAlways, PTL DEF Spec
-----------------------------------------------------------------------------
(* The closing figures. *)

(* Nobody has forced what is verified: also before the box is closed. *)
VerifiedUnforced == \A i \in DOMAIN shifts : shifts[i].verified => ~shifts[i].forced

CloseInv == CloseIsWhole /\ VerifiedUnforced

LEMMA CloseNext ==
    ASSUME Typed, CloseInv, [Next]_vars
    PROVE  CloseInv'
<1> DEFINE Good(s, i, c) ==
        /\ s.verified => ~s.forced
        /\ s.status = "closed" => /\ s.variance = s.counted - s.expected
                                  /\ s.verified => <<i, s.counted>> \in c /\ ~s.forced
<1>1. \A i \in DOMAIN shifts : Good(shifts[i], i, counts)
  BY DEF CloseInv, CloseIsWhole, VerifiedUnforced, Closed
<1>2. counts \subseteq counts'
  BY DEF Next, vars, rows, OpenCheck, OpenExpect, OpenCommit, PaidRead, PaidCommit, CloseRead,
         CloseSum, CloseCommit, SaleGate, SaleStamp, SaleCommit, RefundRead, RefundCommit, Refuse
<1>3. SUFFICES ASSUME NEW i \in DOMAIN shifts' PROVE Good(shifts'[i], i, counts')
  BY DEF CloseInv, CloseIsWhole, VerifiedUnforced, Closed
<1>4. ASSUME NEW r \in Reqs, OpenedBy(r, i) PROVE Good(shifts'[i], i, counts')
  BY <1>4 DEF OpenedBy, Opened
<1>5. CASE i \in DOMAIN shifts
  <2>1. shifts[i] \in Shift
    BY <1>5, Rows DEF Typed
  <2>2. CASE Kept(i)
    BY <1>1, <1>2, <1>5, <2>2 DEF Kept
  <2>3. ASSUME NEW r \in Reqs, CreditedBy(r, i) PROVE Good(shifts'[i], i, counts')
    BY <1>1, <1>2, <1>5, <2>1, <2>3 DEF CreditedBy, Credited, Shift
  <2>4. ASSUME NEW r \in Reqs, ClosedBy(r, i) PROVE Good(shifts'[i], i, counts')
    <3> DEFINE h == req[r]
               e == ExpectedCash(h.row, h.cash, h.refunds)
               n == IF h.kind = "count" THEN h.counted ELSE e
               s == shifts'[i]
    <3>1. /\ s.counted = n /\ s.variance = n - e /\ s.expected = e
          /\ s.verified = Verified(shifts[i], h.kind)
          /\ s.forced = IF h.kind = "count" THEN shifts[i].forced ELSE TRUE
      BY <2>1, <2>4 DEF ClosedBy, ClosingRow, Variance, Shift
    <3>2. h.kind = "count" => <<i, h.counted>> \in counts'
      BY <2>4 DEF ClosedBy, CloseCommit
    <3>3. shifts[i].verified => ~shifts[i].forced
      BY <1>1, <1>5
    <3>4. CASE h.kind = "count"
      BY <3>1, <3>2, <3>3, <3>4 DEF Verified
    <3>5. CASE h.kind # "count"
      BY <3>1, <3>5 DEF Verified
    <3> QED BY <3>4, <3>5
  <2> QED BY <1>5, <2>2, <2>3, <2>4, RowsStep
<1> QED BY <1>4, <1>5, RowsStep

(* When a count and a forced close of the same box cross, the row holds one
   closer's figures, and counted_verified only with a figure somebody counted. *)
THEOREM ClosesWhole == Spec => []CloseIsWhole
<1>1. Init => CloseInv
  BY DEF Init, CloseInv, CloseIsWhole, VerifiedUnforced
<1>2. Typed /\ CloseInv /\ [Next]_vars => CloseInv'
  BY CloseNext
<1>3. CloseInv => CloseIsWhole
  BY DEF CloseInv
<1> QED BY <1>1, <1>2, <1>3, TypedAlways, PTL DEF Spec
-----------------------------------------------------------------------------
(* The movements. *)

MovesNumbered == \A v \in moves : v.id \in 1 .. Cardinality(moves)

Paid(row, i) == row.paidIn <= Moved(i, "in") /\ row.paidOut <= Moved(i, "out")

(* What was loaded is not ahead of the movements either. *)
LoadedPaid == \A r \in Reqs : req[r].pc = "paid.commit" => Paid(req[r].row, req[r].shift)

PaidInv == /\ PaidWithinMovements
           /\ MovesNumbered
           /\ LoadedPaid

LEMMA MovedGrows ==
    ASSUME Typed, Typed', moves \subseteq moves', NEW i, NEW k
    PROVE  /\ Moved(i, k) \in Nat /\ Moved(i, k)' \in Nat
           /\ Moved(i, k) <= Moved(i, k)'
           /\ \A v \in moves' : v \notin moves /\ v.shift = i /\ v.kind = k
                 => Moved(i, k) + 1 <= Moved(i, k)'
<1> DEFINE A == {v \in moves : v.shift = i /\ v.kind = k}
           B == {v \in moves' : v.shift = i /\ v.kind = k}
<1>1. IsFiniteSet(A) /\ IsFiniteSet(B) /\ A \subseteq B
  BY FS_Subset DEF Typed
<1>2. Cardinality(A) \in Nat /\ Cardinality(B) \in Nat /\ Cardinality(A) <= Cardinality(B)
  BY <1>1, FS_Subset, FS_CardinalityType
<1>3. ASSUME NEW v \in moves', v \notin moves, v.shift = i, v.kind = k
      PROVE  Cardinality(A) + 1 <= Cardinality(B)
  <2>1. v \notin A /\ A \cup {v} \in SUBSET B
    BY <1>1, <1>3
  <2> HIDE DEF A, B
  <2>2. Cardinality(A \cup {v}) = Cardinality(A) + 1
    BY <1>1, <2>1, FS_AddElement
  <2>3. Cardinality(A \cup {v}) <= Cardinality(B)
    BY <1>1, <2>1, FS_Subset
  <2> QED BY <2>2, <2>3
<1>4. Moved(i, k) = Cardinality(A) /\ Moved(i, k)' = Cardinality(B)
  BY DEF Moved
<1> HIDE DEF A, B
<1> QED BY <1>2, <1>3, <1>4

(* A row that is not ahead stays so. *)
LEMMA PaidGrows ==
    ASSUME Typed, Typed', moves \subseteq moves', NEW row \in Shift, NEW i, Paid(row, i)
    PROVE  Paid(row, i)'
<1>1. /\ Moved(i, "in") \in Nat /\ Moved(i, "in")' \in Nat /\ Moved(i, "in") <= Moved(i, "in")'
      /\ Moved(i, "out") \in Nat /\ Moved(i, "out")' \in Nat /\ Moved(i, "out") <= Moved(i, "out")'
  BY MovedGrows
<1>2. row.paidIn \in Nat /\ row.paidOut \in Nat
  BY DEF Shift
<1> QED BY <1>1, <1>2 DEF Paid

LEMMA MovesStep ==
    ASSUME Typed, [Next]_vars
    PROVE  \/ moves' = moves
           \/ \E r \in Reqs : PaidCommit(r)
<1> QED BY DEF Next, vars, rows, OpenCheck, OpenExpect, OpenCommit, PaidRead, CloseRead,
         CloseSum, CloseCommit, SaleGate, SaleStamp, SaleCommit, RefundRead, RefundCommit, Refuse

LEMMA Numbered ==
    ASSUME Typed, MovesNumbered, [Next]_vars
    PROVE  /\ moves \subseteq moves'
           /\ MovesNumbered'
           /\ \A r \in Reqs : PaidCommit(r) =>
                 \E v \in moves' : v \notin moves /\ v.shift = req[r].shift /\ v.kind = req[r].kind
<1>0. IsFiniteSet(moves) /\ Cardinality(moves) \in Nat
  BY FS_CardinalityType DEF Typed
<1>1. ASSUME NEW r \in Reqs, PaidCommit(r)
      PROVE  /\ moves \subseteq moves' /\ MovesNumbered'
             /\ \E v \in moves' : v \notin moves /\ v.shift = req[r].shift /\ v.kind = req[r].kind
  <2> DEFINE v == [id |-> Cardinality(moves) + 1, shift |-> req[r].shift, kind |-> req[r].kind]
  <2>1. moves' = moves \cup {v} /\ v.id = Cardinality(moves) + 1
        /\ v.shift = req[r].shift /\ v.kind = req[r].kind
    BY <1>1 DEF PaidCommit
  <2> HIDE DEF v
  <2>2. v \notin moves
    BY <1>0, <2>1 DEF MovesNumbered
  <2>3. Cardinality(moves') = Cardinality(moves) + 1
    BY <1>0, <2>1, <2>2, FS_AddElement
  <2>4. MovesNumbered'
    BY <1>0, <2>1, <2>3 DEF MovesNumbered
  <2> QED BY <2>1, <2>2, <2>4
<1>2. CASE moves' = moves
  <2>1. \A r \in Reqs : ~PaidCommit(r)
    BY <1>1, <1>2
  <2>2. MovesNumbered'
    BY <1>2 DEF MovesNumbered
  <2> QED BY <1>2, <2>1, <2>2
<1> QED BY <1>1, <1>2, MovesStep

LEMMA PaidNext ==
    ASSUME Typed, Typed', PaidInv, [Next]_vars
    PROVE  PaidInv'
<1>1. moves \subseteq moves' /\ MovesNumbered'
  BY Numbered DEF PaidInv
<1>2. \A i \in DOMAIN shifts : shifts[i] \in Shift /\ Paid(shifts[i], i)
  BY Rows DEF PaidInv, PaidWithinMovements, Paid, Typed
<1>3. LoadedPaid'
  <2> SUFFICES ASSUME NEW r \in Reqs, req'[r].pc = "paid.commit"
               PROVE  \A row, i : row = req'[r].row /\ i = req'[r].shift => Paid(row, i)'
    BY DEF LoadedPaid, Paid
  <2>1. req'[r] = req[r] \/ \E k \in {"in", "out"} : PaidRead(r, k)
    <3>1. req \in [Reqs -> Handler]
      BY DEF Typed
    <3>2. CASE OpenCheck(r) \/ OpenExpect(r) \/ OpenCommit(r)
      <4>0. CASE OpenCheck(r)
        BY <3>1, <4>0 DEF OpenCheck, Idle
      <4>1. CASE OpenCommit(r)
        <5>1. req' = [req EXCEPT ![r] = Idle]
          BY <4>1 DEF OpenCommit
        <5> QED BY <3>1, <5>1 DEF Idle
      <4>2. CASE OpenExpect(r)
        <5> DEFINE e == IF LastReconciled = 0 THEN Baseline ELSE shifts[LastReconciled].counted
        <5>1. req' = [req EXCEPT ![r] = [req[r] EXCEPT
                        !.pc = "open.commit", !.shift = LastReconciled, !.amount = e]]
          BY <4>2 DEF OpenExpect
        <5> HIDE DEF e
        <5> QED BY <3>1, <5>1 DEF Handler
      <4> QED BY <3>2, <4>0, <4>1, <4>2
    <3>3. CASE PaidCommit(r) \/ CloseCommit(r) \/ SaleCommit(r) \/ RefundCommit(r) \/ Refuse(r)
      BY <3>1, <3>3 DEF PaidCommit, CloseCommit, SaleCommit, RefundCommit, Refuse, Idle
    <3>4. CASE (\E k \in {"count", "force"} : CloseRead(r, k)) \/ CloseSum(r)
      BY <3>1, <3>4 DEF CloseRead, CloseSum, Idle, Handler
    <3>5. CASE (\E m \in Methods : SaleGate(r, m)) \/ SaleStamp(r)
      BY <3>1, <3>5 DEF SaleGate, SaleStamp, Idle, Handler
    <3>6. CASE \E i \in DOMAIN sales, n \in 1 .. SaleTotal : RefundRead(r, i, n)
      BY <3>1, <3>6 DEF RefundRead, Idle
    <3> QED BY <3>2, <3>3, <3>4, <3>5, <3>6, OthersWait DEF Acts
  <2>2. CASE req'[r] = req[r]
    <3>1. req[r].row \in Shift /\ Paid(req[r].row, req[r].shift)
      BY <2>2 DEF PaidInv, LoadedPaid, Typed, Handler
    <3> QED BY <1>1, <2>2, <3>1, PaidGrows
  <2>3. ASSUME NEW k \in {"in", "out"}, PaidRead(r, k)
        PROVE  \A row, i : row = req'[r].row /\ i = req'[r].shift => Paid(row, i)'
    <3>1. req'[r].shift = OpenTill /\ req'[r].row = shifts[OpenTill]
      BY <2>3 DEF PaidRead, Idle, Typed
    <3>2. OpenTill \in DOMAIN shifts
      BY <2>3, TillTyped, Rows DEF PaidRead, Typed
    <3> QED BY <1>1, <1>2, <3>1, <3>2, PaidGrows
  <2> QED BY <2>1, <2>2, <2>3
<1>4. ASSUME NEW i \in DOMAIN shifts'
      PROVE  \A row : row = shifts'[i] => Paid(row, i)'
  <2>1. ASSUME NEW r \in Reqs, OpenedBy(r, i)
        PROVE  \A row : row = shifts'[i] => Paid(row, i)'
    <3>1. shifts'[i].paidIn = 0 /\ shifts'[i].paidOut = 0
      BY <2>1 DEF OpenedBy, Opened
    <3>2. Moved(i, "in")' \in Nat /\ Moved(i, "out")' \in Nat
      BY <1>1, MovedGrows
    <3> QED BY <3>1, <3>2 DEF Paid
  <2>2. CASE i \in DOMAIN shifts
    <3>1. CASE Kept(i)
      BY <1>1, <1>2, <2>2, <3>1, PaidGrows DEF Kept
    <3>2. ASSUME NEW r \in Reqs, CreditedBy(r, i)
          PROVE  \A row : row = shifts'[i] => Paid(row, i)'
      <4> DEFINE h == req[r]
      <4>1. h.pc = "paid.commit" /\ i = h.shift /\ shifts'[i] = Credited(shifts[i], h.row, h.kind)
        BY <3>2 DEF CreditedBy, PaidCommit
      <4>2. h.row \in Shift /\ h.kind \in {"in", "out"} /\ Paid(h.row, i)
        BY <4>1 DEF PaidInv, LoadedPaid, Typed, Handler, Holds
      <4>3. /\ Moved(i, "in") \in Nat /\ Moved(i, "in")' \in Nat /\ Moved(i, "in") <= Moved(i, "in")'
            /\ Moved(i, "out") \in Nat /\ Moved(i, "out")' \in Nat /\ Moved(i, "out") <= Moved(i, "out")'
        BY <1>1, MovedGrows
      <4>8. PICK v \in moves' : v \notin moves /\ v.shift = h.shift /\ v.kind = h.kind
        BY <3>2, Numbered DEF CreditedBy, PaidInv
      <4>4. shifts[i] \in Shift /\ Paid(shifts[i], i)
        BY <1>2, <2>2
      <4>5. /\ shifts[i].paidIn \in Nat /\ shifts[i].paidOut \in Nat
            /\ h.row.paidIn \in Nat /\ h.row.paidOut \in Nat
        BY <4>2, <4>4 DEF Shift
      <4> HIDE DEF h
      <4>6. CASE h.kind = "in"
        <5>1. shifts'[i].paidIn = h.row.paidIn + 1 /\ shifts'[i].paidOut = shifts[i].paidOut
          BY <4>1, <4>4, <4>6 DEF Credited, Shift
        <5>2. Moved(i, "in") + 1 <= Moved(i, "in")'
          BY <1>1, <4>1, <4>6, <4>8, MovedGrows
        <5> QED BY <4>2, <4>3, <4>4, <4>5, <5>1, <5>2 DEF Paid
      <4>7. CASE h.kind = "out"
        <5>1. shifts'[i].paidOut = h.row.paidOut + 1 /\ shifts'[i].paidIn = shifts[i].paidIn
          BY <4>1, <4>4, <4>7 DEF Credited, Shift
        <5>2. Moved(i, "out") + 1 <= Moved(i, "out")'
          BY <1>1, <4>1, <4>7, <4>8, MovedGrows
        <5> QED BY <4>2, <4>3, <4>4, <4>5, <5>1, <5>2 DEF Paid
      <4> QED BY <4>2, <4>6, <4>7
    <3>3. ASSUME NEW r \in Reqs, ClosedBy(r, i)
          PROVE  \A row : row = shifts'[i] => Paid(row, i)'
      <4>1. shifts'[i].paidIn = shifts[i].paidIn /\ shifts'[i].paidOut = shifts[i].paidOut
        BY <1>2, <2>2, <3>3 DEF ClosedBy, ClosingRow, Shift
      <4>2. Paid(shifts[i], i) /\ shifts[i] \in Shift
        BY <1>2, <2>2
      <4>3. \A row : row = shifts[i] => Paid(row, i)'
        BY <1>1, <4>2, PaidGrows
      <4> QED BY <4>1, <4>3 DEF Paid
    <3> QED BY <2>2, <3>1, <3>2, <3>3, RowsStep
  <2> QED BY <2>1, <2>2, RowsStep
<1>5. PaidWithinMovements'
  BY <1>4 DEF PaidWithinMovements, Paid
<1> QED BY <1>1, <1>3, <1>5 DEF PaidInv

LEMMA PaidAlways == Spec => []PaidInv
<1>1. Init => PaidInv
  BY DEF Init, PaidInv, PaidWithinMovements, MovesNumbered, LoadedPaid, Idle
<1>2. Typed /\ Typed' /\ PaidInv /\ [Next]_vars => PaidInv'
  BY PaidNext
<1> QED BY <1>1, <1>2, TypedAlways, PTL DEF Spec

(* The paid totals of a box may lose a movement to a race of two handlers, but
   are never ahead of the movements on record (shift_paid_in_out). *)
THEOREM PaidOnRecord == Spec => []PaidWithinMovements
<1>1. PaidInv => PaidWithinMovements
  BY DEF PaidInv
<1> QED BY <1>1, PaidAlways, PTL
-----------------------------------------------------------------------------
(* One handler at a time. *)

OneHandler == \A r, s \in Reqs : r = s

(* The boxes follow each other: all but the last are closed, and each was closed
   before the next one was opened. *)
InOrder == \A i, j \in DOMAIN shifts : i < j => Closed(i) /\ shifts[i].closed < shifts[j].opened

(* No row is stamped t or later. *)
RowsBefore(t) ==
    /\ \A i \in DOMAIN shifts : shifts[i].opened < t /\ shifts[i].closed < t
    /\ \A s \in DOMAIN sales : sales[s].completed < t /\ sales[s].updated < t

(* What the handler in flight has seen is still so. *)
OpeningFresh(h) ==
    /\ h.pc \in {"open.expect", "open.commit"} => AllClosed /\ h.counted = drawer
    /\ h.pc = "open.commit" /\ h.shift # 0 => shifts[h.shift].counted = h.amount

BoxFresh(h) ==
    h.pc \in {"paid.commit", "close.sum", "close.commit"}
        => ~Closed(h.shift) /\ h.row = shifts[h.shift]

ClosingFresh(h) ==
    /\ h.pc \in {"close.sum", "close.commit"} => h.counted = drawer /\ RowsBefore(h.at)
    /\ h.pc = "close.commit" =>
          LET w == Window(h.row.opened, h.at) IN
          /\ h.cash = TotalOf(CashWith("completed", w))
          /\ h.refunds = TotalOf(CashWith("refunded", w))

SaleFresh(h) ==
    /\ h.pc \in {"sale.stamp", "sale.commit"} /\ h.kind = "cash" => ~AllClosed
    /\ h.pc = "sale.commit" => RowsBefore(h.at)

RefundFresh(h) ==
    h.pc = "refund.commit" =>
        /\ sales[h.sale].status = "completed"
        /\ h.counted = sales[h.sale].total
        /\ h.amount <= h.counted
        /\ RowsBefore(h.at)

Fresh(h) == OpeningFresh(h) /\ BoxFresh(h) /\ ClosingFresh(h) /\ SaleFresh(h) /\ RefundFresh(h)

(* The slope: previous_shift_id and what it was counted at. *)
Slope == \A i \in DOMAIN shifts : shifts[i].prev # 0
            => /\ shifts[i].prev \in DOMAIN shifts
               /\ Closed(shifts[i].prev)
               /\ shifts[shifts[i].prev].counted = shifts[i].before

BoxFigures == \A i \in DOMAIN shifts :
    /\ Closed(i) => shifts[i].expected = ExpectedCash(shifts[i], shifts[i].cash, shifts[i].refunds)
    /\ shifts[i].paidIn = Moved(i, "in") /\ shifts[i].paidOut = Moved(i, "out")

(* What was handed back and what is left of a sale are the sale. *)
GivenBack == \A s \in DOMAIN sales :
    /\ given[s] <= SaleTotal
    /\ sales[s].status = "completed" => given[s] + sales[s].total = SaleTotal

(* A refund is later than its sale, and a refunded sale has one. *)
RefundLater == \A s \in DOMAIN sales :
    /\ sales[s].updated # 0 => sales[s].completed <= sales[s].updated
    /\ sales[s].status = "refunded" => sales[s].updated # 0

CashSales(i) == {s \in DOMAIN sales : /\ sales[s].method = "cash"
                                      /\ sales[s].status = "completed"
                                      /\ shifts[i].opened <= sales[s].completed}

AllTraceable == \A s \in DOMAIN sales : Traceable(s)

(* The drawer is what the figures of the open box say, as long as every refund
   is one they can follow. *)
Ledger ==
    AllTraceable =>
        \A i \in DOMAIN shifts :
            IF Closed(i) THEN shifts[i].variance = 0
            ELSE drawer = shifts[i].float + TotalOf(CashSales(i)) + shifts[i].paidIn - shifts[i].paidOut

Tables == /\ InOrder /\ CashSaleAssigned /\ Slope /\ BoxFigures
          /\ GivenBack /\ RefundLater /\ Ledger

SerialInv == Tables /\ \A r \in Reqs : Fresh(req[r])

LEMMA SameTotals ==
    ASSUME sales' = sales
    PROVE  \A S : TotalOf(S)' = TotalOf(S)
BY Zenon DEF TotalOf

(* Whatever leaves the tables alone leaves what is said of them. *)
LEMMA TablesStay ==
    ASSUME Tables, UNCHANGED <<rows, drawer, counts, given>>
    PROVE  Tables'
<1>1. /\ shifts' = shifts /\ sales' = sales /\ moves' = moves
      /\ drawer' = drawer /\ given' = given
  BY DEF rows
<1>2. /\ \A i : Closed(i)' <=> Closed(i)
      /\ \A t, i : InWindow(t, i)' <=> InWindow(t, i)
  BY <1>1 DEF Closed, InWindow
<1>3. \A i, k : Moved(i, k)' = Moved(i, k)
  BY <1>1, Zenon DEF Moved
<1>4. \A S : TotalOf(S)' = TotalOf(S)
  BY <1>1, SameTotals
<1>5. \A i : CashSales(i)' = CashSales(i)
  BY <1>1, Zenon DEF CashSales
<1>6. AllTraceable' <=> AllTraceable
  BY <1>1, <1>2 DEF AllTraceable, Traceable
<1>7. InOrder' /\ CashSaleAssigned' /\ Slope' /\ GivenBack' /\ RefundLater'
  BY <1>1, <1>2 DEF Tables, InOrder, CashSaleAssigned, Slope, GivenBack, RefundLater
<1>8. BoxFigures'
  BY <1>1, <1>2, <1>3 DEF Tables, BoxFigures
<1>9. \A i : TotalOf(CashSales(i))' = TotalOf(CashSales(i))
  <2>1. \A i : CashSales(i)' = CashSales(i)
    BY <1>5
  <2> QED BY <1>1, Zenon DEF TotalOf, CashSales
<1>10. Ledger'
  BY <1>1, <1>2, <1>6, <1>9 DEF Tables, Ledger
<1> QED BY <1>7, <1>8, <1>10 DEF Tables

LEMMA AloneFresh ==
    ASSUME OneHandler, Typed, NEW r \in Reqs, NEW h, req' = [req EXCEPT ![r] = h], Fresh(h)'
    PROVE  \A q \in Reqs : Fresh(req[q])'
<1>1. ASSUME NEW q \in Reqs PROVE Fresh(req[q])'
  <2>1. q = r /\ req'[q] = h
    BY DEF OneHandler, Typed
  <2> QED BY <2>1 DEF Fresh, OpeningFresh, BoxFresh, ClosingFresh, SaleFresh, RefundFresh
<1> QED BY <1>1

LEMMA IdleFresh == Fresh(Idle)'
BY DEF Fresh, OpeningFresh, BoxFresh, ClosingFresh, SaleFresh, RefundFresh, Idle

LEMMA NowAfterRows ==
    ASSUME Typed
    PROVE  RowsBefore(Now)
<1>1. /\ \A i \in DOMAIN shifts : shifts[i].opened \in Stamps /\ shifts[i].closed \in Stamps
      /\ \A s \in DOMAIN sales : sales[s].completed \in Stamps /\ sales[s].updated \in Stamps
  BY DEF Stamps
<1> QED BY <1>1, NowAhead DEF RowsBefore
-----------------------------------------------------------------------------
(* The handlers that only read. *)

LEMMA FreshOpenCheck ==
    ASSUME OneHandler, Typed, NEW r \in Reqs, OpenCheck(r)
    PROVE  \A q \in Reqs : Fresh(req[q])'
<1>1. shifts' = shifts /\ drawer' = drawer /\ OpenTill = 0
  BY DEF OpenCheck, rows
<1>2. PICK h : h = [Idle EXCEPT !.pc = "open.expect", !.counted = drawer]
  OBVIOUS
<1>3. h.pc = "open.expect" /\ h.counted = drawer /\ req' = [req EXCEPT ![r] = h]
  BY <1>2 DEF OpenCheck, Idle
<1>4. AllClosed'
  BY <1>1, SomeClosed DEF AllClosed, Closed
<1>5. Fresh(h)'
  BY <1>1, <1>3, <1>4 DEF Fresh, OpeningFresh, BoxFresh, ClosingFresh, SaleFresh, RefundFresh
<1> QED BY <1>3, <1>5, AloneFresh

LEMMA FreshOpenExpect ==
    ASSUME OneHandler, Typed, NEW r \in Reqs, Fresh(req[r]), OpenExpect(r)
    PROVE  \A q \in Reqs : Fresh(req[q])'
<1>1. shifts' = shifts /\ drawer' = drawer /\ req[r].pc = "open.expect" /\ req[r] \in Handler
  BY DEF OpenExpect, rows, Typed
<1>2. PICK e : e = IF LastReconciled = 0 THEN Baseline ELSE shifts[LastReconciled].counted
  OBVIOUS
<1>3. PICK h : h = [req[r] EXCEPT !.pc = "open.commit", !.shift = LastReconciled, !.amount = e]
  OBVIOUS
<1>4. req' = [req EXCEPT ![r] = h]
  BY <1>2, <1>3 DEF OpenExpect
<1>5. h.pc = "open.commit" /\ h.counted = req[r].counted /\ h.shift = LastReconciled /\ h.amount = e
  BY <1>1, <1>3 DEF Handler
<1>6. h.shift # 0 => shifts'[h.shift].counted = h.amount
  BY <1>1, <1>2, <1>5
<1>7. AllClosed' /\ h.counted = drawer
  BY <1>1, <1>5 DEF Fresh, OpeningFresh, AllClosed, Closed
<1>8. Fresh(h)'
  BY <1>1, <1>5, <1>6, <1>7 DEF Fresh, OpeningFresh, BoxFresh, ClosingFresh, SaleFresh, RefundFresh
<1> QED BY <1>4, <1>8, AloneFresh

LEMMA FreshPaidRead ==
    ASSUME OneHandler, Typed, NEW r \in Reqs, NEW k \in {"in", "out"}, PaidRead(r, k)
    PROVE  \A q \in Reqs : Fresh(req[q])'
<1>1. PICK i : i = OpenTill
  OBVIOUS
<1>2. shifts' = shifts /\ i # 0
  BY <1>1 DEF PaidRead, rows
<1>3. ~Closed(i)'
  BY <1>1, <1>2, TillTyped DEF Closed
<1>4. PICK h : h = [Idle EXCEPT !.pc = "paid.commit", !.shift = i, !.row = shifts[i], !.kind = k]
  OBVIOUS
<1>5. req' = [req EXCEPT ![r] = h]
  BY <1>1, <1>4 DEF PaidRead
<1>6. h.pc = "paid.commit" /\ h.shift = i /\ h.row = shifts'[i]
  BY <1>2, <1>4 DEF Idle
<1>7. Fresh(h)'
  BY <1>3, <1>6 DEF Fresh, OpeningFresh, BoxFresh, ClosingFresh, SaleFresh, RefundFresh
<1> QED BY <1>5, <1>7, AloneFresh

LEMMA FreshCloseRead ==
    ASSUME OneHandler, Typed, NEW r \in Reqs, NEW k \in {"count", "force"}, CloseRead(r, k)
    PROVE  \A q \in Reqs : Fresh(req[q])'
<1>1. PICK i, n : i = OpenTill /\ n = Now
  OBVIOUS
<1>2. shifts' = shifts /\ sales' = sales /\ drawer' = drawer /\ i # 0
  BY <1>1 DEF CloseRead, rows
<1>3. ~Closed(i)'
  BY <1>1, <1>2, TillTyped DEF Closed
<1>4. PICK h : h = [Idle EXCEPT !.pc = "close.sum", !.shift = i, !.row = shifts[i], !.kind = k,
                               !.counted = drawer, !.at = n]
  OBVIOUS
<1>5. req' = [req EXCEPT ![r] = h]
  BY <1>1, <1>4 DEF CloseRead
<1>6. h.pc = "close.sum" /\ h.shift = i /\ h.row = shifts'[i] /\ h.counted = drawer' /\ h.at = n
  BY <1>2, <1>4 DEF Idle
<1>7. RowsBefore(n)'
  BY <1>1, <1>2, NowAfterRows DEF RowsBefore
<1>8. Fresh(h)'
  BY <1>3, <1>6, <1>7 DEF Fresh, OpeningFresh, BoxFresh, ClosingFresh, SaleFresh, RefundFresh
<1> QED BY <1>5, <1>8, AloneFresh

LEMMA FreshCloseSum ==
    ASSUME OneHandler, Typed, NEW r \in Reqs, Fresh(req[r]), CloseSum(r)
    PROVE  \A q \in Reqs : Fresh(req[q])'
<1>1. PICK from, to : from = req[r].row.opened /\ to = req[r].at
  OBVIOUS
<1>2. PICK c, b : /\ c = TotalOf(CashWith("completed", Window(from, to)))
                  /\ b = TotalOf(CashWith("refunded", Window(from, to)))
  OBVIOUS
<1>3. PICK h : h = [req[r] EXCEPT !.pc = "close.commit", !.cash = c, !.refunds = b]
  OBVIOUS
<1>4. /\ shifts' = shifts /\ sales' = sales /\ drawer' = drawer
      /\ req[r].pc = "close.sum" /\ req[r] \in Handler
  BY DEF CloseSum, rows, Typed
<1>5. req' = [req EXCEPT ![r] = h]
  BY <1>1, <1>2, <1>3, Zenon DEF CloseSum
<1>6. /\ h.pc = "close.commit" /\ h.shift = req[r].shift /\ h.row = req[r].row
      /\ h.counted = req[r].counted /\ h.at = to /\ h.row.opened = from /\ h.cash = c /\ h.refunds = b
  BY <1>1, <1>3, <1>4 DEF Handler
<1>7. /\ c = TotalOf(CashWith("completed", Window(from, to)))'
      /\ b = TotalOf(CashWith("refunded", Window(from, to)))'
  BY <1>2, <1>4, Zenon DEF TotalOf, CashWith, Window
<1>8. /\ ~Closed(h.shift)' /\ h.row = shifts'[h.shift] /\ h.counted = drawer' /\ RowsBefore(h.at)'
  BY <1>1, <1>4, <1>6 DEF Fresh, BoxFresh, ClosingFresh, Closed, RowsBefore
<1>9. BoxFresh(h)' /\ ClosingFresh(h)'
  BY <1>6, <1>7, <1>8 DEF BoxFresh, ClosingFresh
<1>10. Fresh(h)'
  BY <1>6, <1>9 DEF Fresh, OpeningFresh, SaleFresh, RefundFresh
<1> QED BY <1>5, <1>10, AloneFresh

LEMMA FreshSaleGate ==
    ASSUME OneHandler, Typed, NEW r \in Reqs, NEW m \in Methods, SaleGate(r, m)
    PROVE  \A q \in Reqs : Fresh(req[q])'
<1>1. shifts' = shifts /\ (m = "cash" => OpenTill # 0)
  BY DEF SaleGate, rows
<1>2. PICK h : h = [Idle EXCEPT !.pc = "sale.stamp", !.kind = m]
  OBVIOUS
<1>3. h.pc = "sale.stamp" /\ h.kind = m /\ req' = [req EXCEPT ![r] = h]
  BY <1>2 DEF Idle, SaleGate
<1>4. m = "cash" => ~AllClosed'
  BY <1>1, SomeClosed DEF AllClosed, Closed
<1>5. Fresh(h)'
  BY <1>3, <1>4 DEF Fresh, OpeningFresh, BoxFresh, ClosingFresh, SaleFresh, RefundFresh
<1> QED BY <1>3, <1>5, AloneFresh

LEMMA FreshSaleStamp ==
    ASSUME OneHandler, Typed, NEW r \in Reqs, Fresh(req[r]), SaleStamp(r)
    PROVE  \A q \in Reqs : Fresh(req[q])'
<1>1. shifts' = shifts /\ sales' = sales /\ req[r].pc = "sale.stamp" /\ req[r] \in Handler
  BY DEF SaleStamp, rows, Typed
<1>2. PICK n : n = Now
  OBVIOUS
<1>3. PICK h : h = [req[r] EXCEPT !.pc = "sale.commit", !.at = n]
  OBVIOUS
<1>4. req' = [req EXCEPT ![r] = h]
  BY <1>2, <1>3 DEF SaleStamp
<1>5. h.pc = "sale.commit" /\ h.kind = req[r].kind /\ h.at = n
  BY <1>1, <1>3 DEF Handler
<1>6. RowsBefore(h.at)'
  BY <1>1, <1>2, <1>5, NowAfterRows DEF RowsBefore
<1>7. h.kind = "cash" => ~AllClosed'
  BY <1>1, <1>5 DEF Fresh, SaleFresh, AllClosed, Closed
<1>8. Fresh(h)'
  BY <1>5, <1>6, <1>7 DEF Fresh, OpeningFresh, BoxFresh, ClosingFresh, SaleFresh, RefundFresh
<1> QED BY <1>4, <1>8, AloneFresh

LEMMA FreshRefundRead ==
    ASSUME OneHandler, Typed, NEW r \in Reqs, NEW i \in DOMAIN sales, NEW n \in 1 .. SaleTotal,
           RefundRead(r, i, n)
    PROVE  \A q \in Reqs : Fresh(req[q])'
<1>1. /\ shifts' = shifts /\ sales' = sales
      /\ sales[i].status = "completed" /\ n <= sales[i].total
  BY DEF RefundRead, rows
<1>2. PICK t : t = Now
  OBVIOUS
<1>3. PICK h : h = [Idle EXCEPT !.pc = "refund.commit", !.sale = i, !.amount = n,
                               !.counted = sales[i].total, !.at = t]
  OBVIOUS
<1>4. req' = [req EXCEPT ![r] = h]
  BY <1>2, <1>3 DEF RefundRead
<1>5. h.pc = "refund.commit" /\ h.sale = i /\ h.amount = n /\ h.counted = sales'[i].total /\ h.at = t
  BY <1>1, <1>3 DEF Idle
<1>6. RowsBefore(h.at)'
  BY <1>1, <1>2, <1>5, NowAfterRows DEF RowsBefore
<1>7. Fresh(h)'
  BY <1>1, <1>5, <1>6 DEF Fresh, OpeningFresh, BoxFresh, ClosingFresh, SaleFresh, RefundFresh
<1> QED BY <1>4, <1>7, AloneFresh
-----------------------------------------------------------------------------
(* The handlers that write. *)

LEMMA TablesOpenCommit ==
    ASSUME Typed, Tables, NEW r \in Reqs, Fresh(req[r]), OpenCommit(r)
    PROVE  Tables'
<1>1. PICK h, t, row : h = req[r] /\ t = Now /\ row = Opened(h.counted, h.amount, h.shift, t)
  OBVIOUS
<1>2. /\ shifts' = Append(shifts, row) /\ sales' = sales /\ moves' = moves
      /\ drawer' = drawer /\ given' = given /\ h.pc = "open.commit"
  BY <1>1 DEF OpenCommit
<1>3. PICK n : n = Len(shifts) + 1
  OBVIOUS
<1>4. /\ DOMAIN shifts' = DOMAIN shifts \cup {n} /\ n \notin DOMAIN shifts
      /\ \A i \in DOMAIN shifts : i < n /\ i \in Nat
      /\ \A i \in DOMAIN shifts : shifts'[i] = shifts[i] /\ shifts[i] \in Shift
      /\ shifts'[n] = row
  <2>1. row \in Shift /\ shifts \in Seq(Shift)
    BY <1>1, NowAhead, OpenedTyped DEF Typed, TypeOK, Handler
  <2>2. /\ Len(shifts) \in Nat /\ DOMAIN shifts = 1 .. Len(shifts)
        /\ DOMAIN shifts' = 1 .. Len(shifts) + 1
        /\ \A i \in 1 .. Len(shifts) : shifts'[i] = shifts[i]
        /\ shifts'[Len(shifts) + 1] = row
    BY <1>2, <2>1, AppendProperties, LenProperties
  <2>3. \A i \in DOMAIN shifts : shifts[i] \in Shift
    BY Rows DEF Typed
  <2> QED BY <1>3, <2>2, <2>3
<1>5. /\ row.status = "open" /\ row.opened = t /\ row.float = h.counted /\ row.before = h.amount
      /\ row.prev = h.shift /\ row.paidIn = 0 /\ row.paidOut = 0
  BY <1>1 DEF Opened
<1>6. AllClosed /\ h.counted = drawer /\ (h.shift # 0 => shifts[h.shift].counted = h.amount)
  BY <1>1, <1>2 DEF Fresh, OpeningFresh
<1>7. RowsBefore(t) /\ t \in Nat
  BY <1>1, NowAfterRows, NowAhead
<1>8. /\ \A i \in DOMAIN shifts : Closed(i) /\ Closed(i)'
      /\ ~Closed(n)'
  BY <1>4, <1>5, <1>6 DEF AllClosed, Closed
<1>9. \A u, i : i \in DOMAIN shifts => (InWindow(u, i)' <=> InWindow(u, i))
  BY <1>4, <1>8 DEF InWindow
<1>10. InOrder'
  <2> SUFFICES ASSUME NEW i \in DOMAIN shifts', NEW j \in DOMAIN shifts', i < j
               PROVE  Closed(i)' /\ shifts'[i].closed < shifts'[j].opened
    BY DEF InOrder
  <2>1. i \in DOMAIN shifts
    <3>1. i # n
      BY <1>3, <1>4, Rows DEF Typed
    <3> QED BY <1>4, <3>1
  <2>2. CASE j = n
    BY <1>4, <1>5, <1>7, <1>8, <2>1, <2>2 DEF RowsBefore
  <2>3. CASE j \in DOMAIN shifts
    BY <1>4, <1>8, <2>1, <2>3 DEF InOrder, Tables
  <2> QED BY <1>4, <2>2, <2>3
<1>11. CashSaleAssigned'
  BY <1>2, <1>4, <1>9 DEF CashSaleAssigned, Tables
<1>12. Slope'
  <2>1. h.shift # 0 => h.shift \in DOMAIN shifts
    BY <1>1, Rows DEF Typed, Holds
  <2> QED BY <1>4, <1>5, <1>6, <1>8, <2>1 DEF Slope, Tables
<1>13. \A k : Moved(n, k)' = 0 /\ \A i : Moved(i, k)' = Moved(i, k)
  <2>1. \A i, k : Moved(i, k)' = Moved(i, k)
    BY <1>2, Zenon DEF Moved
  <2>2. ASSUME NEW k PROVE Moved(n, k) = 0
    <3>1. {v \in moves : v.shift = n /\ v.kind = k} = {}
      BY <1>4 DEF Typed, TypeOK
    <3> QED BY <3>1, FS_EmptySet DEF Moved
  <2> QED BY <2>1, <2>2
<1>14. BoxFigures'
  BY <1>4, <1>5, <1>8, <1>13 DEF BoxFigures, Tables
<1>15. GivenBack' /\ RefundLater'
  BY <1>2 DEF GivenBack, RefundLater, Tables
<1>16. AllTraceable' => AllTraceable
  <2>1. \A s \in DOMAIN sales : ~InWindow(sales[s].updated, n)'
    <3>1. \A s \in DOMAIN sales : sales[s].updated \in Nat
      BY Rows DEF Typed, Sale
    <3>2. \A s \in DOMAIN sales : sales[s].updated < t
      BY <1>7 DEF RowsBefore
    <3>3. shifts'[n].opened = t
      BY <1>4, <1>5
    <3> QED BY <1>2, <1>7, <3>1, <3>2, <3>3 DEF InWindow
  <2> QED BY <1>2, <1>4, <1>9, <2>1 DEF AllTraceable, Traceable
<1>17. TotalOf(CashSales(n))' = 0
  <2>1. CashSales(n)' = {}
    <3>1. \A s \in DOMAIN sales : sales[s].completed \in Nat
      BY Rows DEF Typed, Sale
    <3> QED BY <1>2, <1>4, <1>5, <1>7, <3>1 DEF CashSales, RowsBefore
  <2>2. TotalOf({})' = 0
    BY SumEmpty DEF TotalOf
  <2> QED BY <2>1, <2>2
<1>18. Ledger'
  <2> SUFFICES ASSUME AllTraceable', NEW i \in DOMAIN shifts'
               PROVE  IF Closed(i)' THEN shifts'[i].variance = 0
                      ELSE drawer' = shifts'[i].float + TotalOf(CashSales(i))' + shifts'[i].paidIn - shifts'[i].paidOut
    BY DEF Ledger
  <2>1. CASE i = n
    <3>1. drawer \in Int
      BY DEF Typed, TypeOK
    <3> QED BY <1>2, <1>4, <1>5, <1>6, <1>8, <1>17, <2>1, <3>1
  <2>2. CASE i # n
    BY <1>4, <1>8, <1>16, <2>2 DEF Ledger, Tables
  <2> QED BY <2>1, <2>2
<1> QED BY <1>10, <1>11, <1>12, <1>14, <1>15, <1>18 DEF Tables

(* One movement more. *)
LEMMA MovedOne ==
    ASSUME IsFiniteSet(moves), NEW v, v \notin moves, moves' = moves \cup {v}, NEW i, NEW k
    PROVE  Moved(i, k)' = IF v.shift = i /\ v.kind = k THEN Moved(i, k) + 1 ELSE Moved(i, k)
<1> DEFINE A == {x \in moves : x.shift = i /\ x.kind = k}
           B == {x \in moves' : x.shift = i /\ x.kind = k}
<1>1. Moved(i, k) = Cardinality(A) /\ Moved(i, k)' = Cardinality(B) /\ IsFiniteSet(A) /\ v \notin A
  BY FS_Subset DEF Moved
<1>2. CASE v.shift = i /\ v.kind = k
  <2>1. B = A \cup {v}
    BY <1>2
  <2> HIDE DEF A, B
  <2>2. Cardinality(A \cup {v}) = Cardinality(A) + 1
    BY <1>1, FS_AddElement
  <2> QED BY <1>1, <1>2, <2>1, <2>2
<1>3. CASE ~(v.shift = i /\ v.kind = k)
  <2>1. B = A
    BY <1>3
  <2> QED BY <1>1, <1>3, <2>1
<1> QED BY <1>2, <1>3

LEMMA TablesPaidCommit ==
    ASSUME Typed, Tables, MovesNumbered, NEW r \in Reqs, Fresh(req[r]), PaidCommit(r)
    PROVE  Tables'
<1>1. PICK h, b, row, v : /\ h = req[r] /\ b = h.shift /\ row = Credited(shifts[b], h.row, h.kind)
                          /\ v = [id |-> Cardinality(moves) + 1, shift |-> b, kind |-> h.kind]
  OBVIOUS
<1>2. /\ shifts' = [shifts EXCEPT ![b] = row] /\ sales' = sales /\ given' = given
      /\ moves' = moves \cup {v} /\ h.pc = "paid.commit"
      /\ drawer' = IF h.kind = "in" THEN drawer + 1 ELSE drawer - 1
  BY <1>1 DEF PaidCommit
<1>3. b \in DOMAIN shifts /\ h.kind \in {"in", "out"} /\ ~Closed(b) /\ h.row = shifts[b]
  BY <1>1, <1>2, Rows DEF Typed, Holds, Fresh, BoxFresh
<1>4. /\ DOMAIN shifts' = DOMAIN shifts
      /\ \A i \in DOMAIN shifts : shifts'[i] = IF i = b THEN row ELSE shifts[i]
      /\ \A i \in DOMAIN shifts : shifts[i] \in Shift
  BY <1>2, <1>3, Rows DEF Typed
<1>5. row = IF h.kind = "in" THEN [shifts[b] EXCEPT !.paidIn = shifts[b].paidIn + 1]
            ELSE [shifts[b] EXCEPT !.paidOut = shifts[b].paidOut + 1]
  BY <1>1, <1>3 DEF Credited
<1>6. /\ row.status = shifts[b].status /\ row.opened = shifts[b].opened /\ row.closed = shifts[b].closed
      /\ row.float = shifts[b].float /\ row.prev = shifts[b].prev /\ row.before = shifts[b].before
      /\ row.counted = shifts[b].counted /\ row.variance = shifts[b].variance
      /\ row.paidIn = IF h.kind = "in" THEN shifts[b].paidIn + 1 ELSE shifts[b].paidIn
      /\ row.paidOut = IF h.kind = "in" THEN shifts[b].paidOut ELSE shifts[b].paidOut + 1
  BY <1>3, <1>4, <1>5 DEF Shift
<1>7. /\ \A i \in DOMAIN shifts : Closed(i)' <=> Closed(i)
      /\ \A u, i : i \in DOMAIN shifts => (InWindow(u, i)' <=> InWindow(u, i))
  BY <1>4, <1>6 DEF Closed, InWindow
<1>8. InOrder' /\ CashSaleAssigned' /\ GivenBack' /\ RefundLater'
  BY <1>2, <1>4, <1>6, <1>7 DEF Tables, InOrder, CashSaleAssigned, GivenBack, RefundLater
<1>9. Slope'
  BY <1>4, <1>6, <1>7 DEF Tables, Slope
<1>10. \A i, k : Moved(i, k)' = IF b = i /\ h.kind = k THEN Moved(i, k) + 1 ELSE Moved(i, k)
  <2>1. v \notin moves /\ v.shift = b /\ v.kind = h.kind
    <3>1. Cardinality(moves) \in Nat
      BY FS_CardinalityType DEF Typed
    <3> QED BY <1>1, <3>1 DEF MovesNumbered
  <2> QED BY <1>2, <2>1, MovedOne DEF Typed
<1>11. BoxFigures'
  <2>1. ~Closed(b)'
    BY <1>3, <1>7
  <2>2. \A i \in DOMAIN shifts :
           shifts'[i].paidIn = Moved(i, "in")' /\ shifts'[i].paidOut = Moved(i, "out")'
    BY <1>3, <1>4, <1>6, <1>10 DEF Tables, BoxFigures
  <2> QED BY <1>4, <1>7, <2>1, <2>2 DEF Tables, BoxFigures
<1>12. AllTraceable' <=> AllTraceable
  BY <1>2, <1>4, <1>7 DEF AllTraceable, Traceable
<1>13. \A i \in DOMAIN shifts : TotalOf(CashSales(i))' = TotalOf(CashSales(i))
  <2>1. \A i \in DOMAIN shifts : shifts'[i].opened = shifts[i].opened
    BY <1>4, <1>6
  <2>2. \A i \in DOMAIN shifts : CashSales(i)' = CashSales(i)
    BY <1>2, <2>1 DEF CashSales
  <2> QED BY <1>2, <2>2, SameTotals DEF TotalOf
<1>14. Ledger'
  <2> SUFFICES ASSUME AllTraceable', NEW i \in DOMAIN shifts
               PROVE  IF Closed(i)' THEN shifts'[i].variance = 0
                      ELSE drawer' = shifts'[i].float + TotalOf(CashSales(i))' + shifts'[i].paidIn - shifts'[i].paidOut
    BY <1>4 DEF Ledger
  <2>1. IF Closed(i) THEN shifts[i].variance = 0
        ELSE drawer = shifts[i].float + TotalOf(CashSales(i)) + shifts[i].paidIn - shifts[i].paidOut
    BY <1>12 DEF Tables, Ledger
  <2>2. CASE i # b
    <3>1. Closed(i)
      BY <1>3, <1>4, <2>2, Rows DEF Tables, InOrder, Typed
    <3> QED BY <1>4, <1>7, <2>1, <2>2, <3>1
  <2>3. CASE i = b
    <3>1. TotalOf(CashSales(i)) \in Nat
      BY TotalTyped DEF CashSales
    <3>2. drawer \in Int /\ shifts[b].float \in Int /\ shifts[b].paidIn \in Nat /\ shifts[b].paidOut \in Nat
      BY <1>3, <1>4 DEF Typed, TypeOK, Shift
    <3>3. drawer = shifts[b].float + TotalOf(CashSales(i)) + shifts[b].paidIn - shifts[b].paidOut
      BY <1>3, <2>1, <2>3
    <3>4. TotalOf(CashSales(i))' = TotalOf(CashSales(i)) /\ ~Closed(i)' /\ shifts'[i] = row
      BY <1>3, <1>4, <1>7, <1>13, <2>3
    <3> QED BY <1>2, <1>6, <3>1, <3>2, <3>3, <3>4
  <2> QED BY <2>2, <2>3
<1> QED BY <1>8, <1>9, <1>11, <1>14 DEF Tables

LEMMA TablesCloseCommit ==
    ASSUME Typed, Tables, NEW r \in Reqs, Fresh(req[r]), CloseCommit(r)
    PROVE  Tables'
<1>1. PICK h, b, row, e, n : /\ h = req[r] /\ b = h.shift /\ row = ClosingRow(shifts[b], h)
                             /\ e = ExpectedCash(h.row, h.cash, h.refunds)
                             /\ n = IF h.kind = "count" THEN h.counted ELSE e
  OBVIOUS
<1>2. /\ shifts' = [shifts EXCEPT ![b] = row] /\ sales' = sales /\ given' = given
      /\ moves' = moves /\ h.pc = "close.commit" /\ drawer' = drawer
  BY <1>1 DEF CloseCommit
<1>3. /\ b \in DOMAIN shifts /\ ~Closed(b) /\ h.row = shifts[b] /\ h.counted = drawer /\ RowsBefore(h.at)
      /\ h.cash = TotalOf(CashWith("completed", Window(h.row.opened, h.at)))
      /\ h.refunds = TotalOf(CashWith("refunded", Window(h.row.opened, h.at)))
  BY <1>1, <1>2, Rows DEF Typed, Holds, Fresh, BoxFresh, ClosingFresh
<1>4. /\ DOMAIN shifts' = DOMAIN shifts
      /\ \A i \in DOMAIN shifts : shifts'[i] = IF i = b THEN row ELSE shifts[i]
      /\ \A i \in DOMAIN shifts : shifts[i] \in Shift
  BY <1>2, <1>3, Rows DEF Typed
<1>5. row = [shifts[b] EXCEPT !.status = "closed", !.closed = h.at, !.cash = h.cash,
                   !.refunds = h.refunds, !.expected = e, !.counted = n,
                   !.variance = n - e, !.verified = Verified(shifts[b], h.kind),
                   !.forced = IF h.kind = "count" THEN @ ELSE TRUE]
  BY <1>1, Zenon DEF ClosingRow, Variance
<1>6. /\ row.status = "closed" /\ row.opened = shifts[b].opened /\ row.closed = h.at
      /\ row.float = shifts[b].float /\ row.prev = shifts[b].prev /\ row.before = shifts[b].before
      /\ row.paidIn = shifts[b].paidIn /\ row.paidOut = shifts[b].paidOut
      /\ row.cash = h.cash /\ row.refunds = h.refunds
      /\ row.expected = e /\ row.variance = n - e
  BY <1>3, <1>4, <1>5 DEF Shift
<1>7. /\ \A i \in DOMAIN shifts : Closed(i)' <=> (Closed(i) \/ i = b)
      /\ \A i \in DOMAIN shifts : i # b => shifts'[i] = shifts[i]
  BY <1>3, <1>4, <1>6 DEF Closed
<1>8. \A i \in DOMAIN shifts : i # b => Closed(i)
  BY <1>3, Rows DEF Tables, InOrder, Typed
<1>9. InOrder'
  <2> SUFFICES ASSUME NEW i \in DOMAIN shifts, NEW j \in DOMAIN shifts, i < j
               PROVE  Closed(i)' /\ shifts'[i].closed < shifts'[j].opened
    BY <1>4 DEF InOrder
  <2>1. Closed(i) /\ shifts[i].closed < shifts[j].opened /\ i # b
    BY <1>3 DEF Tables, InOrder
  <2> QED BY <1>4, <1>6, <1>7, <2>1
<1>10. ASSUME NEW u, NEW i \in DOMAIN shifts, InWindow(u, i)' PROVE InWindow(u, i)
  BY <1>3, <1>4, <1>6, <1>7, <1>10 DEF InWindow
<1>11. CashSaleAssigned'
  <2> SUFFICES ASSUME NEW s \in DOMAIN sales, sales[s].method = "cash"
               PROVE  \E i \in DOMAIN shifts : InWindow(sales[s].completed, i)'
    BY <1>2, <1>4 DEF CashSaleAssigned
  <2>1. PICK i \in DOMAIN shifts : InWindow(sales[s].completed, i)
    BY DEF Tables, CashSaleAssigned
  <2>2. sales[s].completed <= h.at
    <3>1. h.at \in Nat /\ sales[s].completed \in Nat
      BY <1>1, Rows DEF Typed, Handler, Sale
    <3> QED BY <1>3, <3>1 DEF RowsBefore
  <2>3. InWindow(sales[s].completed, i)'
    BY <1>2, <1>4, <1>6, <1>7, <2>1, <2>2 DEF InWindow
  <2> QED BY <2>3
<1>12. Slope'
  <2> SUFFICES ASSUME NEW i \in DOMAIN shifts, shifts'[i].prev # 0
               PROVE  (/\ shifts[i].prev \in DOMAIN shifts /\ Closed(shifts[i].prev)
                       /\ shifts[shifts[i].prev].counted = shifts[i].before)'
    BY <1>4 DEF Slope
  <2>1. shifts'[i].prev = shifts[i].prev /\ shifts'[i].before = shifts[i].before
    BY <1>4, <1>6
  <2>2. /\ shifts[i].prev \in DOMAIN shifts /\ Closed(shifts[i].prev)
        /\ shifts[shifts[i].prev].counted = shifts[i].before
    BY <2>1 DEF Tables, Slope
  <2>3. shifts[i].prev # b
    BY <1>3, <2>2
  <2>4. shifts'[shifts[i].prev] = shifts[shifts[i].prev] /\ shifts[i].prev \in DOMAIN shifts'
    BY <1>4, <2>2, <2>3
  <2>5. (Closed(shifts[i].prev))'
    BY <2>1, <2>2, <2>4 DEF Closed
  <2> QED BY <2>1, <2>2, <2>4, <2>5
<1>13. \A i, k : Moved(i, k)' = Moved(i, k)
  BY <1>2, Zenon DEF Moved
<1>14. BoxFigures'
  <2> SUFFICES ASSUME NEW i \in DOMAIN shifts
               PROVE  /\ Closed(i)' => shifts'[i].expected = ExpectedCash(shifts'[i], shifts'[i].cash, shifts'[i].refunds)
                      /\ shifts'[i].paidIn = Moved(i, "in") /\ shifts'[i].paidOut = Moved(i, "out")
    BY <1>4, <1>13 DEF BoxFigures, ExpectedCash
  <2>1. CASE i # b
    BY <1>7, <1>8, <2>1 DEF Tables, BoxFigures
  <2>2. CASE i = b
    <3>1. row.expected = ExpectedCash(row, row.cash, row.refunds)
      BY <1>1, <1>3, <1>6 DEF ExpectedCash
    <3> QED BY <1>3, <1>4, <1>6, <2>2, <3>1 DEF Tables, BoxFigures
  <2> QED BY <2>1, <2>2
<1>15. GivenBack' /\ RefundLater'
  BY <1>2 DEF GivenBack, RefundLater, Tables
<1>16. AllTraceable' => AllTraceable
  BY <1>2, <1>4, <1>10 DEF AllTraceable, Traceable
<1>17. h.cash = TotalOf(CashSales(b))
  <2>1. CashWith("completed", Window(h.row.opened, h.at)) = CashSales(b)
    <3>1. h.at \in Nat /\ \A s \in DOMAIN sales : sales[s].completed \in Nat
      BY <1>1, Rows DEF Typed, Handler, Sale
    <3>2. \A s \in DOMAIN sales : sales[s].completed <= h.at
      BY <1>3, <3>1 DEF RowsBefore
    <3> QED BY <1>3, <3>2 DEF CashWith, Window, CashSales
  <2> QED BY <1>3, <2>1
<1>18. AllTraceable => h.refunds = 0
  <2> SUFFICES ASSUME AllTraceable PROVE h.refunds = 0
    OBVIOUS
  <2>1. \A s \in DOMAIN sales : sales[s].status # "refunded"
    BY DEF AllTraceable, Traceable, Tables, RefundLater
  <2>2. CashWith("refunded", Window(h.row.opened, h.at)) = {}
    BY <2>1 DEF CashWith, Window
  <2>3. TotalOf({}) = 0
    BY SumEmpty DEF TotalOf
  <2> QED BY <1>3, <2>2, <2>3
<1>19. Ledger'
  <2> SUFFICES ASSUME AllTraceable', NEW i \in DOMAIN shifts
               PROVE  Closed(i)' /\ shifts'[i].variance = 0
    BY <1>4 DEF Ledger
  <2>1. CASE i # b
    BY <1>7, <1>8, <1>16, <2>1 DEF Tables, Ledger
  <2>2. CASE i = b
    <3>1. drawer = shifts[b].float + TotalOf(CashSales(b)) + shifts[b].paidIn - shifts[b].paidOut
      BY <1>3, <1>16 DEF Tables, Ledger
    <3>2. e = shifts[b].float + TotalOf(CashSales(b)) + shifts[b].paidIn - shifts[b].paidOut - 0
      BY <1>1, <1>3, <1>16, <1>17, <1>18 DEF ExpectedCash
    <3>3. TotalOf(CashSales(b)) \in Nat
      BY TotalTyped DEF CashSales
    <3>4. shifts[b].float \in Int /\ shifts[b].paidIn \in Nat /\ shifts[b].paidOut \in Nat
      BY <1>3, <1>4 DEF Shift
    <3>5. drawer = e /\ e \in Int
      BY <3>1, <3>2, <3>3, <3>4
    <3>6. n = e
      BY <1>1, <1>3, <3>5
    <3> QED BY <1>4, <1>6, <1>7, <2>2, <3>5, <3>6
  <2> QED BY <2>1, <2>2
<1> QED BY <1>9, <1>11, <1>12, <1>14, <1>15, <1>19 DEF Tables

(* The total of some sales after one more, and after one of them changed. *)
LEMMA TotalOneMore ==
    ASSUME Typed, NEW S \in SUBSET DOMAIN sales, NEW n, n \notin S, sales'[n].total \in Int,
           \A s \in S : sales'[s] = sales[s]
    PROVE  /\ (TotalOf(S))' = TotalOf(S)
           /\ (TotalOf(S \cup {n}))' = TotalOf(S) + sales'[n].total
<1> DEFINE f == [i \in S |-> sales[i].total]
           g == [i \in S |-> sales'[i].total]
           e == [i \in S \cup {n} |-> sales'[i].total]
<1>1. IsFiniteSet(S)
  BY Rows, FS_Subset DEF Typed
<1>2. \A i \in S : f[i] \in Int /\ f[i] = e[i] /\ f[i] = g[i]
  BY Rows DEF Typed, Sale
<1>3. e[n] = sales'[n].total /\ \A i \in S \cup {n} : e[i] \in Int
  BY <1>2
<1>4. /\ TotalOf(S) = SumFunctionOnSet(f, S) /\ (TotalOf(S))' = SumFunctionOnSet(g, S)
      /\ (TotalOf(S \cup {n}))' = SumFunctionOnSet(e, S \cup {n})
  BY Zenon DEF TotalOf
<1> HIDE DEF f, g, e
<1>5. SumFunctionOnSet(g, S) = SumFunctionOnSet(f, S)
  BY <1>1, <1>2, SumSame
<1>6. SumFunctionOnSet(e, S) = SumFunctionOnSet(f, S)
  BY <1>1, <1>2, SumSame
<1>7. SumFunctionOnSet(e, S \cup {n}) = e[n] + SumFunctionOnSet(e, S)
  BY <1>1, <1>3, SumAdd
<1>8. SumFunctionOnSet(f, S) \in Int
  BY <1>1, <1>2, SumType
<1> QED BY <1>3, <1>4, <1>5, <1>6, <1>7, <1>8

LEMMA TotalOneChanged ==
    ASSUME Typed, NEW S \in SUBSET DOMAIN sales, NEW n \in S, sales'[n].total \in Int,
           \A s \in S \ {n} : sales'[s] = sales[s]
    PROVE  (TotalOf(S))' = TotalOf(S) - sales[n].total + sales'[n].total
<1> DEFINE f == [i \in S |-> sales[i].total]
           g == [i \in S |-> sales'[i].total]
<1>1. IsFiniteSet(S)
  BY Rows, FS_Subset DEF Typed
<1>2. \A i \in S : f[i] \in Int /\ g[i] \in Int
  BY Rows DEF Typed, Sale
<1>3. f[n] = sales[n].total /\ g[n] = sales'[n].total /\ \A i \in S \ {n} : g[i] = f[i]
  OBVIOUS
<1>4. TotalOf(S) = SumFunctionOnSet(f, S) /\ (TotalOf(S))' = SumFunctionOnSet(g, S)
  BY Zenon DEF TotalOf
<1> HIDE DEF f, g
<1>5. SumFunctionOnSet(g, S) = (SumFunctionOnSet(f, S) - f[n]) + g[n]
  BY <1>1, <1>2, <1>3, SumChange
<1> QED BY <1>3, <1>4, <1>5

LEMMA TablesSaleCommit ==
    ASSUME Typed, Tables, NEW r \in Reqs, Fresh(req[r]), SaleCommit(r)
    PROVE  Tables'
<1>1. PICK h, n, sale : /\ h = req[r] /\ n = Len(sales) + 1
                        /\ sale = [method |-> h.kind, status |-> "completed", total |-> SaleTotal,
                                   completed |-> h.at, updated |-> 0]
  OBVIOUS
<1>2. /\ shifts' = shifts /\ moves' = moves /\ h.pc = "sale.commit"
      /\ sales' = Append(sales, sale) /\ given' = Append(given, 0)
      /\ drawer' = IF h.kind = "cash" THEN drawer + SaleTotal ELSE drawer
  BY <1>1 DEF SaleCommit
<1>3. sale.method = h.kind /\ sale.status = "completed" /\ sale.total = SaleTotal
      /\ sale.completed = h.at /\ sale.updated = 0
  BY <1>1
<1>4. /\ RowsBefore(h.at) /\ h.at \in Nat /\ h.kind \in Methods
      /\ h.kind = "cash" => ~AllClosed
  BY <1>1, <1>2 DEF Fresh, SaleFresh, Typed, Handler, Holds
<1>5. /\ DOMAIN sales' = DOMAIN sales \cup {n} /\ n \notin DOMAIN sales
      /\ \A s \in DOMAIN sales : sales'[s] = sales[s] /\ given'[s] = given[s]
      /\ sales'[n] = sale /\ given'[n] = 0
  <2>1. sale \in Sale
    BY <1>1, <1>4, CashAssumption DEF Sale
  <2>2. sales \in Seq(Sale) /\ given \in Seq(Nat) /\ Len(given) = Len(sales)
    BY DEF Typed, TypeOK, Sale
  <2>3. /\ Len(sales) \in Nat /\ DOMAIN sales = 1 .. Len(sales) /\ DOMAIN sales' = 1 .. Len(sales) + 1
        /\ \A s \in 1 .. Len(sales) : sales'[s] = sales[s]
        /\ sales'[Len(sales) + 1] = sale
    BY <1>2, <2>1, <2>2, AppendProperties, LenProperties
  <2>4. /\ \A s \in 1 .. Len(sales) : given'[s] = given[s]
        /\ given'[Len(sales) + 1] = 0
    BY <1>2, <2>2, AppendProperties
  <2> QED BY <1>1, <2>3, <2>4
<1>6. InOrder' /\ Slope' /\ AllClosed' = AllClosed
  BY <1>2 DEF Tables, InOrder, Slope, Closed, AllClosed
<1>7. /\ \A i : Closed(i)' <=> Closed(i)
      /\ \A u, i : InWindow(u, i)' <=> InWindow(u, i)
  BY <1>2 DEF Closed, InWindow
<1>8. BoxFigures'
  <2>1. \A i, k : Moved(i, k)' = Moved(i, k)
    BY <1>2, Zenon DEF Moved
  <2> QED BY <1>2, <1>7, <2>1 DEF Tables, BoxFigures
<1>9. CashSaleAssigned'
  <2> SUFFICES ASSUME NEW s \in DOMAIN sales', sales'[s].method = "cash"
               PROVE  \E i \in DOMAIN shifts : InWindow(sales'[s].completed, i)
    BY <1>2, <1>7 DEF CashSaleAssigned
  <2>1. CASE s = n
    <3>1. PICK i \in DOMAIN shifts : ~Closed(i)
      BY <1>3, <1>4, <1>5, <2>1 DEF AllClosed
    <3>2. shifts[i].opened <= h.at
      <4>1. shifts[i].opened \in Nat
        BY Rows DEF Typed, Shift
      <4> QED BY <1>4, <4>1 DEF RowsBefore
    <3> QED BY <1>3, <1>5, <2>1, <3>1, <3>2 DEF InWindow
  <2>2. CASE s \in DOMAIN sales
    BY <1>5, <2>2 DEF Tables, CashSaleAssigned
  <2> QED BY <1>5, <2>1, <2>2
<1>10. GivenBack' /\ RefundLater'
  BY <1>3, <1>5, CashAssumption DEF Tables, GivenBack, RefundLater
<1>11. AllTraceable' => AllTraceable
  BY <1>2, <1>5, <1>7 DEF AllTraceable, Traceable
<1>12. ASSUME NEW i \in DOMAIN shifts, ~Closed(i)
       PROVE  TotalOf(CashSales(i))' = IF h.kind = "cash" THEN TotalOf(CashSales(i)) + SaleTotal
                                       ELSE TotalOf(CashSales(i))
  <2>1. PICK S : S = CashSales(i)
    OBVIOUS
  <2>2. S \in SUBSET DOMAIN sales /\ n \notin S
    BY <1>5, <2>1 DEF CashSales
  <2>3. /\ (TotalOf(S))' = TotalOf(S)
        /\ (TotalOf(S \cup {n}))' = TotalOf(S) + SaleTotal
    <3>1. sales'[n].total \in Int /\ sales'[n].total = SaleTotal
      BY <1>3, <1>5, CashAssumption
    <3> QED BY <1>5, <2>2, <3>1, TotalOneMore
  <2>4. shifts[i].opened <= h.at
    <3>1. shifts[i].opened \in Nat
      BY Rows DEF Typed, Shift
    <3> QED BY <1>4, <3>1 DEF RowsBefore
  <2>5. CashSales(i)' = IF h.kind = "cash" THEN S \cup {n} ELSE S
    BY <1>2, <1>3, <1>5, <2>1, <2>4 DEF CashSales
  <2>6. CASE h.kind = "cash"
    BY <2>1, <2>3, <2>5, <2>6 DEF TotalOf
  <2>7. CASE h.kind # "cash"
    BY <2>1, <2>3, <2>5, <2>7 DEF TotalOf
  <2> QED BY <2>6, <2>7
<1>13. Ledger'
  <2> SUFFICES ASSUME AllTraceable', NEW i \in DOMAIN shifts
               PROVE  IF Closed(i) THEN shifts[i].variance = 0
                      ELSE drawer' = shifts[i].float + TotalOf(CashSales(i))' + shifts[i].paidIn - shifts[i].paidOut
    BY <1>2, <1>7 DEF Ledger
  <2>1. CASE Closed(i)
    BY <1>11, <2>1 DEF Tables, Ledger
  <2>2. CASE ~Closed(i)
    <3>1. drawer = shifts[i].float + TotalOf(CashSales(i)) + shifts[i].paidIn - shifts[i].paidOut
      BY <1>11, <2>2 DEF Tables, Ledger
    <3>2. TotalOf(CashSales(i)) \in Nat /\ SaleTotal \in Nat
      BY TotalTyped, CashAssumption DEF CashSales
    <3>3. shifts[i].float \in Int /\ shifts[i].paidIn \in Nat /\ shifts[i].paidOut \in Nat
      BY Rows DEF Typed, Shift
    <3>4. drawer' - drawer = TotalOf(CashSales(i))' - TotalOf(CashSales(i))
      <4>1. drawer \in Int
        BY DEF Typed, TypeOK
      <4> QED BY <1>2, <1>12, <2>2, <3>2, <4>1
    <3>5. drawer \in Int /\ drawer' \in Int /\ TotalOf(CashSales(i))' \in Int
      BY <1>2, <1>12, <2>2, <3>2 DEF Typed, TypeOK
    <3> QED BY <2>2, <3>1, <3>2, <3>3, <3>4, <3>5
  <2> QED BY <2>1, <2>2
<1> QED BY <1>6, <1>8, <1>9, <1>10, <1>13 DEF Tables

LEMMA TablesRefundCommit ==
    ASSUME Typed, Tables, NEW r \in Reqs, Fresh(req[r]), RefundCommit(r)
    PROVE  Tables'
<1>1. PICK h, n, net, sale : /\ h = req[r] /\ n = h.sale /\ net = h.counted - h.amount
                             /\ sale = Refunded(sales[n], net, h.at)
  OBVIOUS
<1>2. /\ shifts' = shifts /\ moves' = moves /\ h.pc = "refund.commit"
      /\ sales' = [sales EXCEPT ![n] = sale] /\ given' = [given EXCEPT ![n] = @ + h.amount]
      /\ drawer' = drawer - h.amount
  BY <1>1 DEF RefundCommit
<1>3. /\ n \in DOMAIN sales /\ sales[n].status = "completed" /\ h.counted = sales[n].total
      /\ h.amount <= sales[n].total /\ RowsBefore(h.at) /\ h.at \in Nat
      /\ h.amount \in 1 .. SaleTotal /\ sales[n] \in Sale
  BY <1>1, <1>2, Rows DEF Typed, Handler, Holds, Fresh, RefundFresh
<1>4. /\ DOMAIN sales' = DOMAIN sales
      /\ \A s \in DOMAIN sales : sales'[s] = IF s = n THEN sale ELSE sales[s]
      /\ \A s \in DOMAIN sales : given'[s] = IF s = n THEN given[s] + h.amount ELSE given[s]
      /\ \A s \in DOMAIN sales : sales[s] \in Sale /\ given[s] \in Nat
  BY <1>2, <1>3, Rows DEF Typed
<1>5. sales[n].total \in 1 .. SaleTotal /\ SaleTotal \in Nat /\ net = sales[n].total - h.amount /\ net \in Nat
  BY <1>1, <1>3, CashAssumption DEF Sale
<1>6. /\ sale.method = sales[n].method /\ sale.completed = sales[n].completed /\ sale.updated = h.at
      /\ sale.status = IF net > 0 THEN "completed" ELSE "refunded"
      /\ sale.total = IF net > 0 THEN net ELSE sales[n].total
  <2>1. CASE net > 0
    <3>1. sale = [sales[n] EXCEPT !.total = net, !.updated = h.at]
      BY <1>1, <2>1 DEF Refunded
    <3> QED BY <1>3, <2>1, <3>1 DEF Sale
  <2>2. CASE ~(net > 0)
    <3>1. sale = [sales[n] EXCEPT !.status = "refunded", !.updated = h.at]
      BY <1>1, <2>2 DEF Refunded
    <3> QED BY <1>3, <2>2, <3>1 DEF Sale
  <2> QED BY <2>1, <2>2
<1>7. /\ sales[n].updated \in Nat /\ sales[n].updated < h.at /\ sales[n].completed \in Nat
      /\ sales[n].completed < h.at /\ h.at # 0
  BY <1>3 DEF Sale, RowsBefore
<1>8. /\ InOrder' /\ Slope' /\ \A i : Closed(i)' <=> Closed(i)
      /\ \A u, i : InWindow(u, i)' <=> InWindow(u, i)
  BY <1>2 DEF Tables, InOrder, Slope, Closed, InWindow
<1>9. BoxFigures'
  <2>1. \A i, k : Moved(i, k)' = Moved(i, k)
    BY <1>2, Zenon DEF Moved
  <2> QED BY <1>2, <1>8, <2>1 DEF Tables, BoxFigures
<1>10. CashSaleAssigned'
  BY <1>2, <1>4, <1>6, <1>8 DEF Tables, CashSaleAssigned
<1>11. GivenBack'
  <2> SUFFICES ASSUME NEW s \in DOMAIN sales
               PROVE  /\ given'[s] <= SaleTotal
                      /\ sales'[s].status = "completed" => given'[s] + sales'[s].total = SaleTotal
    BY <1>4 DEF GivenBack
  <2>1. CASE s = n
    <3>1. given[n] + sales[n].total = SaleTotal
      BY <1>3 DEF Tables, GivenBack
    <3> QED BY <1>3, <1>4, <1>5, <1>6, <2>1, <3>1
  <2>2. CASE s # n
    BY <1>4, <2>2 DEF Tables, GivenBack
  <2> QED BY <2>1, <2>2
<1>12. RefundLater'
  <2>1. sale.completed <= sale.updated /\ sale.updated # 0
    BY <1>3, <1>6, <1>7
  <2>2. \A s \in DOMAIN sales : s # n => sales'[s] = sales[s]
    BY <1>4
  <2>3. sales'[n] = sale
    BY <1>3, <1>4
  <2> QED BY <1>4, <2>1, <2>2, <2>3 DEF Tables, RefundLater
<1>13. ASSUME AllTraceable'
       PROVE  /\ sales[n].method = "cash" /\ net > 0
              /\ \E i \in DOMAIN shifts : ~Closed(i) /\ shifts[i].opened <= sales[n].completed
  <2>1. Traceable(n)'
    BY <1>2, <1>3, <1>4, <1>13 DEF AllTraceable
  <2>2. /\ sale.method = "cash" /\ sale.status = "completed"
        /\ \E i \in DOMAIN shifts : InWindow(sale.completed, i) /\ InWindow(sale.updated, i)
    BY <1>2, <1>3, <1>4, <1>6, <1>7, <1>8, <2>1 DEF Traceable
  <2>3. PICK i \in DOMAIN shifts : InWindow(sales[n].completed, i) /\ InWindow(h.at, i)
    BY <1>6, <2>2
  <2>4. ~Closed(i)
    <3>1. shifts[i].closed \in Nat /\ shifts[i].closed < h.at
      BY <1>3, Rows DEF RowsBefore, Typed, Shift
    <3> QED BY <1>3, <2>3, <3>1 DEF InWindow
  <2> QED BY <1>6, <2>2, <2>3, <2>4 DEF InWindow
<1>14. AllTraceable' => AllTraceable
  <2> SUFFICES ASSUME AllTraceable', NEW s \in DOMAIN sales PROVE Traceable(s)
    BY DEF AllTraceable
  <2>1. CASE s # n
    BY <1>2, <1>4, <1>8, <2>1 DEF AllTraceable, Traceable
  <2>2. CASE s = n
    <3>1. PICK i \in DOMAIN shifts : ~Closed(i) /\ shifts[i].opened <= sales[n].completed
      BY <1>13
    <3>2. sales[n].updated # 0 => shifts[i].opened <= sales[n].updated
      <4>1. shifts[i].opened \in Nat
        BY Rows DEF Typed, Shift
      <4> QED BY <1>3, <1>7, <3>1, <4>1 DEF Tables, RefundLater
    <3> QED BY <1>3, <1>13, <2>2, <3>1, <3>2 DEF Traceable, InWindow
  <2> QED BY <2>1, <2>2
<1>15. Ledger'
  <2> SUFFICES ASSUME AllTraceable', NEW i \in DOMAIN shifts
               PROVE  IF Closed(i) THEN shifts[i].variance = 0
                      ELSE drawer' = shifts[i].float + TotalOf(CashSales(i))' + shifts[i].paidIn - shifts[i].paidOut
    BY <1>2, <1>8 DEF Ledger
  <2>1. CASE Closed(i)
    BY <1>14, <2>1 DEF Tables, Ledger
  <2>2. CASE ~Closed(i)
    <3>1. drawer = shifts[i].float + TotalOf(CashSales(i)) + shifts[i].paidIn - shifts[i].paidOut
      BY <1>14, <2>2 DEF Tables, Ledger
    <3>2. shifts[i].opened <= sales[n].completed
      <4>1. PICK j \in DOMAIN shifts : ~Closed(j) /\ shifts[j].opened <= sales[n].completed
        BY <1>13
      <4>2. i = j
        BY <2>2, <4>1, Rows DEF Tables, InOrder, Typed
      <4> QED BY <4>1, <4>2
    <3>3. PICK S : S = CashSales(i)
      OBVIOUS
    <3>4. S \in SUBSET DOMAIN sales /\ n \in S
      BY <1>3, <1>13, <3>2, <3>3 DEF CashSales
    <3>5. CashSales(i)' = S
      BY <1>2, <1>3, <1>4, <1>6, <1>13, <3>3 DEF CashSales
    <3>6. (TotalOf(S))' = TotalOf(S) - sales[n].total + net
      <4>1. sales'[n].total = net /\ net \in Int
        BY <1>3, <1>4, <1>5, <1>6, <1>13
      <4>2. \A s \in S \ {n} : sales'[s] = sales[s]
        BY <1>4, <3>4
      <4> QED BY <3>4, <4>1, <4>2, TotalOneChanged
    <3>7. TotalOf(CashSales(i))' = TotalOf(CashSales(i)) - sales[n].total + net
      BY <3>3, <3>5, <3>6 DEF TotalOf
    <3>8. TotalOf(CashSales(i)) \in Nat
      BY TotalTyped DEF CashSales
    <3>9. shifts[i].float \in Int /\ shifts[i].paidIn \in Nat /\ shifts[i].paidOut \in Nat
      BY Rows DEF Typed, Shift
    <3>10. drawer \in Int /\ h.amount \in Int /\ sales[n].total \in Int
      BY <1>3, <1>5 DEF Typed, TypeOK
    <3> QED BY <1>2, <1>5, <2>2, <3>1, <3>7, <3>8, <3>9, <3>10
  <2> QED BY <2>1, <2>2
<1> QED BY <1>8, <1>9, <1>10, <1>11, <1>12, <1>15 DEF Tables
-----------------------------------------------------------------------------
LEMMA SerialInit == Init => SerialInv
<1> SUFFICES ASSUME Init PROVE SerialInv
  OBVIOUS
<1>1. DOMAIN shifts = {} /\ DOMAIN sales = {}
  BY DEF Init
<1>2. Tables
  BY <1>1 DEF Tables, InOrder, CashSaleAssigned, Slope, BoxFigures, GivenBack, RefundLater, Ledger
<1>3. \A r \in Reqs : req[r] = Idle
  BY DEF Init
<1> QED BY <1>2, <1>3 DEF SerialInv, Fresh, OpeningFresh, BoxFresh, ClosingFresh, SaleFresh,
                          RefundFresh, Idle

LEMMA SerialNext ==
    ASSUME OneHandler, Typed, PaidInv, SerialInv, [Next]_vars
    PROVE  SerialInv'
<1>1. Tables /\ \A r \in Reqs : Fresh(req[r])
  BY DEF SerialInv
<1>2. CASE UNCHANGED vars
  <2>1. Tables'
    BY <1>1, <1>2, TablesStay DEF vars
  <2>2. \A r \in Reqs : Fresh(req[r])'
    <3>1. UNCHANGED <<shifts, sales, drawer, req>>
      BY <1>2 DEF vars, rows
    <3>2. \A S : TotalOf(S)' = TotalOf(S)
      BY <3>1, SameTotals
    <3>3. \A from, to, st : TotalOf(CashWith(st, Window(from, to)))' = TotalOf(CashWith(st, Window(from, to)))
      BY <3>1, Zenon DEF TotalOf, CashWith, Window
    <3> QED BY <1>1, <3>1, <3>3 DEF Fresh, OpeningFresh, BoxFresh, ClosingFresh, SaleFresh, RefundFresh,
                                    AllClosed, Closed, RowsBefore
  <2> QED BY <2>1, <2>2 DEF SerialInv
<1>3. ASSUME NEW r \in Reqs, req' = [req EXCEPT ![r] = Idle] PROVE \A q \in Reqs : Fresh(req[q])'
  BY <1>3, IdleFresh, AloneFresh
<1>4. CASE Next
  <2>1. PICK r \in Reqs : Acts(r)
    BY <1>4, NextActs
  <2>2. CASE OpenCheck(r) \/ OpenExpect(r)
    <3>1. UNCHANGED <<rows, drawer, counts, given>>
      BY <2>2 DEF OpenCheck, OpenExpect
    <3> QED BY <1>1, <2>2, <3>1, TablesStay, FreshOpenCheck, FreshOpenExpect DEF SerialInv
  <2>3. ASSUME NEW k \in {"in", "out"}, PaidRead(r, k) PROVE SerialInv'
    <3>1. UNCHANGED <<rows, drawer, counts, given>>
      BY <2>3 DEF PaidRead
    <3> QED BY <1>1, <2>3, <3>1, TablesStay, FreshPaidRead DEF SerialInv
  <2>4. ASSUME NEW k \in {"count", "force"}, CloseRead(r, k) PROVE SerialInv'
    <3>1. UNCHANGED <<rows, drawer, counts, given>>
      BY <2>4 DEF CloseRead
    <3> QED BY <1>1, <2>4, <3>1, TablesStay, FreshCloseRead DEF SerialInv
  <2>5. CASE CloseSum(r)
    <3>1. UNCHANGED <<rows, drawer, counts, given>>
      BY <2>5 DEF CloseSum
    <3> QED BY <1>1, <2>5, <3>1, TablesStay, FreshCloseSum DEF SerialInv
  <2>6. ASSUME NEW m \in Methods, SaleGate(r, m) PROVE SerialInv'
    <3>1. UNCHANGED <<rows, drawer, counts, given>>
      BY <2>6 DEF SaleGate
    <3> QED BY <1>1, <2>6, <3>1, TablesStay, FreshSaleGate DEF SerialInv
  <2>7. CASE SaleStamp(r)
    <3>1. UNCHANGED <<rows, drawer, counts, given>>
      BY <2>7 DEF SaleStamp
    <3> QED BY <1>1, <2>7, <3>1, TablesStay, FreshSaleStamp DEF SerialInv
  <2>8. ASSUME NEW i \in DOMAIN sales, NEW n \in 1 .. SaleTotal, RefundRead(r, i, n) PROVE SerialInv'
    <3>1. UNCHANGED <<rows, drawer, counts, given>>
      BY <2>8 DEF RefundRead
    <3> QED BY <1>1, <2>8, <3>1, TablesStay, FreshRefundRead DEF SerialInv
  <2>9. CASE Refuse(r)
    BY <1>1, <1>3, <2>9, TablesStay DEF Refuse, SerialInv
  <2>10. CASE OpenCommit(r)
    BY <1>1, <1>3, <2>10, TablesOpenCommit DEF OpenCommit, SerialInv
  <2>11. CASE PaidCommit(r)
    BY <1>1, <1>3, <2>11, TablesPaidCommit DEF PaidCommit, SerialInv, PaidInv
  <2>12. CASE CloseCommit(r)
    BY <1>1, <1>3, <2>12, TablesCloseCommit DEF CloseCommit, SerialInv
  <2>13. CASE SaleCommit(r)
    BY <1>1, <1>3, <2>13, TablesSaleCommit DEF SaleCommit, SerialInv
  <2>14. CASE RefundCommit(r)
    BY <1>1, <1>3, <2>14, TablesRefundCommit DEF RefundCommit, SerialInv
  <2> QED BY <2>1, <2>2, <2>3, <2>4, <2>5, <2>6, <2>7, <2>8, <2>9, <2>10, <2>11, <2>12, <2>13, <2>14 DEF Acts
<1> QED BY <1>2, <1>4

LEMMA SerialAlways ==
    ASSUME OneHandler
    PROVE  Spec => []SerialInv
<1>1. Typed /\ PaidInv /\ SerialInv /\ [Next]_vars => SerialInv'
  BY SerialNext
<1> QED BY <1>1, SerialInit, TypedAlways, PaidAlways, PTL DEF Spec

(* With one handler at a time, every cash sale is inside the time of a box: the
   gate saw a box open and nobody closed it before the commit (create_sale). *)
THEOREM SalesAssigned ==
    ASSUME OneHandler
    PROVE  Spec => []CashSaleAssigned
<1>1. SerialInv => CashSaleAssigned
  BY DEF SerialInv, Tables
<1> QED BY <1>1, SerialAlways, PTL

(* With one handler at a time, the figures of the closing rows add up, no paid
   movement is lost, and no sale is refunded beyond its total
   (close_cash_shift, shift_paid_in_out, refund_transaction). *)
THEOREM FiguresAgree ==
    ASSUME OneHandler
    PROVE  Spec => []FiguresAddUp
<1>1. Typed /\ SerialInv => FiguresAddUp
  BY Rows DEF SerialInv, Tables, BoxFigures, GivenBack, FiguresAddUp, Typed
<1> QED BY <1>1, SerialAlways, TypedAlways, PTL

(* With one handler at a time, there is one open box at most, and each box expects
   what the one before it was counted at (open_cash_shift). *)
THEOREM OneLine ==
    ASSUME OneHandler
    PROVE  Spec => []BoxesInLine
<1>1. Typed /\ SerialInv => BoxesInLine
  <2> SUFFICES ASSUME Typed, SerialInv PROVE BoxesInLine
    OBVIOUS
  <2>1. OneOpen
    BY Rows DEF SerialInv, Tables, InOrder, OneOpen, Typed
  <2> QED BY <2>1, AtMostOne DEF SerialInv, Tables, Slope, BoxesInLine
<1> QED BY <1>1, SerialAlways, TypedAlways, PTL

(* With one handler at a time, a closed box shows no variance, as long as every
   refund is part of a cash sale and made while its box was open
   (close_cash_shift, refund_transaction). *)
THEOREM CountedAsExpected ==
    ASSUME OneHandler
    PROVE  Spec => []CountMatchesExpected
<1>1. SerialInv => CountMatchesExpected
  BY DEF SerialInv, Tables, Ledger, AllTraceable, CountMatchesExpected
<1> QED BY <1>1, SerialAlways, PTL
=============================================================================
