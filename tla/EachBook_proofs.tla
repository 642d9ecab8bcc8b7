--------------------------- MODULE EachBook_proofs ---------------------------
(***************************************************************************)
(* Proofs about the modules of the desks that keep money and goods, for    *)
(* any rows, persons, amounts and bounds, as EachDesk_proofs has them of   *)
(* the others.                                                             *)
(*                                                                         *)
(* A promise that needs one request at a time has OneHandler as a          *)
(* hypothesis; what holds however requests interleave has not.             *)
(***************************************************************************)
EXTENDS Finite_proofs, SequenceTheorems

CONSTANTS Handlers,                                   \* requests in flight, of any desk
          Coin, MaxPrice, MaxLines,                   \* Cart
          Baskets, Total, MaxCut,                     \* Terminal
          Persons, Fields, MaxCredits,                \* Members
          Goods, MaxBatch, MaxStock,                  \* Receiving
          Employees, Days, Entries, Runs, MaxWorked, MaxSlips, \* Payroll
          StoreOps, Variants, Coded, Clients, Items, Restocks, MaxPieces, \* Supply
          Orders, Invoices, MaxTotal, MaxDone, MaxPaid,        \* PrintShop
          Sales, Filled, Discounts, Refunds, Methods, Buttons, Category, LastTick, TicksPerDay,
          Ahead, Step, Standard, Reduced, NoProduct, NoCode, NoCategory \* DaySheet

VARIABLES txn, lines, member, evidence,               \* Cart
          bills, payments, captured, cut,             \* Terminal
          ledger,                                     \* Members, and Cart's member
          stock, moves,                               \* Receiving, and Supply's stock
          timesheet, run, payslips, signed,           \* Payroll
          item, supply, booked, most, loose,          \* Supply
          order, stats, invoice, received,            \* PrintShop
          now, rung, kept,                            \* DaySheet
          h                                           \* the handlers

OneHandler == \E p \in Handlers : Handlers = {p}

-----------------------------------------------------------------------------
(***************************************************************************)
(* The sale in three steps.  What a handler has read of the cart is never  *)
(* worth more than the lines are by then, because lines are only added;    *)
(* so neither is what it commits.                                          *)
(***************************************************************************)
Till == INSTANCE Cart

LEMMA TillSizes ==
    ASSUME NEW X
    PROVE  /\ Till!Cardinality(X) = Cardinality(X)
           /\ \A f : Till!SumFunctionOnSet(f, X) = SumFunctionOnSet(f, X)
<1>1. Till!Cardinality(X) = Cardinality(X)
  BY DEF Cardinality, IsFiniteSet, Till!Cardinality, Till!IsFiniteSet
<1>2. ASSUME NEW f PROVE Till!SumFunctionOnSet(f, X) = SumFunctionOnSet(f, X)
  BY DEF SumFunctionOnSet, FoldFunctionOnSet, MapThenFoldSet, Till!SumFunctionOnSet, Till!FoldFunctionOnSet, Till!MapThenFoldSet
<1> QED BY <1>1, <1>2

Purses == [spend : Nat, earned : Nat, points : Nat]
LineRows == [num : 1 .. MaxLines, gross : 0 .. MaxPrice, net : 0 .. MaxPrice,
             class : Till!Classes \cup {"none"}, flagged : BOOLEAN]

TillRequests ==
    {Till!Idle}
    \cup [op : {"item", "pay", "reap"}, seen : Till!Txns]
    \cup [op : {"age"}, seen : Till!Txns, total : Nat, was : Purses, owner : BOOLEAN]
    \cup [op : {"clear"}, seen : Till!Txns, total : Nat, was : Purses, owner : BOOLEAN,
          basis : Till!Grounds, ids : SUBSET (1 .. MaxLines)]

TillTyped ==
    /\ txn \in Till!Txns /\ lines \subseteq LineRows
    /\ member \in Purses /\ evidence \in BOOLEAN
    /\ h \in [Handlers -> TillRequests]

(* A line has a number of its own, and there are as many lines as numbers. *)
Numbered ==
    /\ IsFiniteSet(lines)
    /\ \A l \in lines : l.num <= Cardinality(lines)
    /\ \A k, l \in lines : k.num = l.num => k = l

Gross == Till!GrossOf(lines)

(* What is charged is within what the lines are worth, but for the coin of a cart that is sold. *)
Fair ==
    /\ txn.subtotal <= Gross
    /\ txn.status \in {"unused", "open"} => txn.total <= Gross
    /\ txn.total < Gross + Coin
    /\ member.earned <= member.points

(* What a handler has read is an open cart, and worth no more than the lines and the ledger are
   by now. *)
Covered(r) ==
    /\ r.op # "none" => /\ r.seen.status = "open"
                        /\ r.seen.subtotal <= Gross /\ r.seen.total <= Gross
    /\ r.op \in {"age", "clear"} => r.total <= r.seen.total /\ r.was.earned <= member.points

TillInv ==
    /\ TillTyped /\ Numbered /\ Fair
    /\ \A p \in Handlers : Covered(h[p])

LEMMA GrossAdds ==
    ASSUME NEW X, IsFiniteSet(X), X \subseteq LineRows
    PROVE  /\ Till!GrossOf(X) \in Nat /\ Till!NetOf(X) \in Nat
           /\ \A l \in LineRows \ X : Till!GrossOf(X \cup {l}) = Till!GrossOf(X) + l.gross
<1> DEFINE g(Y) == [l \in Y |-> l.gross]
<1>1. \A Y : Till!GrossOf(Y) = SumFunctionOnSet(g(Y), Y)
  BY TillSizes DEF Till!GrossOf
<1>2. SumFunctionOnSet(g(X), X) \in Nat
  BY SumNat DEF LineRows
<1>3. ASSUME NEW l \in LineRows \ X
      PROVE  SumFunctionOnSet(g(X \cup {l}), X \cup {l}) = SumFunctionOnSet(g(X), X) + l.gross
  <2> DEFINE f == g(X \cup {l})
  <2>1. \A k \in X \cup {l} : f[k] = k.gross /\ f[k] \in Int
    BY DEF LineRows
  <2>2. \A k \in X : f[k] = g(X)[k]
    BY <2>1
  <2>3. f[l] = l.gross /\ l.gross \in Int
    BY <2>1
  <2> HIDE DEF f
  <2>4. SumFunctionOnSet(f, X \cup {l}) = f[l] + SumFunctionOnSet(f, X)
    BY <2>1, SumAdd
  <2>5. SumFunctionOnSet(f, X) = SumFunctionOnSet(g(X), X)
    BY <2>2, SumSame
  <2> QED BY <1>2, <2>3, <2>4, <2>5 DEF f
<1>4. Till!NetOf(X) \in Nat
  <2>1. Till!NetOf(X) = SumFunctionOnSet([l \in X |-> l.net], X)
    BY TillSizes DEF Till!NetOf
  <2> QED BY <2>1, SumNat DEF LineRows
<1> QED BY <1>1, <1>2, <1>3, <1>4

(* The flags of a sale change neither the number of the lines nor what they are worth. *)
LEMMA FlagsKeep ==
    ASSUME TillTyped, Numbered, NEW ids,
           lines' = {[l EXCEPT !.flagged = @ \/ l.num \in ids] : l \in lines}
    PROVE  /\ lines' \subseteq LineRows
           /\ IsFiniteSet(lines') /\ Cardinality(lines') = Cardinality(lines)
           /\ Till!GrossOf(lines') = Till!GrossOf(lines)
           /\ Numbered'
<1> DEFINE m == [l \in lines |-> [l EXCEPT !.flagged = @ \/ l.num \in ids]]
<1>1. ASSUME NEW l \in lines
      PROVE  /\ m[l] = [num |-> l.num, gross |-> l.gross, net |-> l.net, class |-> l.class,
                        flagged |-> l.flagged \/ l.num \in ids]
             /\ m[l] \in LineRows /\ m[l].num = l.num /\ m[l].gross = l.gross
  BY DEF TillTyped, LineRows
<1>2. lines' = {m[l] : l \in lines}
  OBVIOUS
<1> HIDE DEF m
<1>0. \A l \in lines : m[l] \in LineRows /\ m[l].num = l.num /\ m[l].gross = l.gross
  BY <1>1
<1>3. \A k, l \in lines : m[k] = m[l] => k = l
  BY <1>0 DEF Numbered
<1>4. IsFiniteSet({m[l] : l \in lines}) /\ Cardinality({m[l] : l \in lines}) = Cardinality(lines)
  BY <1>3, ImageSize DEF Numbered
<1> DEFINE f == [l \in lines |-> l.gross]
           g == [l \in {m[l] : l \in lines} |-> l.gross]
<1>5. \A l \in lines : f[l] \in Int /\ g[m[l]] = f[l]
  BY <1>0 DEF TillTyped, LineRows
<1> HIDE DEF f, g
<1>6. SumFunctionOnSet(g, {m[l] : l \in lines}) = SumFunctionOnSet(f, lines)
  <2>1. IsFiniteSet(lines)
    BY DEF Numbered
  <2>2. ASSUME NEW a, NEW b, NEW c,
               \A x, y \in lines : a[x] = a[y] => x = y,
               \A x \in lines : b[x] \in Int /\ c[a[x]] = b[x]
        PROVE  SumFunctionOnSet(c, {a[x] : x \in lines}) = SumFunctionOnSet(b, lines)
    BY <2>1, <2>2, SumImage
  <2> QED BY <1>3, <1>5, <2>2
<1>7. Till!GrossOf({m[l] : l \in lines}) = Till!GrossOf(lines)
  BY <1>6, TillSizes DEF Till!GrossOf, f, g
<1>8. Numbered'
  <2>1. ASSUME NEW x \in lines', NEW y \in lines'
        PROVE  x.num <= Cardinality(lines') /\ (x.num = y.num => x = y)
    <3>1. PICK k \in lines : x = m[k]
      BY <1>2
    <3>2. PICK l \in lines : y = m[l]
      BY <1>2
    <3>3. Cardinality(lines') = Cardinality(lines)
      BY <1>2, <1>4
    <3> QED BY <1>0, <3>1, <3>2, <3>3 DEF Numbered
  <2>2. IsFiniteSet(lines')
    BY <1>2, <1>4
  <2> QED BY <2>1, <2>2 DEF Numbered
<1> QED BY <1>0, <1>2, <1>4, <1>7, <1>8

(* Rounding to a coin adds less than one. *)
LEMMA PaidNear ==
    ASSUME Till!CartAssumption, NEW n \in Nat, NEW paid \in Till!Payable(n)
    PROVE  paid \in Nat /\ paid < n + Coin
<1>1. Coin \in Nat /\ Coin > 0
  BY DEF Till!CartAssumption
<1>2. CASE paid = n
  BY <1>1, <1>2
<1>3. CASE /\ paid \in 0 .. n + Coin
           /\ paid <= n \/ 2 * paid <= 2 * n + Coin
  BY <1>1, <1>3
<1> QED BY <1>2, <1>3 DEF Till!Payable

LEMMA HalfLess == \A n \in Nat : Till!Half(n) \in Nat /\ Till!Half(n) <= n
BY DEF Till!Half

LEMMA MaxZero == \A n \in Int : Till!Max({0, n}) \in Nat /\ Till!Max({0, n}) \in {0, n}
<1> TAKE n \in Int
<1>1. \E x \in {0, n} : \A y \in {0, n} : x >= y
  <2>1. CASE n >= 0
    BY <2>1
  <2>2. CASE ~(n >= 0)
    BY <2>2
  <2> QED BY <2>1, <2>2
<1>2. Till!Max({0, n}) \in {0, n} /\ \A y \in {0, n} : Till!Max({0, n}) >= y
  BY <1>1 DEF Till!Max
<1> QED BY <1>2

LEMMA FlushedTxn ==
    ASSUME NEW cur \in Till!Txns, NEW new \in Till!Txns, NEW seen
    PROVE  LET row == Till!Flushed(cur, seen, new)
           IN  /\ row \in Till!Txns
               /\ row.subtotal \in {cur.subtotal, new.subtotal}
               /\ row.total \in {cur.total, new.total}
               /\ row.status = IF new.status = seen.status THEN cur.status ELSE new.status
<1> DEFINE row == Till!Flushed(cur, seen, new)
<1>1. row = [status |-> IF new.status = seen.status THEN cur.status ELSE new.status,
             subtotal |-> IF new.subtotal = seen.subtotal THEN cur.subtotal ELSE new.subtotal,
             total |-> IF new.total = seen.total THEN cur.total ELSE new.total,
             outcome |-> IF new.outcome = seen.outcome THEN cur.outcome ELSE new.outcome,
             owner |-> IF new.owner = seen.owner THEN cur.owner ELSE new.owner]
  BY DEF Till!Flushed, Till!Txns
<1> HIDE DEF row
<1>2. /\ row.subtotal \in {cur.subtotal, new.subtotal} /\ row.total \in {cur.total, new.total}
      /\ row.status \in {cur.status, new.status} /\ row.outcome \in {cur.outcome, new.outcome}
      /\ row.owner \in {cur.owner, new.owner}
  BY <1>1
<1>3. row \in Till!Txns
  BY <1>1 DEF Till!Txns
<1>4. row.status = IF new.status = seen.status THEN cur.status ELSE new.status
  BY <1>1
<1> QED BY <1>2, <1>3, <1>4 DEF row

LEMMA FlushedPurse ==
    ASSUME NEW cur \in Purses, NEW new \in Purses, NEW seen
    PROVE  LET row == Till!Flushed(cur, seen, new)
           IN  /\ row \in Purses
               /\ row.earned \in {cur.earned, new.earned}
               /\ row.points \in {cur.points, new.points}
<1> DEFINE row == Till!Flushed(cur, seen, new)
<1>1. row = [spend |-> IF new.spend = seen.spend THEN cur.spend ELSE new.spend,
             earned |-> IF new.earned = seen.earned THEN cur.earned ELSE new.earned,
             points |-> IF new.points = seen.points THEN cur.points ELSE new.points]
  BY DEF Till!Flushed, Purses
<1> HIDE DEF row
<1>2. row.earned \in {cur.earned, new.earned} /\ row.points \in {cur.points, new.points}
  BY <1>1
<1>3. row \in Purses
  BY <1>1 DEF Purses
<1> QED BY <1>2, <1>3 DEF row

LEMMA TillBegins == ASSUME Till!CartAssumption, Till!Init PROVE TillInv
<1>1. lines = {} /\ Gross = 0 /\ Cardinality(lines) = 0 /\ IsFiniteSet(lines)
  BY SumEmpty, FS_EmptySet, TillSizes DEF Till!Init, Gross, Till!GrossOf
<1>2. TillTyped
  BY DEF Till!Init, TillTyped, Till!Txns, Purses, LineRows, TillRequests, Till!Idle
<1>3. Numbered
  BY <1>1 DEF Numbered
<1>4. Fair
  BY <1>1 DEF Fair, Till!Init, Till!CartAssumption
<1>5. \A p \in Handlers : Covered(h[p])
  BY DEF Till!Init, Covered, Till!Idle
<1> QED BY <1>2, <1>3, <1>4, <1>5 DEF TillInv

(* What a request may ask the types of. *)
LEMMA RequestOfTill ==
    ASSUME NEW r \in TillRequests
    PROVE  /\ r.op \in {"none", "item", "pay", "reap", "age", "clear"}
           /\ r.op = "none" <=> r = Till!Idle
           /\ r.op # "none" => r.seen \in Till!Txns
           /\ r.op \in {"age", "clear"} => r.total \in Nat /\ r.was \in Purses /\ r.owner \in BOOLEAN
           /\ r.op = "clear" => r.basis \in Till!Grounds /\ r.ids \in SUBSET (1 .. MaxLines)
BY DEF TillRequests, Till!Idle

(* A step of a handler that changes no row. *)
LEMMA TillGoesOn ==
    ASSUME TillInv, NEW p \in Handlers, NEW r \in TillRequests, Covered(r),
           h' = [h EXCEPT ![p] = r], UNCHANGED <<txn, lines, member>>, evidence' \in BOOLEAN
    PROVE  TillInv'
<1>1. Gross' = Gross
  BY DEF Gross, Till!GrossOf
<1>2. TillTyped'
  BY DEF TillInv, TillTyped
<1>3. Numbered' /\ Fair'
  BY <1>1 DEF TillInv, Numbered, Fair
<1>4. ASSUME NEW x \in Handlers PROVE Covered(h[x])'
  <2>1. h'[x] = h[x] \/ h'[x] = r
    BY DEF TillInv, TillTyped
  <2> QED BY <1>1, <2>1 DEF TillInv, Covered
<1> QED BY <1>2, <1>3, <1>4 DEF TillInv

(* A commit of lines that are worth no less, a cart that is worth no more, and a member. *)
LEMMA TillCommits ==
    ASSUME TillInv, NEW p \in Handlers, h' = [h EXCEPT ![p] = Till!Idle], UNCHANGED evidence,
           Gross' \in Nat, Gross <= Gross', lines' \subseteq LineRows, Numbered',
           txn' \in Till!Txns, txn'.subtotal <= Gross', txn'.total < Gross' + Coin,
           txn'.status \in {"unused", "open"} => txn'.total <= Gross',
           member' \in Purses, member'.earned <= member'.points, member.points <= member'.points
    PROVE  TillInv'
<1>1. TillTyped'
  BY DEF TillInv, TillTyped, TillRequests
<1>2. Fair'
  BY DEF Fair
<1>3. Gross \in Nat
  BY GrossAdds DEF TillInv, TillTyped, Numbered, Gross
<1>4. ASSUME NEW x \in Handlers PROVE Covered(h[x])'
  <2>1. CASE x = p
    BY <2>1 DEF TillInv, TillTyped, Covered, Till!Idle
  <2>2. CASE x # p
    <3>1. h'[x] = h[x] /\ h[x] \in TillRequests /\ Covered(h[x]) /\ member \in Purses
      BY <2>2 DEF TillInv, TillTyped
    <3>2. /\ h[x].op # "none" => h[x].seen.subtotal \in Nat /\ h[x].seen.total \in Nat
          /\ h[x].op \in {"age", "clear"} => h[x].total \in Nat /\ h[x].was.earned \in Nat
      BY <3>1, RequestOfTill DEF Till!Txns, Purses
    <3>3. member.points \in Nat /\ member'.points \in Nat
      BY <3>1 DEF Purses
    <3> QED BY <1>3, <3>1, <3>2, <3>3 DEF Covered
  <2> QED BY <2>1, <2>2
<1> QED BY <1>1, <1>2, <1>4 DEF TillInv

LEMMA LoadsOfTill ==
    ASSUME TillInv, NEW p \in Handlers, Till!ItemLoad(p) \/ Till!PayLoad(p) \/ Till!ReapLoad(p)
    PROVE  TillInv'
<1>1. PICK op \in {"item", "pay", "reap"} :
         h' = [h EXCEPT ![p] = [op |-> op, seen |-> txn]] /\ UNCHANGED <<txn, lines, member, evidence>>
  BY DEF Till!ItemLoad, Till!PayLoad, Till!ReapLoad, Till!Goto
<1>2. [op |-> op, seen |-> txn] \in TillRequests
  BY DEF TillRequests, TillInv, TillTyped
<1>3. Covered([op |-> op, seen |-> txn])
  BY <1>1 DEF Covered, TillInv, Fair, Till!ItemLoad, Till!PayLoad, Till!ReapLoad
<1>4. evidence' \in BOOLEAN
  BY <1>1 DEF TillInv, TillTyped
<1> QED BY <1>1, <1>2, <1>3, <1>4, TillGoesOn

LEMMA AttachKeeps ==
    ASSUME TillInv, NEW p \in Handlers, Till!WalkIn(p) \/ Till!Attach(p) PROVE TillInv'
<1>1. /\ h[p] \in TillRequests /\ h[p].op = "pay" /\ Covered(h[p]) /\ h[p].seen \in Till!Txns
      /\ member \in Purses /\ member.earned <= member.points
  BY RequestOfTill DEF TillInv, TillTyped, Fair, Till!WalkIn, Till!Attach
<1>2. PICK n, b : /\ h' = [h EXCEPT ![p] = [op |-> "age", seen |-> h[p].seen, total |-> n, was |-> member, owner |-> b]]
                  /\ UNCHANGED <<txn, lines, member, evidence>> /\ b \in BOOLEAN
                  /\ \/ n = h[p].seen.total
                     \/ n = Till!Max({0, h[p].seen.total - Till!Half(Till!NetOf(Till!Eligible))})
  BY DEF Till!WalkIn, Till!Attach, Till!Goto, Till!Saw
<1>3. n \in Nat /\ n <= h[p].seen.total
  <2>1. h[p].seen.total \in Nat
    BY <1>1 DEF Till!Txns
  <2>2. Till!NetOf(Till!Eligible) \in Nat
    <3>1. IsFiniteSet(Till!Eligible) /\ Till!Eligible \subseteq LineRows
      BY FS_Subset DEF Till!Eligible, TillInv, TillTyped, Numbered
    <3> QED BY <3>1, GrossAdds
  <2>3. Till!Half(Till!NetOf(Till!Eligible)) \in Nat
    BY <2>2, HalfLess
  <2>4. PICK d : d = h[p].seen.total - Till!Half(Till!NetOf(Till!Eligible))
    OBVIOUS
  <2>5. d \in Int /\ d <= h[p].seen.total
    BY <2>1, <2>3, <2>4
  <2>6. Till!Max({0, d}) \in Nat /\ Till!Max({0, d}) \in {0, d}
    BY <2>5, MaxZero
  <2>7. n = h[p].seen.total \/ n = Till!Max({0, d})
    BY <1>2, <2>4
  <2> QED BY <2>1, <2>5, <2>6, <2>7
<1>4. PICK r : r = [op |-> "age", seen |-> h[p].seen, total |-> n, was |-> member, owner |-> b]
  OBVIOUS
<1>5. r \in TillRequests
  BY <1>1, <1>2, <1>3, <1>4 DEF TillRequests
<1>6. Covered(r)
  BY <1>1, <1>3, <1>4 DEF Covered
<1>7. evidence' \in BOOLEAN
  BY <1>2 DEF TillInv, TillTyped
<1> QED BY <1>2, <1>4, <1>5, <1>6, <1>7, TillGoesOn

LEMMA ClearedKeeps ==
    ASSUME TillInv, NEW p \in Handlers, NEW basis \in Till!Grounds, Till!Cleared(p, basis) PROVE TillInv'
<1>1. /\ h[p] \in TillRequests /\ h[p].op = "age" /\ Covered(h[p]) /\ h[p].seen \in Till!Txns
      /\ h[p].total \in Nat /\ h[p].was \in Purses /\ h[p].owner \in BOOLEAN
  BY RequestOfTill DEF TillInv, TillTyped, Till!Cleared
<1>2. {l.num : l \in Till!Gated} \in SUBSET (1 .. MaxLines)
  BY DEF Till!Gated, TillInv, TillTyped, LineRows
<1>3. PICK r : r = [op |-> "clear", seen |-> h[p].seen, total |-> h[p].total, was |-> h[p].was,
                    owner |-> h[p].owner, basis |-> basis, ids |-> {l.num : l \in Till!Gated}]
  OBVIOUS
<1>4. h' = [h EXCEPT ![p] = r] /\ UNCHANGED <<txn, lines, member, evidence>>
  BY <1>3 DEF Till!Cleared, Till!Goto, Till!Saw
<1>5. r \in TillRequests
  BY <1>1, <1>2, <1>3 DEF TillRequests
<1>6. Covered(r)
  BY <1>1, <1>3 DEF Covered
<1>7. evidence' \in BOOLEAN
  BY <1>4 DEF TillInv, TillTyped
<1> QED BY <1>4, <1>5, <1>6, <1>7, TillGoesOn

LEMMA EndsKeep ==
    ASSUME TillInv, NEW p \in Handlers,
           Till!Abort(p) \/ \E k \in BOOLEAN : Till!Refused(p, k)
    PROVE  TillInv'
<1>1. /\ h' = [h EXCEPT ![p] = Till!Idle] /\ UNCHANGED <<txn, lines, member>>
      /\ evidence' \in BOOLEAN
  BY DEF Till!Abort, Till!Refused, Till!Goto, TillInv, TillTyped
<1>2. Till!Idle \in TillRequests /\ Covered(Till!Idle)
  BY DEF TillRequests, Covered, Till!Idle
<1> QED BY <1>1, <1>2, TillGoesOn

LEMMA ItemKeeps ==
    ASSUME Till!CartAssumption, TillInv, NEW p \in Handlers, NEW gross \in 0 .. MaxPrice,
           NEW net \in 0 .. MaxPrice, NEW product \in BOOLEAN, NEW class \in Till!Classes,
           NEW half \in BOOLEAN, Till!ItemCommit(p, gross, net, product, class, half)
    PROVE  /\ TillInv'
           /\ Gross' = Gross + gross
<1>1. /\ h[p] \in TillRequests /\ h[p].op = "item" /\ Covered(h[p]) /\ h[p].seen \in Till!Txns
      /\ txn \in Till!Txns /\ member \in Purses /\ member.earned <= member.points
      /\ Fair
  BY RequestOfTill DEF TillInv, TillTyped, Fair, Till!ItemCommit
<1>2. Gross \in Nat /\ gross \in Nat /\ Coin \in Nat /\ Coin > 0
  BY GrossAdds DEF TillInv, TillTyped, Numbered, Gross, Till!CartAssumption
<1>3. PICK n : n = Cardinality(lines)
  OBVIOUS
<1>4. n \in Nat /\ n < MaxLines
  BY <1>3, FS_CardinalityType, TillSizes DEF TillInv, Numbered, Till!ItemCommit
<1>5. PICK l : l = [num |-> n + 1, gross |-> gross, net |-> net,
                    class |-> IF product THEN class ELSE "none", flagged |-> FALSE]
  OBVIOUS
<1>6. /\ lines' = lines \cup {l} /\ l \in LineRows /\ l.num = n + 1 /\ l.gross = gross
      /\ UNCHANGED <<member, evidence>> /\ h' = [h EXCEPT ![p] = Till!Idle]
  <2>1. lines' = lines \cup {l} /\ UNCHANGED <<member, evidence>> /\ h' = [h EXCEPT ![p] = Till!Idle]
    BY <1>3, <1>5, TillSizes DEF Till!ItemCommit, Till!Goto
  <2>2. n + 1 \in 1 .. MaxLines
    BY <1>4 DEF Till!CartAssumption
  <2> QED BY <1>5, <2>1, <2>2 DEF LineRows
<1>7. l \notin lines
  BY <1>3, <1>4, <1>6 DEF TillInv, Numbered
<1>8. Gross' = Gross + gross
  BY <1>6, <1>7, GrossAdds DEF Gross, TillInv, TillTyped, Numbered
<1>9. IsFiniteSet(lines') /\ Cardinality(lines') = n + 1
  BY <1>3, <1>6, <1>7, FS_AddElement DEF TillInv, Numbered
<1>10. Numbered'
  <2>1. \A k \in lines : k.num \in Nat
    BY DEF TillInv, TillTyped, LineRows
  <2>2. \A k \in lines : k.num <= n
    BY <1>3 DEF TillInv, Numbered
  <2>3. ASSUME NEW j \in lines', NEW k \in lines' PROVE j.num <= n + 1 /\ (j.num = k.num => j = k)
    <3>1. CASE j \in lines /\ k \in lines
      BY <1>4, <2>1, <2>2, <3>1 DEF TillInv, Numbered
    <3>2. CASE j = l \/ k = l
      BY <1>4, <1>6, <2>1, <2>2, <3>2
    <3> QED BY <1>6, <3>1, <3>2
  <2> QED BY <1>9, <2>3 DEF Numbered
<1>11. PICK s : s = h[p].seen.subtotal + gross
  OBVIOUS
<1>12. s \in Nat /\ s <= Gross'
  BY <1>1, <1>2, <1>8, <1>11 DEF Covered, Till!Txns
<1>13. PICK new : new = [h[p].seen EXCEPT !.subtotal = s, !.total = IF half THEN Till!Half(s) ELSE s]
  OBVIOUS
<1>14. /\ new \in Till!Txns /\ new.subtotal = s /\ new.total \in Nat /\ new.total <= s
       /\ new.status = h[p].seen.status
  <2>1. PICK t : t = IF half THEN Till!Half(s) ELSE s
    OBVIOUS
  <2>2. t \in Nat /\ t <= s
    BY <1>12, <2>1, HalfLess
  <2>3. new = [h[p].seen EXCEPT !.subtotal = s, !.total = t]
    BY <1>13, <2>1
  <2> QED BY <1>1, <1>12, <2>2, <2>3 DEF Till!Txns
<1>15. txn' = Till!Flushed(txn, h[p].seen, new)
  BY <1>11, <1>13 DEF Till!ItemCommit, Till!Saw
<1>16. /\ txn' \in Till!Txns /\ txn'.subtotal <= Gross' /\ txn'.total < Gross' + Coin
       /\ txn'.status \in {"unused", "open"} => txn'.total <= Gross'
  <2>1. /\ txn' \in Till!Txns /\ txn'.subtotal \in {txn.subtotal, s}
        /\ txn'.total \in {txn.total, new.total} /\ txn'.status = txn.status
    BY <1>1, <1>14, <1>15, FlushedTxn
  <2>2. txn.subtotal \in Nat /\ txn.total \in Nat
    BY <1>1 DEF Till!Txns
  <2> QED BY <1>1, <1>2, <1>8, <1>12, <1>14, <2>1, <2>2 DEF Fair
<1>17. lines' \subseteq LineRows /\ Gross' \in Nat /\ Gross <= Gross'
  BY <1>2, <1>6, <1>8 DEF TillInv, TillTyped
<1>18. member' \in Purses /\ member'.earned <= member'.points /\ member.points <= member'.points
  BY <1>1, <1>6 DEF Purses
<1> QED BY <1>6, <1>8, <1>10, <1>16, <1>17, <1>18, TillCommits

LEMMA PayKeeps ==
    ASSUME Till!CartAssumption, TillInv, NEW p \in Handlers, NEW paid, Till!PayCommit(p, paid)
    PROVE  TillInv' /\ Gross' = Gross
<1>1. /\ h[p] \in TillRequests /\ h[p].op = "clear" /\ Covered(h[p]) /\ h[p].seen \in Till!Txns
      /\ h[p].total \in Nat /\ h[p].was \in Purses /\ h[p].basis \in Till!Grounds /\ h[p].owner \in BOOLEAN
      /\ txn \in Till!Txns /\ member \in Purses /\ member.earned <= member.points
      /\ Fair
  BY RequestOfTill DEF TillInv, TillTyped, Fair, Till!PayCommit
<1>2. Gross \in Nat /\ Coin \in Nat /\ Coin > 0
  BY GrossAdds DEF TillInv, TillTyped, Numbered, Gross, Till!CartAssumption
<1>0. paid \in Nat /\ paid < h[p].total + Coin
  BY <1>1, PaidNear DEF Till!PayCommit
<1>3. lines' \subseteq LineRows /\ Gross' = Gross /\ Numbered'
  BY FlagsKeep DEF TillInv, Till!PayCommit, Gross
<1>4. PICK new : new = [h[p].seen EXCEPT !.status = "completed", !.total = paid,
                                         !.outcome = h[p].basis, !.owner = @ \/ h[p].owner]
  OBVIOUS
<1>5. /\ new \in Till!Txns /\ new.subtotal = h[p].seen.subtotal /\ new.total = paid
      /\ new.status = "completed" /\ h[p].seen.status = "open"
  BY <1>0, <1>1, <1>4 DEF Till!Txns, Covered
<1>6. txn' = Till!Flushed(txn, h[p].seen, new)
  BY <1>4 DEF Till!PayCommit, Till!Saw
<1>7. /\ txn' \in Till!Txns /\ txn'.subtotal <= Gross' /\ txn'.total < Gross' + Coin
      /\ txn'.status = "completed"
  <2>1. /\ txn' \in Till!Txns /\ txn'.subtotal \in {txn.subtotal, new.subtotal}
        /\ txn'.total \in {txn.total, new.total} /\ txn'.status = "completed"
    BY <1>1, <1>5, <1>6, FlushedTxn
  <2>2. /\ h[p].seen.subtotal <= Gross /\ h[p].seen.total <= Gross /\ h[p].total <= h[p].seen.total
        /\ h[p].seen.total \in Nat
    BY <1>1 DEF Covered, Till!Txns
  <2> QED BY <1>0, <1>1, <1>2, <1>3, <1>5, <2>1, <2>2 DEF Fair
<1>8. member' \in Purses /\ member'.earned <= member'.points /\ member.points <= member'.points
  <2>1. CASE ~h[p].owner
    BY <1>1, <2>1 DEF Till!PayCommit, Purses
  <2>2. CASE h[p].owner
    <3>1. PICK more : more = [h[p].was EXCEPT !.spend = @ + paid, !.earned = @ + paid]
      OBVIOUS
    <3>2. more \in Purses /\ more.earned = h[p].was.earned + paid /\ more.points = h[p].was.points
      <4>1. more = [spend |-> h[p].was.spend + paid, earned |-> h[p].was.earned + paid,
                    points |-> h[p].was.points]
        BY <1>1, <3>1 DEF Purses
      <4>2. h[p].was.spend + paid \in Nat /\ h[p].was.earned + paid \in Nat /\ h[p].was.points \in Nat
        BY <1>0, <1>1 DEF Purses
      <4> QED BY <4>1, <4>2 DEF Purses
    <3>3. PICK row : row = Till!Flushed(member, h[p].was, more)
      OBVIOUS
    <3>4. row \in Purses /\ row.earned \in {member.earned, more.earned} /\ row.points = member.points
      BY <1>1, <3>2, <3>3 DEF Till!Flushed, Purses
    <3>5. member' = [row EXCEPT !.points = @ + paid]
      BY <2>2, <3>1, <3>3 DEF Till!PayCommit
    <3>6. /\ member' \in Purses /\ member'.earned = row.earned
          /\ member'.points = member.points + paid
      BY <1>0, <1>1, <3>4, <3>5 DEF Purses
    <3>7. /\ h[p].was.earned \in Nat /\ member.earned \in Nat /\ member.points \in Nat
          /\ h[p].was.earned <= member.points
      BY <1>1 DEF Covered, Purses
    <3> QED BY <1>0, <1>1, <3>2, <3>4, <3>6, <3>7
  <2> QED BY <2>1, <2>2
<1>9. h' = [h EXCEPT ![p] = Till!Idle] /\ UNCHANGED evidence
  BY DEF Till!PayCommit, Till!Goto
<1>10. Gross' \in Nat /\ Gross <= Gross'
  BY <1>2, <1>3
<1> QED BY <1>3, <1>7, <1>8, <1>9, <1>10, TillCommits

LEMMA ReapKeeps == ASSUME Till!CartAssumption, TillInv, NEW p \in Handlers, Till!ReapCommit(p) PROVE TillInv'
<1>1. /\ h[p] \in TillRequests /\ h[p].op = "reap" /\ Covered(h[p]) /\ h[p].seen \in Till!Txns
      /\ txn \in Till!Txns /\ member \in Purses /\ member.earned <= member.points
      /\ Fair /\ lines \subseteq LineRows /\ Numbered
  BY RequestOfTill DEF TillInv, TillTyped, Fair, Till!ReapCommit
<1>2. Gross \in Nat /\ Coin \in Nat /\ Coin > 0
  BY GrossAdds DEF TillInv, TillTyped, Numbered, Gross, Till!CartAssumption
<1>3. PICK new : new = [h[p].seen EXCEPT !.status = "cancelled"]
  OBVIOUS
<1>4. /\ new \in Till!Txns /\ new.subtotal = h[p].seen.subtotal /\ new.total = h[p].seen.total
      /\ new.status = "cancelled" /\ h[p].seen.status = "open" /\ h[p].seen.total \in Nat
  BY <1>1, <1>3 DEF Till!Txns, Covered
<1>5. /\ txn' = Till!Flushed(txn, h[p].seen, new) /\ h' = [h EXCEPT ![p] = Till!Idle]
      /\ UNCHANGED <<lines, member, evidence>>
  BY <1>3 DEF Till!ReapCommit, Till!Saw, Till!Goto
<1>6. Gross' = Gross /\ Numbered' /\ lines' \subseteq LineRows
  BY <1>1, <1>5 DEF Gross, Till!GrossOf, Numbered
<1>7. /\ txn' \in Till!Txns /\ txn'.subtotal <= Gross' /\ txn'.total < Gross' + Coin
      /\ txn'.status = "cancelled"
  <2>1. /\ txn' \in Till!Txns /\ txn'.subtotal \in {txn.subtotal, new.subtotal}
        /\ txn'.total \in {txn.total, new.total} /\ txn'.status = "cancelled"
    BY <1>1, <1>4, <1>5, FlushedTxn
  <2> QED BY <1>1, <1>2, <1>4, <1>6, <2>1 DEF Covered, Fair
<1>8. member' \in Purses /\ member'.earned <= member'.points /\ member.points <= member'.points
  BY <1>1, <1>5 DEF Purses
<1>9. Gross' \in Nat /\ Gross <= Gross'
  BY <1>2, <1>6
<1> QED BY <1>5, <1>6, <1>7, <1>8, <1>9, TillCommits

LEMMA TillStays ==
    ASSUME Till!CartAssumption, TillInv, [Till!Next]_(Till!vars) PROVE TillInv'
<1>1. CASE Till!Open
  <2>1. /\ txn' \in Till!Txns /\ txn'.subtotal = txn.subtotal /\ txn'.total = txn.total
        /\ txn.status = "unused" /\ UNCHANGED <<lines, member, evidence, h>>
    BY <1>1 DEF Till!Open, TillInv, TillTyped, Till!Txns
  <2>2. Gross' = Gross
    BY <2>1 DEF Gross, Till!GrossOf
  <2> QED BY <2>1, <2>2 DEF TillInv, TillTyped, Numbered, Fair, Covered
<1>2. ASSUME NEW p \in Handlers, Till!Counter(p) PROVE TillInv'
  <2>1. UNCHANGED <<txn, lines, member, h>> /\ evidence' \in BOOLEAN
    BY <1>2 DEF Till!Counter
  <2>2. Gross' = Gross
    BY <2>1 DEF Gross, Till!GrossOf
  <2> QED BY <2>1, <2>2 DEF TillInv, TillTyped, Numbered, Fair, Covered
<1>3. CASE UNCHANGED Till!vars
  <2>1. UNCHANGED <<txn, lines, member, h, evidence>>
    BY <1>3 DEF Till!vars
  <2>2. Gross' = Gross
    BY <2>1 DEF Gross, Till!GrossOf
  <2> QED BY <2>1, <2>2 DEF TillInv, TillTyped, Numbered, Fair, Covered
<1>4. ASSUME NEW p \in Handlers, NEW n \in 0 .. MaxPrice, NEW m \in {n} \cup 1 .. n, NEW a \in BOOLEAN,
             NEW f \in BOOLEAN, NEW c \in Till!Classes, Till!ItemCommit(p, n, m, a, c, f)
      PROVE  TillInv'
  <2>1. m \in 0 .. MaxPrice
    BY DEF Till!CartAssumption
  <2> QED BY <1>4, <2>1, ItemKeeps
<1>5. ASSUME NEW p \in Handlers, NEW paid, Till!PayCommit(p, paid) PROVE TillInv'
  BY <1>5, PayKeeps
<1> QED BY <1>1, <1>2, <1>3, <1>4, <1>5, LoadsOfTill, AttachKeeps, ClearedKeeps, EndsKeep, ReapKeeps
        DEF Till!Next

LEMMA FairShows == ASSUME Till!CartAssumption, TillInv PROVE Till!NeverOvercharged
<1>1. Gross \in Nat /\ txn \in Till!Txns /\ Fair
  BY GrossAdds DEF TillInv, TillTyped, Numbered, Gross
<1>2. txn.total \in Nat
  BY <1>1 DEF Till!Txns
<1> QED BY <1>1, <1>2 DEF Fair, Till!NeverOvercharged, Gross


(* create_transaction to checkout_transaction: however requests interleave, a cart charges no
   more than its lines cost without their deals, once it is sold plus less than a coin, and the
   member's total counts no more than the ledger. *)
THEOREM NeverOverchargedHolds ==
    ASSUME Till!CartAssumption PROVE Till!Spec => []Till!NeverOvercharged
<1>1. Till!Init => TillInv
  BY TillBegins
<1>2. TillInv /\ [Till!Next]_(Till!vars) => TillInv'
  BY TillStays
<1>3. TillInv => Till!NeverOvercharged
  BY FairShows
<1> QED BY <1>1, <1>2, <1>3, PTL DEF Till!Spec
-----------------------------------------------------------------------------
(* One request at a time.  What it has read of the cart is the cart, which is open, and the
   lines it has looked at are still the lines. *)

Asked(r) ==
    /\ r.op # "none" => r.seen = txn /\ txn.status = "open"
    /\ r.op \in {"age", "clear"} => lines # {}
    /\ r.op = "clear" => /\ r.basis = "not_required" <=> Till!Gated = {}
                         /\ r.ids = {l.num : l \in Till!Gated}
    /\ r.op = "reap" => lines = {}

FilledInv ==
    /\ TillInv
    /\ Till!SoldAsFilled
    /\ txn.status = "unused" => lines = {}
    /\ txn.status # "completed" => \A l \in lines : ~l.flagged
    /\ \A p \in Handlers : Asked(h[p])

LEMMA FilledBegins == ASSUME Till!CartAssumption, Till!Init PROVE FilledInv
<1>1. TillInv
  BY TillBegins
<1>2. Till!GrossOf(lines) = 0
  BY SumEmpty, TillSizes DEF Till!Init, Till!GrossOf
<1>3. Till!SoldAsFilled
  BY <1>2 DEF Till!SoldAsFilled, Till!Init
<1> QED BY <1>1, <1>3 DEF FilledInv, Till!Init, Asked, Till!Idle

LEMMA TxnAsIs ==
    ASSUME NEW row \in Till!Txns, NEW new \in Till!Txns
    PROVE  Till!Flushed(row, row, new) = new
<1>1. Till!Flushed(row, row, new) = [c \in DOMAIN row |-> new[c]]
  BY DEF Till!Flushed
<1>2. DOMAIN row = DOMAIN new /\ new = [c \in DOMAIN new |-> new[c]]
  BY DEF Till!Txns
<1> QED BY <1>1, <1>2

(* The only handler goes on, or is done. *)
LEMMA AskedOnly ==
    ASSUME OneHandler, FilledInv, TillInv', NEW p \in Handlers, NEW r,
           h' = [h EXCEPT ![p] = r], Asked(r)',
           Till!SoldAsFilled', (txn.status = "unused" => lines = {})',
           (txn.status # "completed" => \A l \in lines : ~l.flagged)'
    PROVE  FilledInv'
<1>1. \A x \in Handlers : x = p
  BY DEF OneHandler
<1>2. h'[p] = r
  BY DEF FilledInv, TillInv, TillTyped
<1> QED BY <1>1, <1>2 DEF FilledInv, Asked

LEMMA FilledItem ==
    ASSUME Till!CartAssumption, OneHandler, FilledInv, NEW p \in Handlers, NEW gross \in 0 .. MaxPrice,
           NEW net \in 0 .. MaxPrice, NEW product \in BOOLEAN, NEW class \in Till!Classes,
           NEW half \in BOOLEAN, Till!ItemCommit(p, gross, net, product, class, half)
    PROVE  FilledInv'
<1>1. TillInv' /\ Gross' = Gross + gross
  BY ItemKeeps DEF FilledInv
<1>2. /\ h[p].seen = txn /\ txn.status = "open" /\ txn \in Till!Txns
      /\ txn.subtotal = Gross /\ \A l \in lines : ~l.flagged
  BY DEF FilledInv, Asked, Till!ItemCommit, TillInv, TillTyped, Till!SoldAsFilled, Gross
<1>3. PICK s : s = txn.subtotal + gross
  OBVIOUS
<1>4. s \in Nat
  BY <1>2, <1>3 DEF Till!Txns, Till!CartAssumption
<1>5. PICK t : t = IF half THEN Till!Half(s) ELSE s
  OBVIOUS
<1>6. t \in Nat /\ t <= s
  BY <1>4, <1>5, HalfLess
<1>7. PICK new : new = [txn EXCEPT !.subtotal = s, !.total = t]
  OBVIOUS
<1>8. new \in Till!Txns /\ new.subtotal = s /\ new.total = t /\ new.status = "open"
  BY <1>2, <1>4, <1>6, <1>7 DEF Till!Txns
<1>9. txn' = Till!Flushed(txn, txn, new)
  BY <1>2, <1>3, <1>5, <1>7 DEF Till!ItemCommit, Till!Saw
<1>10. txn' = new
  BY <1>2, <1>8, <1>9, TxnAsIs
<1>11. \A l \in lines' : ~l.flagged
  BY <1>2 DEF Till!ItemCommit
<1>12. Till!SoldAsFilled'
  BY <1>1, <1>2, <1>3, <1>6, <1>8, <1>10 DEF Till!SoldAsFilled, Gross
<1>13. h' = [h EXCEPT ![p] = Till!Idle] /\ Asked(Till!Idle)'
  BY DEF Till!ItemCommit, Till!Goto, Asked, Till!Idle
<1> QED BY <1>1, <1>8, <1>10, <1>11, <1>12, <1>13, AskedOnly

LEMMA FilledPay ==
    ASSUME Till!CartAssumption, OneHandler, FilledInv, NEW p \in Handlers, NEW paid, Till!PayCommit(p, paid)
    PROVE  FilledInv'
<1>1. TillInv' /\ Gross' = Gross
  BY PayKeeps DEF FilledInv
<1>2. /\ h[p].seen = txn /\ txn.status = "open" /\ txn \in Till!Txns
      /\ txn.subtotal = Gross /\ txn.total <= txn.subtotal
      /\ lines # {} /\ lines \subseteq LineRows /\ \A l \in lines : ~l.flagged
      /\ h[p].basis = "not_required" <=> Till!Gated = {}
      /\ h[p].ids = {l.num : l \in Till!Gated}
      /\ h[p].total \in Nat /\ h[p].total <= txn.total
      /\ h[p].basis \in Till!Grounds /\ h[p].owner \in BOOLEAN
      /\ txn.subtotal \in Nat /\ txn.total \in Nat /\ paid \in Till!Payable(h[p].total)
  BY RequestOfTill DEF Till!Txns, FilledInv, Asked, Till!PayCommit, TillInv, TillTyped, Till!SoldAsFilled, Gross, Covered
<1>0. paid \in Nat /\ paid < txn.subtotal + Coin
  <2>1. paid \in Nat /\ paid < h[p].total + Coin /\ Coin \in Nat
    BY <1>2, PaidNear DEF Till!CartAssumption
  <2> QED BY <1>2, <2>1
<1>3. PICK new : new = [txn EXCEPT !.status = "completed", !.total = paid,
                                   !.outcome = h[p].basis, !.owner = @ \/ h[p].owner]
  OBVIOUS
<1>4. /\ new \in Till!Txns /\ new.subtotal = txn.subtotal /\ new.total = paid
      /\ new.status = "completed" /\ new.outcome = h[p].basis
  BY <1>0, <1>2, <1>3 DEF Till!Txns
<1>5. txn' = Till!Flushed(txn, txn, new)
  BY <1>2, <1>3 DEF Till!PayCommit, Till!Saw
<1>6. txn' = new
  BY <1>2, <1>4, <1>5, TxnAsIs
<1>7. ASSUME NEW l \in lines
      PROVE  /\ [l EXCEPT !.flagged = @ \/ l.num \in h[p].ids].class = l.class
             /\ [l EXCEPT !.flagged = @ \/ l.num \in h[p].ids].flagged <=> l \in Till!Gated
  <2>1. l \in LineRows /\ ~l.flagged
    BY <1>2
  <2>2. l.num \in h[p].ids <=> l \in Till!Gated
    <3>1. ASSUME NEW k \in Till!Gated, k.num = l.num PROVE l = k
      BY <3>1 DEF Till!Gated, FilledInv, TillInv, Numbered
    <3> QED BY <1>2, <3>1
  <2> QED BY <2>1, <2>2 DEF LineRows
<1>8. lines' = {[l EXCEPT !.flagged = @ \/ l.num \in h[p].ids] : l \in lines}
  BY DEF Till!PayCommit
<1>9. lines' # {} /\ \A l \in lines' : l.flagged <=> l \in Till!Gated'
  <2>1. ASSUME NEW x \in lines' PROVE x.flagged <=> x \in Till!Gated'
    <3>1. PICK l \in lines : x = [l EXCEPT !.flagged = @ \/ l.num \in h[p].ids]
      BY <1>8
    <3>2. x.class = l.class /\ (x.flagged <=> l \in Till!Gated)
      BY <1>7, <3>1
    <3> QED BY <3>2 DEF Till!Gated
  <2>2. PICK l : l \in lines
    BY <1>2
  <2>3. [l EXCEPT !.flagged = @ \/ l.num \in h[p].ids] \in lines'
    BY <1>8, <2>2
  <2> QED BY <2>1, <2>3
<1>10. (Till!Gated = {})' <=> Till!Gated = {}
  <2>1. ASSUME NEW x \in Till!Gated' PROVE Till!Gated # {}
    <3>1. x \in lines' /\ x.class \in {"adult", "restricted"}
      BY DEF Till!Gated
    <3>2. PICK l \in lines : x = [l EXCEPT !.flagged = @ \/ l.num \in h[p].ids]
      BY <1>8, <3>1
    <3>3. l.class = x.class
      BY <1>7, <3>2
    <3> QED BY <3>1, <3>3 DEF Till!Gated
  <2>2. ASSUME NEW l \in Till!Gated PROVE (Till!Gated # {})'
    <3>1. PICK x : x = [l EXCEPT !.flagged = @ \/ l.num \in h[p].ids]
      OBVIOUS
    <3>2. l \in lines /\ l.class \in {"adult", "restricted"}
      BY DEF Till!Gated
    <3>3. x \in lines' /\ x.class = l.class
      BY <1>7, <1>8, <3>1, <3>2
    <3> QED BY <3>2, <3>3 DEF Till!Gated
  <2> QED BY <2>1, <2>2
<1>11. Till!SoldAsFilled'
  <2>1. txn'.subtotal = Till!GrossOf(lines)' /\ txn'.total < txn'.subtotal + Coin
    BY <1>0, <1>1, <1>2, <1>4, <1>6 DEF Gross, Till!Txns
  <2> QED BY <1>2, <1>4, <1>6, <1>9, <1>10, <2>1 DEF Till!SoldAsFilled
<1>12. h' = [h EXCEPT ![p] = Till!Idle] /\ Asked(Till!Idle)'
  BY DEF Till!PayCommit, Till!Goto, Asked, Till!Idle
<1>13. txn'.status = "completed"
  BY <1>4, <1>6
<1> QED BY <1>1, <1>11, <1>12, <1>13, AskedOnly

LEMMA FilledReap ==
    ASSUME Till!CartAssumption, OneHandler, FilledInv, NEW p \in Handlers, Till!ReapCommit(p)
    PROVE  FilledInv'
<1>1. TillInv'
  BY ReapKeeps DEF FilledInv
<1>2. /\ h[p].seen = txn /\ txn.status = "open" /\ txn \in Till!Txns /\ lines = {} /\ lines' = lines
      /\ txn.subtotal = Till!GrossOf(lines) /\ txn.total <= txn.subtotal
  BY DEF FilledInv, Asked, Till!ReapCommit, TillInv, TillTyped, Till!SoldAsFilled
<1>3. PICK new : new = [txn EXCEPT !.status = "cancelled"]
  OBVIOUS
<1>4. new \in Till!Txns /\ new.subtotal = txn.subtotal /\ new.total = txn.total /\ new.status = "cancelled"
  BY <1>2, <1>3 DEF Till!Txns
<1>5. txn' = new
  BY <1>2, <1>3, <1>4, TxnAsIs DEF Till!ReapCommit, Till!Saw
<1>6. Till!SoldAsFilled'
  BY <1>2, <1>4, <1>5 DEF Till!SoldAsFilled, Till!GrossOf
<1>7. h' = [h EXCEPT ![p] = Till!Idle] /\ Asked(Till!Idle)'
  BY DEF Till!ReapCommit, Till!Goto, Asked, Till!Idle
<1> QED BY <1>1, <1>2, <1>4, <1>5, <1>6, <1>7, AskedOnly

(* A step that changes neither the cart nor its lines. *)
LEMMA FilledGoesOn ==
    ASSUME OneHandler, FilledInv, TillInv', NEW p \in Handlers, NEW r, Asked(r),
           h' = [h EXCEPT ![p] = r], UNCHANGED <<txn, lines>>
    PROVE  FilledInv'
<1>1. Asked(r)' /\ Till!SoldAsFilled'
  BY DEF Asked, Till!Gated, FilledInv, Till!SoldAsFilled, Till!GrossOf
<1>2. (txn.status = "unused" => lines = {})' /\ (txn.status # "completed" => \A l \in lines : ~l.flagged)'
  BY DEF FilledInv
<1> QED BY <1>1, <1>2, AskedOnly

LEMMA FilledReads ==
    ASSUME OneHandler, FilledInv, TillInv', NEW p \in Handlers,
           \/ Till!ItemLoad(p) \/ Till!PayLoad(p) \/ Till!ReapLoad(p) \/ Till!WalkIn(p)
           \/ Till!Attach(p) \/ Till!Abort(p)
           \/ \E g \in Till!Grounds : Till!Cleared(p, g)
           \/ \E k \in BOOLEAN : Till!Refused(p, k)
    PROVE  FilledInv'
<1>1. Asked(h[p]) /\ h[p] \in TillRequests
  BY DEF FilledInv, TillInv, TillTyped
<1>2. CASE Till!ItemLoad(p)
  <2>1. Asked([op |-> "item", seen |-> txn])
    BY <1>2 DEF Till!ItemLoad, Asked
  <2> QED BY <1>2, <2>1, FilledGoesOn DEF Till!ItemLoad, Till!Goto
<1>3. CASE Till!PayLoad(p)
  <2>1. Asked([op |-> "pay", seen |-> txn])
    BY <1>3 DEF Till!PayLoad, Asked
  <2> QED BY <1>3, <2>1, FilledGoesOn DEF Till!PayLoad, Till!Goto
<1>4. CASE Till!ReapLoad(p)
  <2>1. Asked([op |-> "reap", seen |-> txn])
    BY <1>4 DEF Till!ReapLoad, Asked
  <2> QED BY <1>4, <2>1, FilledGoesOn DEF Till!ReapLoad, Till!Goto
<1>5. CASE Till!WalkIn(p) \/ Till!Attach(p)
  <2>1. PICK n, b : /\ h' = [h EXCEPT ![p] = [op |-> "age", seen |-> h[p].seen, total |-> n, was |-> member, owner |-> b]]
                    /\ UNCHANGED <<txn, lines>> /\ lines # {} /\ h[p].op = "pay"
    BY <1>5 DEF Till!WalkIn, Till!Attach, Till!Goto, Till!Saw
  <2>2. PICK r : r = [op |-> "age", seen |-> h[p].seen, total |-> n, was |-> member, owner |-> b]
    OBVIOUS
  <2>3. Asked(r)
    BY <1>1, <2>1, <2>2 DEF Asked
  <2> QED BY <2>1, <2>2, <2>3, FilledGoesOn
<1>6. CASE Till!Abort(p) \/ \E k \in BOOLEAN : Till!Refused(p, k)
  <2>1. h' = [h EXCEPT ![p] = Till!Idle] /\ UNCHANGED <<txn, lines>>
    BY <1>6 DEF Till!Abort, Till!Refused, Till!Goto
  <2>2. Asked(Till!Idle)
    BY DEF Asked, Till!Idle
  <2> QED BY <2>1, <2>2, FilledGoesOn
<1>7. ASSUME NEW g \in Till!Grounds, Till!Cleared(p, g) PROVE FilledInv'
  <2>1. PICK r : r = [op |-> "clear", seen |-> h[p].seen, total |-> h[p].total, was |-> h[p].was,
                      owner |-> h[p].owner, basis |-> g, ids |-> {l.num : l \in Till!Gated}]
    OBVIOUS
  <2>2. h' = [h EXCEPT ![p] = r] /\ UNCHANGED <<txn, lines>>
    BY <1>7, <2>1 DEF Till!Cleared, Till!Goto, Till!Saw
  <2>3. Asked(r)
    BY <1>1, <1>7, <2>1 DEF Asked, Till!Cleared
  <2> QED BY <2>2, <2>3, FilledGoesOn
<1> QED BY <1>2, <1>3, <1>4, <1>5, <1>6, <1>7

LEMMA FilledStays ==
    ASSUME Till!CartAssumption, OneHandler, FilledInv, [Till!Next]_(Till!vars) PROVE FilledInv'
<1>1. TillInv'
  BY TillStays DEF FilledInv
<1>2. CASE Till!Open
  <2>1. /\ txn \in Till!Txns /\ txn.status = "unused" /\ txn' = [txn EXCEPT !.status = "open"]
        /\ UNCHANGED <<lines, h>> /\ lines = {}
    BY <1>2 DEF Till!Open, FilledInv, TillInv, TillTyped
  <2>2. txn'.status = "open" /\ txn'.subtotal = txn.subtotal /\ txn'.total = txn.total
    BY <2>1 DEF Till!Txns
  <2>3. \A p \in Handlers : h[p].op = "none"
    BY <2>1 DEF FilledInv, Asked
  <2>4. Till!SoldAsFilled'
    BY <2>1, <2>2 DEF FilledInv, Till!SoldAsFilled, Till!GrossOf
  <2> QED BY <1>1, <2>1, <2>2, <2>3, <2>4 DEF FilledInv, Asked
<1>3. ASSUME UNCHANGED <<txn, lines, h>> PROVE FilledInv'
  <2>1. Till!SoldAsFilled'
    BY <1>3 DEF FilledInv, Till!SoldAsFilled, Till!GrossOf, Till!Gated
  <2> QED BY <1>1, <1>3, <2>1 DEF FilledInv, Asked, Till!Gated
<1>4. ASSUME NEW p \in Handlers, Till!Counter(p) PROVE FilledInv'
  BY <1>3, <1>4 DEF Till!Counter
<1>5. CASE UNCHANGED Till!vars
  BY <1>3, <1>5 DEF Till!vars
<1>6. ASSUME NEW p \in Handlers, NEW n \in 0 .. MaxPrice, NEW m \in {n} \cup 1 .. n, NEW a \in BOOLEAN,
             NEW f \in BOOLEAN, NEW c \in Till!Classes, Till!ItemCommit(p, n, m, a, c, f)
      PROVE  FilledInv'
  <2>1. m \in 0 .. MaxPrice
    BY DEF Till!CartAssumption
  <2> QED BY <1>6, <2>1, FilledItem
<1>7. ASSUME NEW p \in Handlers, NEW paid, Till!PayCommit(p, paid) PROVE FilledInv'
  BY <1>7, FilledPay
<1> QED BY <1>1, <1>2, <1>4, <1>5, <1>6, <1>7, FilledReap, FilledReads DEF Till!Next
-----------------------------------------------------------------------------
(***************************************************************************)
(* The card terminal.  What the property speaks of, sales, payments and    *)
(* what was taken, is the end of a story whose middle is in the handlers:  *)
(* a row that is flushed and not committed.  ApartInv says what the unique *)
(* indexes make of it: of two handlers past the flush, and of such a       *)
(* handler and a sale, none has the other's key or number.                 *)
(***************************************************************************)
Cards == INSTANCE Terminal

LEMMA CardSizes == ASSUME NEW S PROVE Cards!Cardinality(S) = Cardinality(S)
BY DEF Cardinality, IsFiniteSet, Cards!Cardinality, Cards!IsFiniteSet

(* The states of a handler. *)
CardStatuses == {"approved", "declined", "aborted", "timeout"}
Nums == Nat \ {0}
Looking == [pc : {"lookup"}, key : Baskets]
Writing == [pc : {"insert", "charge", "waiting"}, key : Baskets, num : Nums]
Answered == [pc : {"result"}, key : Baskets, num : Nums, status : CardStatuses]
CardRequests == {Cards!Idle} \cup Looking \cup Writing \cup Answered

CardsTyped ==
    /\ bills \subseteq [key : Baskets, num : Nums] /\ IsFiniteSet(bills)
    /\ captured \in [Baskets -> Nat]
    /\ cut \in Seq(CardRequests)
    /\ h \in [Handlers -> CardRequests]

Held == {"charge", "waiting", "result"}

(* No two sales, no two handlers past the flush, and no such handler and a sale have a key
   or a number in common. *)
ApartInv ==
    /\ CardsTyped
    /\ \A s, t \in bills : Cards!Clash(s, t) => s = t
    /\ \A x, y \in Handlers : Cards!Holding(x) /\ Cards!Holding(y) /\ Cards!Clash(h[x], h[y]) => x = y
    /\ \A x \in Handlers, s \in bills : Cards!Holding(x) => ~Cards!Clash(h[x], s)

LEMMA IdleIsARequest == Cards!Idle \in CardRequests /\ Cards!Idle.pc = "idle"
BY DEF CardRequests, Cards!Idle
-----------------------------------------------------------------------------
(* What a step does to the handlers: one of them changes, to a request. *)
Becomes(x, r) == r \in CardRequests /\ h' = [h EXCEPT ![x] = r]

LEMMA CardsTypedInit == Cards!Init => CardsTyped
<1> SUFFICES ASSUME Cards!Init PROVE CardsTyped
  OBVIOUS
<1>1. bills \subseteq [key : Baskets, num : Nums] /\ IsFiniteSet(bills)
  BY FS_EmptySet DEF Cards!Init
<1>2. cut \in Seq(CardRequests)
  BY DEF Cards!Init
<1> QED BY <1>1, <1>2, IdleIsARequest DEF Cards!Init, CardsTyped

LEMMA LeaveBecomes == ASSUME NEW x \in Handlers, Cards!Leave(x) PROVE Becomes(x, Cards!Idle)
BY IdleIsARequest DEF Cards!Leave, Becomes

LEMMA PostBecomes ==
    ASSUME CardsTyped, NEW x \in Handlers, NEW k \in Baskets, Cards!Post(x, k)
    PROVE  \E r \in Looking : Becomes(x, r)
<1>1. [pc |-> "lookup", key |-> k] \in Looking
  BY DEF Looking
<1> QED BY <1>1 DEF Cards!Post, Becomes, CardRequests

LEMMA LookupBecomes ==
    ASSUME CardsTyped, NEW x \in Handlers, Cards!Lookup(x)
    PROVE  \/ Becomes(x, Cards!Idle)
           \/ \E r \in Writing : r.pc = "insert" /\ Becomes(x, r)
<1>1. h[x] \in CardRequests /\ h[x].pc = "lookup"
  BY DEF CardsTyped, Cards!Lookup
<1>2. h[x].key \in Baskets
  BY <1>1 DEF CardRequests, Looking, Writing, Answered, Cards!Idle
<1>3. Cardinality(bills) + 1 \in Nums
  BY FS_CardinalityType DEF CardsTyped, Nums
<1>4. CASE Cards!Leave(x)
  BY <1>4, LeaveBecomes
<1>5. CASE ~Cards!Leave(x)
  <2> DEFINE r == [pc |-> "insert", key |-> h[x].key, num |-> Cardinality(bills) + 1]
  <2>1. h' = [h EXCEPT ![x] = r]
    BY <1>5, CardSizes DEF Cards!Lookup
  <2>2. r \in Writing /\ r.pc = "insert"
    BY <1>2, <1>3 DEF Writing
  <2> QED BY <2>1, <2>2 DEF Becomes, CardRequests
<1> QED BY <1>4, <1>5

(* A handler in "insert", "charge" or "waiting" is one of Writing. *)
LEMMA IsWriting ==
    ASSUME NEW r \in CardRequests, r.pc \in {"insert", "charge", "waiting"}
    PROVE  r \in Writing
BY DEF CardRequests, Looking, Writing, Answered, Cards!Idle

LEMMA IsAnswered ==
    ASSUME NEW r \in CardRequests, r.pc = "result"
    PROVE  r \in Answered
BY DEF CardRequests, Looking, Writing, Answered, Cards!Idle

(* The flush keeps key and number. *)
LEMMA InsertBecomes ==
    ASSUME CardsTyped, NEW x \in Handlers, Cards!Insert(x)
    PROVE  \/ Becomes(x, Cards!Idle)
           \/ /\ \A s \in bills : ~Cards!Clash(h[x], s)
              /\ \E r \in Writing : /\ r.pc = "charge" /\ r.key = h[x].key /\ r.num = h[x].num
                                    /\ Becomes(x, r)
<1>1. h[x] \in Writing
  BY IsWriting DEF CardsTyped, Cards!Insert
<1>2. CASE Cards!Leave(x)
  BY <1>2, LeaveBecomes
<1>3. CASE ~Cards!Leave(x)
  <2> DEFINE r == [h[x] EXCEPT !.pc = "charge"]
  <2>1. h' = [h EXCEPT ![x] = r] /\ \A s \in bills : ~Cards!Clash(h[x], s)
    BY <1>3 DEF Cards!Insert
  <2>2. r \in Writing /\ r.pc = "charge" /\ r.key = h[x].key /\ r.num = h[x].num
    BY <1>1 DEF Writing
  <2> QED BY <2>1, <2>2 DEF Becomes, CardRequests
<1> QED BY <1>2, <1>3

(* The terminal's answer keeps them too, and takes money where it approves. *)
LEMMA ChargeBecomes ==
    ASSUME CardsTyped, NEW x \in Handlers, Cards!Charge(x)
    PROVE  /\ h[x] \in Writing /\ h[x].pc = "charge"
           /\ \/ Becomes(x, Cards!Idle) /\ UNCHANGED captured
              \/ /\ \E r \in Writing : /\ r.pc = "waiting" /\ r.key = h[x].key /\ r.num = h[x].num
                                       /\ Becomes(x, r)
                 /\ UNCHANGED captured
              \/ \E r \in Answered :
                    /\ r.key = h[x].key /\ r.num = h[x].num
                    /\ Becomes(x, r)
                    /\ captured' = IF r.status = "approved"
                                   THEN [captured EXCEPT ![h[x].key] = @ + 1] ELSE captured
<1>1. h[x] \in Writing /\ h[x].pc = "charge"
  BY IsWriting DEF CardsTyped, Cards!Charge
<1>2. CASE Cards!Leave(x) /\ UNCHANGED captured
  BY <1>1, <1>2, LeaveBecomes
<1>3. CASE h' = [h EXCEPT ![x].pc = "waiting"] /\ UNCHANGED captured
  <2> DEFINE r == [h[x] EXCEPT !.pc = "waiting"]
  <2>1. h' = [h EXCEPT ![x] = r]
    BY <1>3
  <2>2. r \in Writing /\ r.pc = "waiting" /\ r.key = h[x].key /\ r.num = h[x].num
    BY <1>1 DEF Writing
  <2> QED BY <1>1, <1>3, <2>1, <2>2 DEF Becomes, CardRequests
<1>4. ASSUME NEW status \in {"approved", "declined", "aborted"},
             h' = [h EXCEPT ![x] = [pc |-> "result", key |-> h[x].key, num |-> @.num, status |-> status]],
             captured' = IF status = "approved" THEN [captured EXCEPT ![h[x].key] = @ + 1] ELSE captured
      PROVE  \E r \in Answered :
                    /\ r.key = h[x].key /\ r.num = h[x].num
                    /\ Becomes(x, r)
                    /\ captured' = IF r.status = "approved"
                                   THEN [captured EXCEPT ![h[x].key] = @ + 1] ELSE captured
  <2> DEFINE r == [pc |-> "result", key |-> h[x].key, num |-> h[x].num, status |-> status]
  <2>1. h' = [h EXCEPT ![x] = r]
    BY <1>4
  <2>2. r \in Answered /\ r.status = status /\ r.key = h[x].key /\ r.num = h[x].num
    BY <1>1 DEF Writing, Answered, CardStatuses
  <2> QED BY <1>4, <2>1, <2>2 DEF Becomes, CardRequests
<1> QED BY <1>1, <1>2, <1>3, <1>4 DEF Cards!Charge

LEMMA TimeOutBecomes ==
    ASSUME CardsTyped, NEW x \in Handlers, Cards!TimeOut(x)
    PROVE  /\ h[x] \in Writing /\ h[x].pc = "waiting"
           /\ \E r \in Answered : /\ r.key = h[x].key /\ r.num = h[x].num /\ r.status = "timeout"
                                  /\ Becomes(x, r)
<1>1. h[x] \in Writing /\ h[x].pc = "waiting"
  BY IsWriting DEF CardsTyped, Cards!TimeOut
<1> DEFINE r == [pc |-> "result", key |-> h[x].key, num |-> h[x].num, status |-> "timeout"]
<1>2. h' = [h EXCEPT ![x] = r]
  BY DEF Cards!TimeOut
<1>3. r \in Answered
  BY <1>1 DEF Writing, Answered, CardStatuses
<1> QED BY <1>1, <1>2, <1>3 DEF Becomes, CardRequests

(* A handler that completes has an answer, and writes the sale and its payment. *)
Bill(r) == [key |-> r.key, num |-> r.num]
Receipt(s) == [num |-> s.num, amount |-> Total[s.key], status |-> "approved"]

LEMMA CompleteBecomes ==
    ASSUME CardsTyped, NEW x \in Handlers, Cards!Complete(x)
    PROVE  /\ h[x] \in Answered /\ h[x].status = "approved"
           /\ Becomes(x, Cards!Idle)
           /\ Bill(h[x]) \in [key : Baskets, num : Nums]
           /\ bills' = bills \cup {Bill(h[x])}
           /\ payments' = payments \cup {Receipt(Bill(h[x]))}
<1>1. h[x] \in Answered /\ h[x].status = "approved"
  BY IsAnswered DEF CardsTyped, Cards!Complete
<1>2. Bill(h[x]) \in [key : Baskets, num : Nums]
  BY <1>1 DEF Bill, Answered
<1> QED BY <1>1, <1>2, LeaveBecomes DEF Cards!Complete, Bill, Receipt
-----------------------------------------------------------------------------
LEMMA BecomesTyped ==
    ASSUME CardsTyped, NEW x \in Handlers, NEW r, Becomes(x, r)
    PROVE  /\ h' \in [Handlers -> CardRequests]
           /\ h'[x] = r
           /\ \A y \in Handlers \ {x} : h'[y] = h[y]
BY DEF CardsTyped, Becomes

(* Whoever is past the flush after a step that writes no sale, and was before, with the same
   key and number, or is not any more, is in nobody's way. *)
LEMMA StaysApart ==
    ASSUME ApartInv, NEW x \in Handlers, NEW r, Becomes(x, r), UNCHANGED bills, CardsTyped',
           r.pc \in Held => h[x].pc \in Held /\ r.key = h[x].key /\ r.num = h[x].num
    PROVE  ApartInv'
<1> USE DEF ApartInv
<1>1. /\ h'[x] = r
      /\ \A y \in Handlers \ {x} : h'[y] = h[y]
  BY BecomesTyped
<1>2. ASSUME NEW y \in Handlers, Cards!Holding(y)'
      PROVE  Cards!Holding(y) /\ h'[y].key = h[y].key /\ h'[y].num = h[y].num
  BY <1>1, <1>2 DEF Cards!Holding, Held
<1>3. (\A s, t \in bills : Cards!Clash(s, t) => s = t)'
  BY DEF Cards!Clash
<1>4. (\A y, z \in Handlers : Cards!Holding(y) /\ Cards!Holding(z) /\ Cards!Clash(h[y], h[z]) => y = z)'
  BY <1>2 DEF Cards!Clash
<1>5. (\A y \in Handlers, s \in bills : Cards!Holding(y) => ~Cards!Clash(h[y], s))'
  BY <1>2 DEF Cards!Clash
<1> QED BY <1>3, <1>4, <1>5

(* The flush lets a handler in that is in nobody's way. *)
LEMMA FlushApart ==
    ASSUME ApartInv, NEW x \in Handlers, Cards!Insert(x), CardsTyped'
    PROVE  ApartInv'
<1> USE DEF ApartInv
<1>0. UNCHANGED bills
  BY DEF Cards!Insert, Cards!Rows
<1>1. CASE Becomes(x, Cards!Idle)
  BY <1>0, <1>1, StaysApart, IdleIsARequest DEF Held
<1>2. ASSUME \A s \in bills : ~Cards!Clash(h[x], s),
             NEW r \in Writing, r.pc = "charge", r.key = h[x].key, r.num = h[x].num, Becomes(x, r)
      PROVE  ApartInv'
  <2>1. /\ h'[x] = r
        /\ \A y \in Handlers \ {x} : h'[y] = h[y]
    BY <1>2, BecomesTyped
  <2>2. \A y \in Handlers : Cards!Holding(y) => ~Cards!Clash(h[x], h[y])
    BY DEF Cards!Insert
  <2>3. (\A s, t \in bills : Cards!Clash(s, t) => s = t)'
    BY <1>0 DEF Cards!Clash
  <2>4. (\A y, z \in Handlers : Cards!Holding(y) /\ Cards!Holding(z) /\ Cards!Clash(h[y], h[z]) => y = z)'
    <3> SUFFICES ASSUME NEW y \in Handlers, NEW z \in Handlers, Cards!Holding(y)', Cards!Holding(z)',
                        Cards!Clash(h[y], h[z])', y # z
                 PROVE  FALSE
      OBVIOUS
    <3>1. CASE y = x
      BY <1>2, <2>1, <2>2, <3>1 DEF Cards!Clash, Cards!Holding
    <3>2. CASE z = x
      BY <1>2, <2>1, <2>2, <3>2 DEF Cards!Clash, Cards!Holding
    <3>3. CASE y # x /\ z # x
      BY <2>1, <3>3 DEF Cards!Clash, Cards!Holding
    <3> QED BY <3>1, <3>2, <3>3
  <2>5. (\A y \in Handlers, s \in bills : Cards!Holding(y) => ~Cards!Clash(h[y], s))'
    <3> SUFFICES ASSUME NEW y \in Handlers, NEW s \in bills, Cards!Holding(y)', Cards!Clash(h'[y], s)
                 PROVE  FALSE
      BY <1>0 DEF Cards!Clash
    <3>1. CASE y = x
      BY <1>2, <2>1, <3>1 DEF Cards!Clash
    <3>2. CASE y # x
      BY <2>1, <3>2 DEF Cards!Clash, Cards!Holding
    <3> QED BY <3>1, <3>2
  <2> QED BY <2>3, <2>4, <2>5
<1> QED BY <1>1, <1>2, InsertBecomes

(* The sale takes the place of the handler that wrote it. *)
LEMMA CompleteApart ==
    ASSUME ApartInv, NEW x \in Handlers, Cards!Complete(x), CardsTyped'
    PROVE  ApartInv'
<1> USE DEF ApartInv
<1> DEFINE b == Bill(h[x])
<1>1. /\ h'[x] = Cards!Idle /\ ~Cards!Holding(x)'
      /\ \A y \in Handlers \ {x} : h'[y] = h[y]
  BY CompleteBecomes, BecomesTyped, IdleIsARequest DEF Cards!Holding
<1>2. bills' = bills \cup {b} /\ b.key = h[x].key /\ b.num = h[x].num
  BY CompleteBecomes DEF Bill
<1>3. Cards!Holding(x)
  BY DEF Cards!Holding, Cards!Complete
<1>4. (\A s, t \in bills : Cards!Clash(s, t) => s = t)'
  <2>1. \A s \in bills : ~Cards!Clash(b, s) /\ ~Cards!Clash(s, b)
    BY <1>2, <1>3 DEF Cards!Clash
  <2>2. \A s, t \in bills \cup {b} : Cards!Clash(s, t) => s = t
    BY <2>1
  <2> QED BY <1>2, <2>2 DEF Cards!Clash
<1>5. (\A y, z \in Handlers : Cards!Holding(y) /\ Cards!Holding(z) /\ Cards!Clash(h[y], h[z]) => y = z)'
  BY <1>1 DEF Cards!Clash, Cards!Holding
<1>6. (\A y \in Handlers, s \in bills : Cards!Holding(y) => ~Cards!Clash(h[y], s))'
  <2> SUFFICES ASSUME NEW y \in Handlers \ {x}, Cards!Holding(y), NEW s \in bills \cup {b}
               PROVE  ~Cards!Clash(h[y], s)
    BY <1>1, <1>2 DEF Cards!Clash, Cards!Holding
  <2>1. CASE s \in bills
    BY <2>1
  <2>2. CASE s = b
    BY <1>2, <1>3, <2>2 DEF Cards!Clash
  <2> QED BY <2>1, <2>2
<1> QED BY <1>4, <1>5, <1>6
-----------------------------------------------------------------------------
(* Every step: the tables and the handlers stay typed. *)
LEMMA CardsTypedNext == CardsTyped /\ [Cards!Next]_(Cards!vars) => CardsTyped'
<1> SUFFICES ASSUME CardsTyped, [Cards!Next]_(Cards!vars) PROVE CardsTyped'
  OBVIOUS
<1> USE DEF CardsTyped
<1>1. ASSUME NEW x \in Handlers, NEW r, Becomes(x, r), UNCHANGED <<bills, captured, cut>>
      PROVE  CardsTyped'
  BY <1>1, BecomesTyped
<1>2. ASSUME NEW x \in Handlers, NEW k \in Baskets, Cards!Post(x, k) PROVE CardsTyped'
  BY <1>1, <1>2, PostBecomes DEF Cards!Post, Cards!Rows
<1>3. ASSUME NEW x \in Handlers, Cards!Lookup(x) PROVE CardsTyped'
  BY <1>1, <1>3, LookupBecomes DEF Cards!Lookup, Cards!Rows
<1>4. ASSUME NEW x \in Handlers, Cards!Insert(x) PROVE CardsTyped'
  BY <1>1, <1>4, InsertBecomes DEF Cards!Insert, Cards!Rows
<1>5. ASSUME NEW x \in Handlers, Cards!Charge(x) PROVE CardsTyped'
  <2>1. UNCHANGED <<bills, cut>>
    BY <1>5 DEF Cards!Charge
  <2>2. h[x] \in Writing
    BY <1>5, ChargeBecomes
  <2>3. captured' \in [Baskets -> Nat]
    <3>1. h[x].key \in Baskets
      BY <2>2 DEF Writing
    <3>2. captured' = captured \/ captured' = [captured EXCEPT ![h[x].key] = @ + 1]
      BY <1>5, ChargeBecomes
    <3> QED BY <3>1, <3>2
  <2>4. \E r : Becomes(x, r)
    BY <1>5, ChargeBecomes
  <2> QED BY <2>1, <2>3, <2>4, BecomesTyped
<1>6. ASSUME NEW x \in Handlers, Cards!TimeOut(x) PROVE CardsTyped'
  BY <1>1, <1>6, TimeOutBecomes DEF Cards!TimeOut, Cards!Rows
<1>7. ASSUME NEW x \in Handlers, Cards!Complete(x) PROVE CardsTyped'
  <2>1. UNCHANGED <<captured, cut>>
    BY <1>7 DEF Cards!Complete
  <2>2. bills' \subseteq [key : Baskets, num : Nums] /\ IsFiniteSet(bills')
    <3>1. bills' = bills \cup {Bill(h[x])} /\ Bill(h[x]) \in [key : Baskets, num : Nums]
      BY <1>7, CompleteBecomes
    <3>2. IsFiniteSet(bills \cup {Bill(h[x])})
      BY FS_AddElement
    <3> QED BY <3>1, <3>2
  <2>3. h' \in [Handlers -> CardRequests]
    BY <1>7, CompleteBecomes, BecomesTyped
  <2> QED BY <2>1, <2>2, <2>3
<1>8. ASSUME NEW x \in Handlers, Cards!Decline(x) PROVE CardsTyped'
  BY <1>1, <1>8, LeaveBecomes DEF Cards!Decline, Cards!Rows
<1>9. ASSUME NEW x \in Handlers, Cards!Cut(x) PROVE CardsTyped'
  <2>1. UNCHANGED <<bills, captured>> /\ cut' = Append(cut, h[x])
    BY <1>9 DEF Cards!Cut
  <2>2. cut' \in Seq(CardRequests)
    BY <2>1, AppendProperties
  <2>3. h' \in [Handlers -> CardRequests]
    BY <1>9, LeaveBecomes, BecomesTyped DEF Cards!Cut
  <2> QED BY <2>1, <2>2, <2>3
<1>10. CASE UNCHANGED Cards!vars
  BY <1>10 DEF Cards!vars
<1> QED BY <1>2, <1>3, <1>4, <1>5, <1>6, <1>7, <1>8, <1>9, <1>10 DEF Cards!Next

LEMMA ApartInit == Cards!Init => ApartInv
BY CardsTypedInit DEF Cards!Init, ApartInv, Cards!Holding, Cards!Idle

(* Every step: nobody gets in anybody's way. *)
LEMMA ApartNext == ApartInv /\ [Cards!Next]_(Cards!vars) => ApartInv'
<1> SUFFICES ASSUME ApartInv, [Cards!Next]_(Cards!vars) PROVE ApartInv'
  OBVIOUS
<1>0. CardsTyped /\ CardsTyped'
  BY CardsTypedNext DEF ApartInv
<1>1. ASSUME NEW x \in Handlers, NEW k \in Baskets, Cards!Post(x, k) PROVE ApartInv'
  <2>1. PICK r \in Looking : Becomes(x, r)
    BY <1>0, <1>1, PostBecomes
  <2> QED BY <1>0, <1>1, <2>1, StaysApart DEF Looking, Held, Cards!Post, Cards!Rows
<1>2. ASSUME NEW x \in Handlers, Cards!Lookup(x) PROVE ApartInv'
  <2>1. PICK r : Becomes(x, r) /\ r.pc \notin Held
    BY <1>0, <1>2, LookupBecomes, IdleIsARequest DEF Held
  <2> QED BY <1>0, <1>2, <2>1, StaysApart DEF Cards!Lookup, Cards!Rows
<1>3. ASSUME NEW x \in Handlers, Cards!Insert(x) PROVE ApartInv'
  BY <1>0, <1>3, FlushApart
<1>4. ASSUME NEW x \in Handlers, Cards!Charge(x) PROVE ApartInv'
  <2>1. PICK r : /\ Becomes(x, r)
                 /\ r.pc \in Held => h[x].pc \in Held /\ r.key = h[x].key /\ r.num = h[x].num
    BY <1>0, <1>4, ChargeBecomes, IdleIsARequest DEF Held
  <2> QED BY <1>0, <1>4, <2>1, StaysApart DEF Cards!Charge
<1>5. ASSUME NEW x \in Handlers, Cards!TimeOut(x) PROVE ApartInv'
  <2>1. PICK r : /\ Becomes(x, r)
                 /\ r.pc \in Held => h[x].pc \in Held /\ r.key = h[x].key /\ r.num = h[x].num
    BY <1>0, <1>5, TimeOutBecomes DEF Held
  <2> QED BY <1>0, <1>5, <2>1, StaysApart DEF Cards!TimeOut, Cards!Rows
<1>6. ASSUME NEW x \in Handlers, Cards!Complete(x) PROVE ApartInv'
  BY <1>0, <1>6, CompleteApart
<1>7. ASSUME NEW x \in Handlers, Cards!Decline(x) \/ Cards!Cut(x) PROVE ApartInv'
  <2>1. Becomes(x, Cards!Idle) /\ UNCHANGED bills
    BY <1>7, LeaveBecomes DEF Cards!Decline, Cards!Cut, Cards!Rows
  <2> QED BY <1>0, <2>1, StaysApart, IdleIsARequest DEF Held
<1>8. CASE UNCHANGED Cards!vars
  BY <1>0, <1>8 DEF Cards!vars, ApartInv, Cards!Clash, Cards!Holding
<1> QED BY <1>1, <1>2, <1>3, <1>4, <1>5, <1>6, <1>7, <1>8 DEF Cards!Next

(* The columns of the rows hold what they may hold. *)
THEOREM TerminalTyped == Cards!Spec => []Cards!TypeOK
<1>1. CardsTyped => Cards!TypeOK
  BY DEF CardsTyped, Cards!TypeOK, Nums
<1> QED BY <1>1, CardsTypedInit, CardsTypedNext, PTL DEF Cards!Spec

(* No two sales have the key of one basket or one number. *)
SalesApart == \A s, t \in bills : Cards!Clash(s, t) => s = t

(* The card till never writes a basket or a receipt number twice, however many handlers are
   between the flush and the commit.  (create_sale.) *)
THEOREM SalesStayApart == Cards!Spec => []SalesApart
<1>1. ApartInv => SalesApart
  BY DEF ApartInv, SalesApart
<1> QED BY <1>1, ApartInit, ApartNext, PTL DEF Cards!Spec
-----------------------------------------------------------------------------
(* Every sale has its payment, and there is no other. *)
Paid == payments = {Receipt(s) : s \in bills}

LEMMA PaidNext == CardsTyped /\ Paid /\ [Cards!Next]_(Cards!vars) => Paid'
<1> SUFFICES ASSUME CardsTyped, Paid, [Cards!Next]_(Cards!vars) PROVE Paid'
  OBVIOUS
<1>1. ASSUME NEW x \in Handlers, Cards!Complete(x) PROVE Paid'
  BY <1>1, CompleteBecomes DEF Paid, Receipt
<1>2. CASE UNCHANGED <<bills, payments>>
  BY <1>2 DEF Paid, Receipt
<1> QED BY <1>1, <1>2 DEF Cards!Next, Cards!Post, Cards!Lookup, Cards!Insert, Cards!Charge, Cards!TimeOut, Cards!Decline, Cards!Cut, Cards!Rows, Cards!vars

(* What Cards!PaidOnce counts of a basket. *)
Sold(k) == {s \in bills : s.key = k}
Lost(k) == {i \in DOMAIN cut : Cards!Approved(cut[i], k)}
Charged(k) == {x \in Handlers : Cards!Approved(h[x], k)}

Accounted(k) == captured[k] = Cardinality(Lost(k)) + Cardinality(Sold(k)) + Cardinality(Charged(k))

LEMMA OneOrNone ==
    ASSUME NEW S, S = {} \/ \E x \in S : S = {x}
    PROVE  IsFiniteSet(S) /\ Cardinality(S) = IF S = {} THEN 0 ELSE 1
<1>1. CASE S = {}
  BY <1>1, FS_EmptySet
<1>2. ASSUME NEW x \in S, S = {x} PROVE IsFiniteSet(S) /\ Cardinality(S) = 1 /\ S # {}
  BY <1>2, FS_Singleton
<1> QED BY <1>1, <1>2

(* Of a basket there is one sale, or one handler with an approval, or neither. *)
LEMMA OneOfThem ==
    ASSUME ApartInv, NEW k \in Baskets
    PROVE  /\ IsFiniteSet(Sold(k)) /\ IsFiniteSet(Charged(k)) /\ IsFiniteSet(Lost(k))
           /\ Cardinality(Sold(k)) + Cardinality(Charged(k)) <= 1
<1> USE DEF ApartInv, CardsTyped
<1>1. Sold(k) = {} \/ \E s \in Sold(k) : Sold(k) = {s}
  BY DEF Sold, Cards!Clash
<1>2. Charged(k) = {} \/ \E x \in Charged(k) : Charged(k) = {x}
  BY DEF Charged, Cards!Approved, Cards!Clash, Cards!Holding
<1>3. Sold(k) = {} \/ Charged(k) = {}
  BY DEF Sold, Charged, Cards!Approved, Cards!Clash, Cards!Holding
<1>4. IsFiniteSet(Lost(k))
  <2>1. DOMAIN cut = 1 .. Len(cut) /\ Len(cut) \in Nat
    BY LenProperties
  <2>2. IsFiniteSet(1 .. Len(cut))
    BY <2>1, FS_Interval
  <2>3. Lost(k) \subseteq 1 .. Len(cut)
    BY <2>1 DEF Lost
  <2> QED BY <2>2, <2>3, FS_Subset
<1>5. IsFiniteSet(Sold(k)) /\ Cardinality(Sold(k)) = IF Sold(k) = {} THEN 0 ELSE 1
  BY <1>1, OneOrNone
<1>6. IsFiniteSet(Charged(k)) /\ Cardinality(Charged(k)) = IF Charged(k) = {} THEN 0 ELSE 1
  BY <1>2, OneOrNone
<1> QED BY <1>3, <1>4, <1>5, <1>6

(* What a step does to Charged(k): only the handler that moves comes in or goes out. *)
LEMMA ChargedMoves ==
    ASSUME CardsTyped, NEW k \in Baskets, NEW x \in Handlers, NEW r, Becomes(x, r)
    PROVE  Charged(k)' = IF Cards!Approved(r, k) THEN Charged(k) \cup {x} ELSE Charged(k) \ {x}
BY BecomesTyped DEF Charged, Cards!Approved

LEMMA AccountedNext ==
    ASSUME ApartInv, NEW k \in Baskets, Accounted(k), [Cards!Next]_(Cards!vars)
    PROVE  Accounted(k)'
<1>0. CardsTyped /\ captured[k] \in Nat
  BY DEF ApartInv, CardsTyped
<1>a. /\ IsFiniteSet(Sold(k)) /\ IsFiniteSet(Charged(k)) /\ IsFiniteSet(Lost(k))
      /\ Cardinality(Sold(k)) \in Nat /\ Cardinality(Charged(k)) \in Nat /\ Cardinality(Lost(k)) \in Nat
  BY OneOfThem, FS_CardinalityType
(* No approval comes or goes. *)
<1>1. ASSUME NEW x \in Handlers, NEW r, Becomes(x, r), ~Cards!Approved(r, k), ~Cards!Approved(h[x], k),
             UNCHANGED <<bills, captured, cut>>
      PROVE  Accounted(k)'
  <2>1. Charged(k)' = Charged(k)
    BY <1>0, <1>1, ChargedMoves DEF Charged
  <2> QED BY <1>1, <2>1 DEF Accounted, Sold, Lost
<1>2. ASSUME NEW x \in Handlers, NEW b \in Baskets, Cards!Post(x, b) PROVE Accounted(k)'
  <2>1. PICK r \in Looking : Becomes(x, r)
    BY <1>0, <1>2, PostBecomes
  <2> QED BY <1>1, <1>2, <2>1 DEF Cards!Post, Cards!Rows, Cards!Approved, Looking, Cards!Idle
<1>3. ASSUME NEW x \in Handlers, Cards!Lookup(x) PROVE Accounted(k)'
  <2>1. PICK r : Becomes(x, r) /\ r.pc \in {"idle", "insert"}
    BY <1>0, <1>3, LookupBecomes, IdleIsARequest
  <2> QED BY <1>1, <1>3, <2>1 DEF Cards!Lookup, Cards!Rows, Cards!Approved
<1>4. ASSUME NEW x \in Handlers, Cards!Insert(x) PROVE Accounted(k)'
  <2>1. PICK r : Becomes(x, r) /\ r.pc \in {"idle", "charge"}
    BY <1>0, <1>4, InsertBecomes, IdleIsARequest
  <2> QED BY <1>1, <1>4, <2>1 DEF Cards!Insert, Cards!Rows, Cards!Approved
<1>5. ASSUME NEW x \in Handlers, Cards!Charge(x) PROVE Accounted(k)'
  <2>1. UNCHANGED <<bills, cut>> /\ h[x] \in Writing /\ h[x].pc = "charge" /\ ~Cards!Approved(h[x], k)
    BY <1>0, <1>5, ChargeBecomes DEF Cards!Charge, Cards!Approved
  <2>2. ASSUME NEW r, r.pc \in {"idle", "waiting"}, Becomes(x, r), UNCHANGED captured
        PROVE  Accounted(k)'
    BY <1>1, <2>1, <2>2 DEF Cards!Approved
  <2>3. ASSUME NEW r \in Answered, r.key = h[x].key, r.num = h[x].num, Becomes(x, r),
               captured' = IF r.status = "approved"
                           THEN [captured EXCEPT ![h[x].key] = @ + 1] ELSE captured
        PROVE  Accounted(k)'
    <3>1. CASE ~Cards!Approved(r, k)
      <4>1. Charged(k)' = Charged(k)
        BY <1>0, <2>1, <2>3, <3>1, ChargedMoves DEF Charged
      <4>2. captured'[k] = captured[k]
        <5>1. r.status # "approved" \/ h[x].key # k
          BY <2>3, <3>1 DEF Cards!Approved, Answered
        <5> QED BY <1>0, <2>3, <5>1 DEF CardsTyped
      <4> QED BY <2>1, <4>1, <4>2 DEF Accounted, Sold, Lost
    <3>2. CASE Cards!Approved(r, k)
      <4>1. captured'[k] = captured[k] + 1
        BY <1>0, <2>3, <3>2 DEF Cards!Approved, CardsTyped
      <4>2. x \notin Charged(k)
        BY <2>1 DEF Charged
      <4>3. Charged(k)' = Charged(k) \cup {x}
        BY <1>0, <2>3, <3>2, ChargedMoves
      <4>4. Cardinality(Charged(k)') = Cardinality(Charged(k)) + 1
        BY <1>a, <4>2, <4>3, FS_AddElement
      <4>5. Sold(k)' = Sold(k) /\ Lost(k)' = Lost(k)
        BY <2>1 DEF Sold, Lost
      <4> QED BY <1>0, <1>a, <4>1, <4>4, <4>5 DEF Accounted
    <3> QED BY <3>1, <3>2
  <2> QED BY <1>0, <1>5, <2>2, <2>3, ChargeBecomes, IdleIsARequest
<1>6. ASSUME NEW x \in Handlers, Cards!TimeOut(x) PROVE Accounted(k)'
  <2>1. PICK r : Becomes(x, r) /\ r.status = "timeout"
    BY <1>0, <1>6, TimeOutBecomes
  <2> QED BY <1>1, <1>6, <2>1 DEF Cards!TimeOut, Cards!Rows, Cards!Approved
<1>7. ASSUME NEW x \in Handlers, Cards!Complete(x) PROVE Accounted(k)'
  <2> DEFINE b == Bill(h[x])
  <2>1. /\ Becomes(x, Cards!Idle) /\ h[x].status = "approved" /\ h[x].pc = "result"
        /\ bills' = bills \cup {b} /\ b.key = h[x].key
        /\ UNCHANGED <<captured, cut>>
    BY <1>0, <1>7, CompleteBecomes DEF Cards!Complete, Bill
  <2>2. Charged(k)' = Charged(k) \ {x}
    BY <1>0, <2>1, ChargedMoves, IdleIsARequest DEF Cards!Approved
  <2>3. Lost(k)' = Lost(k)
    BY <2>1 DEF Lost
  <2>4. CASE h[x].key # k
    <3>1. Charged(k)' = Charged(k)
      BY <2>2, <2>4 DEF Charged, Cards!Approved
    <3>2. Sold(k)' = Sold(k)
      BY <2>1, <2>4 DEF Sold
    <3> QED BY <2>1, <2>3, <3>1, <3>2 DEF Accounted
  <2>5. CASE h[x].key = k
    <3>1. x \in Charged(k)
      BY <2>1, <2>5 DEF Charged, Cards!Approved
    <3>2. Cardinality(Charged(k)') = Cardinality(Charged(k)) - 1
      BY <1>a, <2>2, <3>1, FS_RemoveElement
    <3>3. b \notin Sold(k)
      BY <2>1 DEF ApartInv, Sold, Cards!Clash, Cards!Holding
    <3>4. Sold(k)' = Sold(k) \cup {b}
      BY <2>1, <2>5 DEF Sold
    <3>5. Cardinality(Sold(k)') = Cardinality(Sold(k)) + 1
      BY <1>a, <3>3, <3>4, FS_AddElement
    <3> QED BY <1>0, <1>a, <2>1, <2>3, <3>2, <3>5 DEF Accounted
  <2> QED BY <2>4, <2>5
<1>8. ASSUME NEW x \in Handlers, Cards!Decline(x) PROVE Accounted(k)'
  <2>1. Becomes(x, Cards!Idle)
    BY <1>8, LeaveBecomes DEF Cards!Decline
  <2> QED BY <1>1, <1>8, <2>1, IdleIsARequest DEF Cards!Decline, Cards!Rows, Cards!Approved
<1>9. ASSUME NEW x \in Handlers, Cards!Cut(x) PROVE Accounted(k)'
  <2>1. Becomes(x, Cards!Idle) /\ UNCHANGED <<bills, payments, captured>> /\ cut' = Append(cut, h[x])
    BY <1>9, LeaveBecomes DEF Cards!Cut
  <2>2. Charged(k)' = Charged(k) \ {x}
    BY <1>0, <2>1, ChargedMoves, IdleIsARequest DEF Cards!Approved
  <2>3. Sold(k)' = Sold(k)
    BY <2>1 DEF Sold
  <2>4. /\ Len(cut) \in Nat /\ DOMAIN cut = 1 .. Len(cut)
        /\ DOMAIN cut' = 1 .. (Len(cut) + 1)
        /\ \A i \in 1 .. Len(cut) : cut'[i] = cut[i]
        /\ cut'[Len(cut) + 1] = h[x]
    <3>1. cut \in Seq(CardRequests) /\ h[x] \in CardRequests
      BY <1>0 DEF CardsTyped
    <3> QED BY <2>1, <3>1
  <2>5. CASE ~Cards!Approved(h[x], k)
    <3>1. Charged(k)' = Charged(k)
      BY <2>2, <2>5 DEF Charged
    <3>2. Lost(k)' = Lost(k)
      BY <2>4, <2>5 DEF Lost
    <3> QED BY <2>1, <2>3, <3>1, <3>2 DEF Accounted
  <2>6. CASE Cards!Approved(h[x], k)
    <3>1. x \in Charged(k)
      BY <2>6 DEF Charged
    <3>2. Cardinality(Charged(k)') = Cardinality(Charged(k)) - 1
      BY <1>a, <2>2, <3>1, FS_RemoveElement
    <3>3. Len(cut) + 1 \notin Lost(k)
      BY <2>4 DEF Lost
    <3>4. Lost(k)' = Lost(k) \cup {Len(cut) + 1}
      BY <2>4, <2>6 DEF Lost
    <3>5. Cardinality(Lost(k)') = Cardinality(Lost(k)) + 1
      BY <1>a, <3>3, <3>4, FS_AddElement
    <3> QED BY <1>0, <1>a, <2>1, <2>3, <3>2, <3>5 DEF Accounted
  <2> QED BY <2>5, <2>6
<1>10. CASE UNCHANGED Cards!vars
  BY <1>10 DEF Cards!vars, Accounted, Sold, Lost, Charged
<1> QED BY <1>2, <1>3, <1>4, <1>5, <1>6, <1>7, <1>8, <1>9, <1>10 DEF Cards!Next
-----------------------------------------------------------------------------
TakenInv == ApartInv /\ Paid /\ \A k \in Baskets : Accounted(k)

LEMMA TakenInit == Cards!Init => TakenInv
<1> SUFFICES ASSUME Cards!Init PROVE TakenInv
  OBVIOUS
<1>1. Paid
  BY DEF Cards!Init, Paid
<1>2. ASSUME NEW k \in Baskets PROVE Accounted(k)
  <2>1. Lost(k) = {} /\ Sold(k) = {} /\ Charged(k) = {}
    BY DEF Cards!Init, Lost, Sold, Charged, Cards!Approved, Cards!Idle
  <2> QED BY <2>1, FS_EmptySet DEF Accounted, Cards!Init
<1> QED BY <1>1, <1>2, ApartInit DEF TakenInv

LEMMA TakenNext == TakenInv /\ [Cards!Next]_(Cards!vars) => TakenInv'
<1> SUFFICES ASSUME TakenInv, [Cards!Next]_(Cards!vars) PROVE TakenInv'
  OBVIOUS
<1>1. ApartInv'
  BY ApartNext DEF TakenInv
<1>2. Paid'
  BY PaidNext DEF TakenInv, ApartInv
<1>3. ASSUME NEW k \in Baskets PROVE Accounted(k)'
  BY <1>3, AccountedNext DEF TakenInv
<1> QED BY <1>1, <1>2, <1>3 DEF TakenInv

LEMMA TakenOnce == TakenInv => Cards!PaidOnce
<1> SUFFICES ASSUME TakenInv PROVE Cards!PaidOnce
  OBVIOUS
<1>1. ASSUME NEW k \in Baskets
      PROVE  /\ captured[k] = Cardinality(Lost(k)) + Cardinality(Sold(k)) + Cardinality(Charged(k))
             /\ Cardinality(Sold(k)) + Cardinality(Charged(k)) <= 1
  BY OneOfThem DEF TakenInv, Accounted
<1>2. ASSUME NEW s \in bills
      PROVE  {p \in payments : p.num = s.num} =
             {[num |-> s.num, amount |-> Total[s.key], status |-> "approved"]}
  <2>1. \A t \in bills : t.num = s.num => t = s
    BY DEF TakenInv, ApartInv, Cards!Clash
  <2> QED BY <2>1 DEF TakenInv, Paid, Receipt
<1> QED BY <1>1, <1>2, CardSizes DEF Cards!PaidOnce, Lost, Sold, Charged

(* With any number of handlers, declines, timeouts, posts again and restarts, the terminal takes
   the money of a basket once, for the one sale it becomes, and that sale has the one payment
   that says so; the exception is a handler that is stopped between approval and commit.
   (create_sale, _capture_terminal_sim, charge.) *)
THEOREM MoneyTakenOnce == Cards!Spec => []Cards!PaidOnce
BY TakenInit, TakenNext, TakenOnce, PTL DEF Cards!Spec
-----------------------------------------------------------------------------
(***************************************************************************)
(* Members.  An adjustment commits the balance and the totals it has read, *)
(* and its ledger entry; the entries are only added to, so what is read,   *)
(* and what is committed, counts nothing the ledger does not.  With one    *)
(* handler in flight what is read is what is there, and the balance is     *)
(* the entries' sum.                                                       *)
(***************************************************************************)
Club == INSTANCE Members

LEMMA ClubSizes ==
    ASSUME NEW X
    PROVE  /\ Club!IsFiniteSet(X) <=> IsFiniteSet(X)
           /\ Club!Cardinality(X) = Cardinality(X)
BY DEF Cardinality, IsFiniteSet, Club!Cardinality, Club!IsFiniteSet

LEMMA FieldsCounted ==
    ASSUME Club!MembersAssumption, NEW f \in SUBSET Fields PROVE Club!Cardinality(f) \in Nat
BY ClubSizes, FS_Subset, FS_CardinalityType DEF Club!MembersAssumption

MemberRows == [state : {"unused", "active", "inactive"}, balance : Int, earned : Nat,
               spent : Nat, referrals : Nat, fields : SUBSET Fields]
LedgerRows == [plus : Nat, minus : Nat, last : Int]
ClubRequests == {Club!Idle} \cup [op : {"refer", "update", "state", "adjust"}, id : Persons, seen : MemberRows]

ClubTyped ==
    /\ member \in [Persons -> MemberRows]
    /\ ledger \in [Persons -> LedgerRows]
    /\ h \in [Handlers -> ClubRequests]

(* A row of a member that counts nothing the ledger does not. *)
Backed(row, m) == row.balance >= 0 /\ row.earned <= ledger[m].plus /\ row.spent <= ledger[m].minus

ClubInv ==
    /\ ClubTyped
    /\ \A m \in Persons : Backed(member[m], m)
    /\ \A p \in Handlers : h[p] # Club!Idle => /\ Backed(h[p].seen, h[p].id)
                                               /\ h[p].seen.state # "unused"
                                               /\ member[h[p].id].state # "unused"

LEMMA ClubBegins == ASSUME Club!Init PROVE ClubInv
<1>1. Club!NoMember \in MemberRows /\ Club!NoRows \in LedgerRows
  BY DEF Club!NoMember, Club!NoRows, MemberRows, LedgerRows
<1>2. ClubTyped
  BY <1>1 DEF Club!Init, ClubTyped, ClubRequests
<1>3. \A m \in Persons : Backed(member[m], m)
  BY DEF Club!Init, Backed, Club!NoMember, Club!NoRows
<1> QED BY <1>2, <1>3 DEF ClubInv, Club!Init

LEMMA ClubRequest ==
    ASSUME ClubTyped, NEW p \in Handlers, h[p] # Club!Idle
    PROVE  /\ h[p].op \in {"refer", "update", "state", "adjust"}
           /\ h[p].id \in Persons /\ h[p].seen \in MemberRows
BY DEF ClubTyped, ClubRequests

LEMMA FlushedMember ==
    ASSUME NEW cur \in MemberRows, NEW new \in MemberRows, NEW seen
    PROVE  LET row == Club!Flushed(cur, seen, new)
           IN  /\ row \in MemberRows
               /\ row.state \in {cur.state, new.state} /\ row.balance \in {cur.balance, new.balance}
               /\ row.earned \in {cur.earned, new.earned} /\ row.spent \in {cur.spent, new.spent}
<1> DEFINE row == Club!Flushed(cur, seen, new)
<1>1. row = [state |-> IF new.state = seen.state THEN cur.state ELSE new.state,
             balance |-> IF new.balance = seen.balance THEN cur.balance ELSE new.balance,
             earned |-> IF new.earned = seen.earned THEN cur.earned ELSE new.earned,
             spent |-> IF new.spent = seen.spent THEN cur.spent ELSE new.spent,
             referrals |-> IF new.referrals = seen.referrals THEN cur.referrals ELSE new.referrals,
             fields |-> IF new.fields = seen.fields THEN cur.fields ELSE new.fields]
  BY DEF Club!Flushed, MemberRows
<1> HIDE DEF row
<1>2. /\ row.state \in {cur.state, new.state} /\ row.balance \in {cur.balance, new.balance}
      /\ row.earned \in {cur.earned, new.earned} /\ row.spent \in {cur.spent, new.spent}
  BY <1>1
<1>3. row \in MemberRows
  BY <1>1 DEF MemberRows
<1> QED BY <1>2, <1>3 DEF row

(* What an entry of n credits makes of a member's ledger. *)
LEMMA Entry ==
    ASSUME NEW row \in LedgerRows, NEW n \in Int, NEW after \in Int
    PROVE  LET new == Club!Logged(row, n, after)
           IN  /\ new \in LedgerRows /\ new.last = after
               /\ n >= 0 => new.plus = row.plus + n /\ new.minus = row.minus
               /\ n <= 0 => new.plus = row.plus /\ new.minus = row.minus - n
<1>1. CASE n > 0
  <2>1. Club!Logged(row, n, after) = [plus |-> row.plus + n, minus |-> row.minus, last |-> after]
    BY <1>1 DEF Club!Logged, LedgerRows
  <2> QED BY <1>1, <2>1 DEF LedgerRows
<1>2. CASE n <= 0
  <2>1. Club!Logged(row, n, after) = [plus |-> row.plus, minus |-> row.minus - n, last |-> after]
    BY <1>2 DEF Club!Logged, LedgerRows
  <2>2. row.minus - n \in Nat
    BY <1>2 DEF LedgerRows
  <2> QED BY <1>2, <2>1, <2>2 DEF LedgerRows
<1> QED BY <1>1, <1>2

LEMMA PaidRow ==
    ASSUME NEW row \in MemberRows, NEW n \in Nat
    PROVE  LET new == Club!Paid(row, n)
           IN  /\ new \in MemberRows
               /\ new = [row EXCEPT !.balance = row.balance + n, !.earned = row.earned + n]
               /\ new.state = row.state /\ new.balance = row.balance + n /\ new.earned = row.earned + n
               /\ new.spent = row.spent
<1> DEFINE new == Club!Paid(row, n)
<1>1. new = [row EXCEPT !.balance = row.balance + n, !.earned = row.earned + n]
  BY DEF Club!Paid
<1>2. new = [state |-> row.state, balance |-> row.balance + n, earned |-> row.earned + n,
             spent |-> row.spent, referrals |-> row.referrals, fields |-> row.fields]
  BY <1>1 DEF MemberRows
<1>3. row.balance + n \in Int /\ row.earned + n \in Nat
  BY DEF MemberRows
<1> HIDE DEF new
<1>4. new \in MemberRows
  BY <1>2, <1>3 DEF MemberRows
<1> QED BY <1>1, <1>2, <1>4 DEF new

(* Ledgers that only grow, of members that stay, keep backing what was read. *)
LEMMA ClubGrows ==
    ASSUME ClubInv, ClubTyped', (\A m \in Persons : Backed(member[m], m))',
           \A m \in Persons : member[m].state # "unused" =>
                                 /\ member'[m].state # "unused"
                                 /\ ledger[m].plus <= ledger'[m].plus /\ ledger[m].minus <= ledger'[m].minus,
           \A q \in Handlers : h'[q] = h[q] \/ h'[q] = Club!Idle
    PROVE  ClubInv'
<1>1. ASSUME NEW q \in Handlers, h'[q] # Club!Idle
      PROVE  /\ Backed(h[q].seen, h[q].id)'
             /\ h'[q].seen.state # "unused" /\ member'[h'[q].id].state # "unused"
  <2>1. h'[q] = h[q] /\ h[q] # Club!Idle
    BY <1>1
  <2>2. /\ h[q].id \in Persons /\ h[q].seen \in MemberRows /\ Backed(h[q].seen, h[q].id)
        /\ h[q].seen.state # "unused" /\ member[h[q].id].state # "unused"
    BY <2>1, ClubRequest DEF ClubInv
  <2>3. PICK m \in Persons : m = h[q].id
    BY <2>2
  <2>4. ledger[m] \in LedgerRows /\ ledger'[m] \in LedgerRows
    BY DEF ClubInv, ClubTyped
  <2>5. h[q].seen.earned \in Nat /\ h[q].seen.spent \in Nat
    BY <2>2 DEF MemberRows
  <2> QED BY <2>1, <2>2, <2>3, <2>4, <2>5 DEF Backed, LedgerRows
<1> QED BY <1>1 DEF ClubInv

(* The row a handler commits, with its entry in the ledger. *)
LEMMA RowCommits ==
    ASSUME ClubInv, NEW m \in Persons, NEW seen, NEW new \in MemberRows,
           member[m].state # "unused", new.state # "unused",
           NEW entry \in LedgerRows, ledger[m].plus <= entry.plus, ledger[m].minus <= entry.minus,
           new.balance >= 0, new.earned <= entry.plus, new.spent <= entry.minus
    PROVE  LET row == Club!Flushed(member[m], seen, new)
           IN  /\ row \in MemberRows /\ row.state # "unused"
               /\ row.balance >= 0 /\ row.earned <= entry.plus /\ row.spent <= entry.minus
<1>1. PICK row : row = Club!Flushed(member[m], seen, new)
  OBVIOUS
<1>2. member[m] \in MemberRows /\ ledger[m] \in LedgerRows /\ Backed(member[m], m)
  BY DEF ClubInv, ClubTyped
<1>3. /\ row \in MemberRows
      /\ row.state \in {member[m].state, new.state} /\ row.balance \in {member[m].balance, new.balance}
      /\ row.earned \in {member[m].earned, new.earned} /\ row.spent \in {member[m].spent, new.spent}
  BY <1>1, <1>2, FlushedMember
<1>4. member[m].balance >= 0 /\ member[m].earned <= entry.plus /\ member[m].spent <= entry.minus
  BY <1>2 DEF Backed, MemberRows, LedgerRows
<1> QED BY <1>1, <1>3, <1>4

LEMMA ClubCommits ==
    ASSUME ClubInv, NEW p \in Handlers, h[p] # Club!Idle, h' = [h EXCEPT ![p] = Club!Idle],
           NEW new \in MemberRows, new.state # "unused",
           member' = [member EXCEPT ![h[p].id] = Club!Flushed(@, h[p].seen, new)],
           NEW entry \in LedgerRows, ledger' = [ledger EXCEPT ![h[p].id] = entry],
           new.balance >= 0, new.earned <= entry.plus, new.spent <= entry.minus,
           ledger[h[p].id].plus <= entry.plus, ledger[h[p].id].minus <= entry.minus
    PROVE  ClubInv'
<1>1. PICK m \in Persons : m = h[p].id
  BY ClubRequest DEF ClubInv
<1>2. PICK row : row = Club!Flushed(member[m], h[p].seen, new)
  OBVIOUS
<1>3. member[m].state # "unused"
  BY <1>1 DEF ClubInv
<1>4. /\ row \in MemberRows /\ row.state # "unused"
      /\ row.balance >= 0 /\ row.earned <= entry.plus /\ row.spent <= entry.minus
  BY <1>1, <1>2, <1>3, RowCommits
<1>5. \A x \in Persons : /\ member'[x] = IF x = m THEN row ELSE member[x]
                         /\ ledger'[x] = IF x = m THEN entry ELSE ledger[x]
  BY <1>1, <1>2 DEF ClubInv, ClubTyped
<1>6. ClubTyped'
  BY <1>1, <1>2, <1>4 DEF ClubInv, ClubTyped, ClubRequests
<1>7. (\A x \in Persons : Backed(member[x], x))'
  BY <1>4, <1>5 DEF ClubInv, Backed
<1>8. \A x \in Persons : member[x].state # "unused" =>
                            /\ member'[x].state # "unused"
                            /\ ledger[x].plus <= ledger'[x].plus /\ ledger[x].minus <= ledger'[x].minus
  <2> TAKE x \in Persons
  <2>1. ledger[x] \in LedgerRows
    BY DEF ClubInv, ClubTyped
  <2> QED BY <1>1, <1>4, <1>5, <2>1 DEF LedgerRows
<1>9. \A q \in Handlers : h'[q] = h[q] \/ h'[q] = Club!Idle
  BY DEF ClubInv, ClubTyped
<1> QED BY <1>6, <1>7, <1>8, <1>9, ClubGrows

(* Someone new: with n credits, an active row and the ledger of it. *)
LEMMA Newcomer ==
    ASSUME NEW filled \in SUBSET Fields, NEW n \in Nat
    PROVE  LET row == [Club!Paid(Club!NoMember, n) EXCEPT !.state = "active", !.fields = filled]
               entry == Club!Logged(Club!NoRows, n, n)
           IN  /\ row \in MemberRows /\ row.state = "active"
               /\ row.balance = n /\ row.earned = n /\ row.spent = 0
               /\ entry \in LedgerRows /\ entry.plus = n /\ entry.minus = 0 /\ entry.last = n
<1>1. /\ Club!NoMember \in MemberRows /\ Club!NoRows \in LedgerRows
      /\ Club!NoRows.plus = 0 /\ Club!NoRows.minus = 0
      /\ Club!NoMember.balance = 0 /\ Club!NoMember.earned = 0 /\ Club!NoMember.spent = 0
  BY DEF Club!NoMember, Club!NoRows, MemberRows, LedgerRows
<1>2. PICK paid : paid = Club!Paid(Club!NoMember, n)
  OBVIOUS
<1>3. paid \in MemberRows /\ paid.balance = n /\ paid.earned = n /\ paid.spent = 0
  <2>1. PICK nobody \in MemberRows : nobody = Club!NoMember
    BY <1>1
  <2>2. /\ paid \in MemberRows /\ paid.balance = nobody.balance + n /\ paid.earned = nobody.earned + n
        /\ paid.spent = nobody.spent
    BY <1>2, <2>1, PaidRow
  <2> QED BY <1>1, <2>1, <2>2
<1>4. PICK row : row = [paid EXCEPT !.state = "active", !.fields = filled]
  OBVIOUS
<1>5. /\ row \in MemberRows /\ row.state = "active"
      /\ row.balance = n /\ row.earned = n /\ row.spent = 0
  BY <1>3, <1>4 DEF MemberRows
<1>6. LET entry == Club!Logged(Club!NoRows, n, n)
      IN  entry \in LedgerRows /\ entry.plus = n /\ entry.minus = 0 /\ entry.last = n
  BY <1>1, Entry
<1> QED BY <1>2, <1>4, <1>5, <1>6

LEMMA EnrolKeeps ==
    ASSUME Club!MembersAssumption, ClubInv, NEW p \in Handlers, NEW m \in Persons,
           NEW filled \in SUBSET Fields, Club!Enrol(p, m, filled)
    PROVE  ClubInv'
<1>1. PICK n : n = 1 + Club!Cardinality(filled)
  OBVIOUS
<1>2. n \in Nat
  BY <1>1, FieldsCounted
<1>3. PICK row, entry : /\ row = [Club!Paid(Club!NoMember, n) EXCEPT !.state = "active", !.fields = filled]
                        /\ entry = Club!Logged(Club!NoRows, n, n)
  OBVIOUS
<1>4. /\ row \in MemberRows /\ row.state = "active" /\ row.balance = n /\ row.earned = n /\ row.spent = 0
      /\ entry \in LedgerRows /\ entry.plus = n /\ entry.minus = 0 /\ entry.last = n
  BY <1>2, <1>3, Newcomer
<1>5. /\ member' = [member EXCEPT ![m] = row] /\ ledger' = [ledger EXCEPT ![m] = entry]
      /\ h' = h /\ member[m].state = "unused"
  BY <1>1, <1>3 DEF Club!Enrol
<1>6. \A x \in Persons : /\ member'[x] = IF x = m THEN row ELSE member[x]
                         /\ ledger'[x] = IF x = m THEN entry ELSE ledger[x]
  BY <1>5 DEF ClubInv, ClubTyped
<1>7. ClubTyped'
  BY <1>4, <1>5 DEF ClubInv, ClubTyped
<1>8. (\A x \in Persons : Backed(member[x], x))'
  BY <1>2, <1>4, <1>6 DEF ClubInv, Backed
<1>9. \A x \in Persons : member[x].state # "unused" =>
                            /\ member'[x].state # "unused"
                            /\ ledger[x].plus <= ledger'[x].plus /\ ledger[x].minus <= ledger'[x].minus
  BY <1>5, <1>6 DEF ClubInv, ClubTyped, LedgerRows
<1> QED BY <1>5, <1>7, <1>8, <1>9, ClubGrows

(* The row of a member who brought somebody. *)
LEMMA RewardedRow ==
    ASSUME NEW seen \in MemberRows
    PROVE  LET new == [Club!Paid(seen, 1) EXCEPT !.referrals = @ + 1]
           IN  /\ new \in MemberRows /\ new.state = seen.state /\ new.balance = seen.balance + 1
               /\ new.earned = seen.earned + 1 /\ new.spent = seen.spent
<1>1. PICK paid : paid = Club!Paid(seen, 1)
  OBVIOUS
<1>2. /\ paid \in MemberRows /\ paid.state = seen.state /\ paid.balance = seen.balance + 1
      /\ paid.earned = seen.earned + 1 /\ paid.spent = seen.spent
  BY <1>1, PaidRow
<1>3. PICK new : new = [paid EXCEPT !.referrals = paid.referrals + 1]
  OBVIOUS
<1>4. new \in MemberRows
  BY <1>2, <1>3 DEF MemberRows
<1>5. /\ new.state = paid.state /\ new.balance = paid.balance /\ new.earned = paid.earned
      /\ new.spent = paid.spent
  BY <1>2, <1>3 DEF MemberRows
<1> QED BY <1>1, <1>2, <1>3, <1>4, <1>5

LEMMA ReferKeeps ==
    ASSUME Club!MembersAssumption, ClubInv, NEW p \in Handlers, NEW m \in Persons,
           NEW filled \in SUBSET Fields, Club!ReferCommit(p, m, filled)
    PROVE  ClubInv'
<1>1. /\ h[p] # Club!Idle /\ member[m].state = "unused" /\ h' = [h EXCEPT ![p] = Club!Idle]
  BY DEF Club!ReferCommit, Club!Idle
<1>2. PICK r \in Persons : r = h[p].id
  BY <1>1, ClubRequest DEF ClubInv
<1>3. /\ member[r].state # "unused" /\ r # m /\ h[p].seen \in MemberRows /\ h[p].seen.state # "unused"
      /\ Backed(h[p].seen, r) /\ ledger[r] \in LedgerRows
  BY <1>1, <1>2, ClubRequest DEF ClubInv, ClubTyped
<1>4. PICK n : n = 2 + Club!Cardinality(filled)
  OBVIOUS
<1>5. n \in Nat
  BY <1>4, FieldsCounted
<1>6. PICK row, fresh : /\ row = [Club!Paid(Club!NoMember, n) EXCEPT !.state = "active", !.fields = filled]
                        /\ fresh = Club!Logged(Club!NoRows, n, n)
  OBVIOUS
<1>7. /\ row \in MemberRows /\ row.state = "active" /\ row.balance = n /\ row.earned = n /\ row.spent = 0
      /\ fresh \in LedgerRows /\ fresh.plus = n /\ fresh.minus = 0 /\ fresh.last = n
  BY <1>5, <1>6, Newcomer
<1>8. PICK new : new = [Club!Paid(h[p].seen, 1) EXCEPT !.referrals = @ + 1]
  OBVIOUS
<1>9. /\ new \in MemberRows /\ new.state = h[p].seen.state /\ new.balance = h[p].seen.balance + 1
      /\ new.earned = h[p].seen.earned + 1 /\ new.spent = h[p].seen.spent
  BY <1>3, <1>8, RewardedRow
<1>10. PICK entry : entry = Club!Logged(ledger[r], 1, new.balance)
  OBVIOUS
<1>11. /\ entry \in LedgerRows /\ entry.plus = ledger[r].plus + 1 /\ entry.minus = ledger[r].minus
       /\ entry.last = new.balance
  <2>1. new.balance \in Int
    BY <1>9 DEF MemberRows
  <2> QED BY <1>3, <1>10, <2>1, Entry
<1>12. PICK held : held = Club!Flushed(member[r], h[p].seen, new)
  OBVIOUS
<1>13. /\ member' = [member EXCEPT ![m] = row, ![r] = held]
       /\ ledger' = [ledger EXCEPT ![m] = fresh, ![r] = entry]
  BY <1>2, <1>3, <1>4, <1>6, <1>8, <1>10, <1>12 DEF Club!ReferCommit, ClubInv, ClubTyped
<1>14. /\ held \in MemberRows /\ held.state # "unused"
       /\ held.balance >= 0 /\ held.earned <= entry.plus /\ held.spent <= entry.minus
  <2>1. /\ new.balance >= 0 /\ new.earned <= entry.plus /\ new.spent <= entry.minus
        /\ ledger[r].plus <= entry.plus /\ ledger[r].minus <= entry.minus
    BY <1>3, <1>9, <1>11 DEF Backed, MemberRows, LedgerRows
  <2> QED BY <1>3, <1>9, <1>11, <1>12, <2>1, RowCommits
<1>15. \A x \in Persons : /\ member'[x] = IF x = m THEN row ELSE IF x = r THEN held ELSE member[x]
                          /\ ledger'[x] = IF x = m THEN fresh ELSE IF x = r THEN entry ELSE ledger[x]
  BY <1>3, <1>13 DEF ClubInv, ClubTyped
<1>16. ClubTyped'
  BY <1>1, <1>7, <1>11, <1>13, <1>14 DEF ClubInv, ClubTyped, ClubRequests
<1>17. (\A x \in Persons : Backed(member[x], x))'
  BY <1>5, <1>7, <1>14, <1>15 DEF ClubInv, Backed
<1>18. \A x \in Persons : member[x].state # "unused" =>
                             /\ member'[x].state # "unused"
                             /\ ledger[x].plus <= ledger'[x].plus /\ ledger[x].minus <= ledger'[x].minus
  <2> TAKE x \in Persons
  <2>1. ledger[x] \in LedgerRows
    BY DEF ClubInv, ClubTyped
  <2> QED BY <1>1, <1>3, <1>11, <1>14, <1>15, <2>1 DEF LedgerRows
<1>19. \A q \in Handlers : h'[q] = h[q] \/ h'[q] = Club!Idle
  BY <1>1 DEF ClubInv, ClubTyped
<1> QED BY <1>16, <1>17, <1>18, <1>19, ClubGrows

LEMMA ClubReads ==
    ASSUME ClubInv, NEW p \in Handlers, NEW m \in Persons,
           Club!ReferLoad(p, m) \/ \E op \in {"update", "state", "adjust"} : Club!Load(p, op, m)
    PROVE  ClubInv'
<1>1. PICK op \in {"refer", "update", "state", "adjust"} :
         /\ h' = [h EXCEPT ![p] = [op |-> op, id |-> m, seen |-> member[m]]]
         /\ UNCHANGED <<member, ledger>> /\ member[m].state # "unused"
  BY DEF Club!ReferLoad, Club!Load, Club!Known
<1>2. ClubTyped'
  BY <1>1 DEF ClubInv, ClubTyped, ClubRequests
<1>3. (\A x \in Persons : Backed(member[x], x))'
  BY <1>1 DEF ClubInv, Backed
<1>4. ASSUME NEW q \in Handlers, h'[q] # Club!Idle
      PROVE  /\ Backed(h[q].seen, h[q].id)'
             /\ h'[q].seen.state # "unused" /\ member'[h'[q].id].state # "unused"
  <2>1. CASE q = p
    <3>1. h'[q] = [op |-> op, id |-> m, seen |-> member[m]]
      BY <1>1, <2>1 DEF ClubInv, ClubTyped
    <3>2. h'[q].id = m /\ h'[q].seen = member[m]
      BY <3>1
    <3> QED BY <1>1, <3>2 DEF ClubInv, Backed
  <2>2. CASE q # p
    <3>1. h'[q] = h[q]
      BY <1>1, <2>2 DEF ClubInv, ClubTyped
    <3> QED BY <1>1, <1>4, <3>1 DEF ClubInv, Backed
  <2> QED BY <2>1, <2>2
<1> QED BY <1>2, <1>3, <1>4 DEF ClubInv

(* update_customer, set or unset a state, add_credits: one row and at most one entry. *)
LEMMA UpdateKeeps ==
    ASSUME Club!MembersAssumption, ClubInv, NEW p \in Handlers, NEW filled \in SUBSET Fields,
           Club!Update(p, filled)
    PROVE  ClubInv'
<1>1. h[p] # Club!Idle /\ h' = [h EXCEPT ![p] = Club!Idle]
  BY DEF Club!Update, Club!Save, Club!Idle
<1>2. PICK m \in Persons : m = h[p].id
  BY <1>1, ClubRequest DEF ClubInv
<1>3. /\ h[p].seen \in MemberRows /\ h[p].seen.state # "unused" /\ Backed(h[p].seen, m)
      /\ ledger[m] \in LedgerRows
  BY <1>1, <1>2, ClubRequest DEF ClubInv, ClubTyped
<1>4. PICK n : n = Club!Cardinality(filled \ h[p].seen.fields)
  OBVIOUS
<1>5. n \in Nat
  BY <1>4, FieldsCounted
<1>6. PICK paid : paid = Club!Paid(h[p].seen, n)
  OBVIOUS
<1>7. /\ paid \in MemberRows /\ paid.state = h[p].seen.state /\ paid.balance = h[p].seen.balance + n
      /\ paid.earned = h[p].seen.earned + n /\ paid.spent = h[p].seen.spent
  BY <1>3, <1>5, <1>6, PaidRow
<1>8. PICK new : new = [paid EXCEPT !.fields = filled]
  OBVIOUS
<1>9. /\ new \in MemberRows /\ new.state = paid.state /\ new.balance = paid.balance
      /\ new.earned = paid.earned /\ new.spent = paid.spent
  BY <1>7, <1>8 DEF MemberRows
<1>10. PICK entry : entry = IF n = 0 THEN ledger[m] ELSE Club!Logged(ledger[m], n, new.balance)
  OBVIOUS
<1>11. entry \in LedgerRows /\ entry.plus = ledger[m].plus + n /\ entry.minus = ledger[m].minus
  <2>1. new.balance \in Int
    BY <1>9 DEF MemberRows
  <2>2. CASE n = 0
    BY <1>3, <1>10, <2>2 DEF LedgerRows
  <2>3. CASE n # 0
    <3>1. entry = Club!Logged(ledger[m], n, new.balance)
      BY <1>10, <2>3
    <3> QED BY <1>3, <1>5, <2>1, <3>1, Entry
  <2> QED BY <2>2, <2>3
<1>12. ledger' = [ledger EXCEPT ![m] = entry]
  <2>1. CASE n = 0
    BY <1>2, <1>4, <1>10, <2>1 DEF Club!Update, ClubInv, ClubTyped
  <2>2. CASE n # 0
    <3>1. ledger' = [ledger EXCEPT ![m] = Club!Logged(ledger[m], n, new.balance)]
      BY <1>2, <1>4, <1>6, <1>8, <2>2 DEF Club!Update, ClubInv, ClubTyped
    <3> QED BY <1>10, <2>2, <3>1
  <2> QED BY <2>1, <2>2
<1>13. member' = [member EXCEPT ![h[p].id] = Club!Flushed(@, h[p].seen, new)]
  BY <1>4, <1>6, <1>8 DEF Club!Update, Club!Save
<1>14. /\ new.state # "unused" /\ new.balance >= 0 /\ new.earned <= entry.plus
       /\ new.spent <= entry.minus /\ ledger[m].plus <= entry.plus /\ ledger[m].minus <= entry.minus
  BY <1>3, <1>5, <1>7, <1>9, <1>11 DEF Backed, MemberRows, LedgerRows
<1> QED BY <1>1, <1>2, <1>9, <1>11, <1>12, <1>13, <1>14, ClubCommits

LEMMA SetStateKeeps ==
    ASSUME ClubInv, NEW p \in Handlers, NEW s \in {"active", "inactive"}, Club!SetState(p, s)
    PROVE  ClubInv'
<1>1. h[p] # Club!Idle /\ h' = [h EXCEPT ![p] = Club!Idle]
  BY DEF Club!SetState, Club!Save, Club!Idle
<1>2. PICK m \in Persons : m = h[p].id
  BY <1>1, ClubRequest DEF ClubInv
<1>3. /\ h[p].seen \in MemberRows /\ Backed(h[p].seen, m) /\ ledger[m] \in LedgerRows
  BY <1>1, <1>2, ClubRequest DEF ClubInv, ClubTyped
<1>4. PICK new : new = [h[p].seen EXCEPT !.state = s]
  OBVIOUS
<1>5. /\ new \in MemberRows /\ new.state = s /\ new.balance = h[p].seen.balance
      /\ new.earned = h[p].seen.earned /\ new.spent = h[p].seen.spent
  BY <1>3, <1>4 DEF MemberRows
<1>6. ledger' = [ledger EXCEPT ![h[p].id] = ledger[m]]
  BY <1>2 DEF Club!SetState, ClubInv, ClubTyped
<1>7. member' = [member EXCEPT ![h[p].id] = Club!Flushed(@, h[p].seen, new)]
  BY <1>4 DEF Club!SetState, Club!Save
<1>8. ledger[m].plus <= ledger[m].plus /\ ledger[m].minus <= ledger[m].minus
  BY <1>3 DEF LedgerRows
<1>9. /\ new.state # "unused" /\ new.balance >= 0
      /\ new.earned <= ledger[m].plus /\ new.spent <= ledger[m].minus
  BY <1>3, <1>5 DEF Backed
<1> QED BY <1>1, <1>2, <1>3, <1>5, <1>6, <1>7, <1>8, <1>9, ClubCommits

(* The row of a member whose credits are adjusted by n. *)
LEMMA AdjustedRow ==
    ASSUME NEW seen \in MemberRows, NEW n \in Int
    PROVE  LET new == IF n > 0 THEN Club!Paid(seen, n)
                      ELSE [seen EXCEPT !.balance = @ + n, !.spent = @ - n]
           IN  /\ new \in MemberRows /\ new.state = seen.state /\ new.balance = seen.balance + n
               /\ n >= 0 => new.earned = seen.earned + n /\ new.spent = seen.spent
               /\ n <= 0 => new.earned = seen.earned /\ new.spent = seen.spent - n
<1>1. CASE n > 0
  <2>0. n \in Nat
    BY <1>1
  <2>1. PICK new : new = Club!Paid(seen, n)
    OBVIOUS
  <2>2. /\ new \in MemberRows /\ new.state = seen.state /\ new.balance = seen.balance + n
        /\ new.earned = seen.earned + n /\ new.spent = seen.spent
    BY <2>0, <2>1, PaidRow
  <2> QED BY <1>1, <2>1, <2>2
<1>2. CASE n <= 0
  <2>1. PICK new : new = [seen EXCEPT !.balance = seen.balance + n, !.spent = seen.spent - n]
    OBVIOUS
  <2>2. seen.balance + n \in Int /\ seen.spent - n \in Nat
    BY <1>2 DEF MemberRows
  <2>3. new \in MemberRows
    BY <2>1, <2>2 DEF MemberRows
  <2>4. /\ new.state = seen.state /\ new.balance = seen.balance + n
        /\ new.earned = seen.earned /\ new.spent = seen.spent - n
    BY <2>1 DEF MemberRows
  <2>5. n >= 0 => new.earned = seen.earned + n /\ new.spent = seen.spent
    BY <1>2, <2>4 DEF MemberRows
  <2> QED BY <1>2, <2>1, <2>3, <2>4, <2>5
<1> QED BY <1>1, <1>2

LEMMA AdjustKeeps ==
    ASSUME ClubInv, NEW p \in Handlers, NEW n \in Int, Club!Adjust(p, n) PROVE ClubInv'
<1>1. h[p] # Club!Idle /\ h' = [h EXCEPT ![p] = Club!Idle]
  BY DEF Club!Adjust, Club!Save, Club!Idle
<1>2. PICK m \in Persons : m = h[p].id
  BY <1>1, ClubRequest DEF ClubInv
<1>3. /\ h[p].seen \in MemberRows /\ h[p].seen.state # "unused" /\ Backed(h[p].seen, m)
      /\ ledger[m] \in LedgerRows
  BY <1>1, <1>2, ClubRequest DEF ClubInv, ClubTyped
<1>4. PICK new : new = IF n > 0 THEN Club!Paid(h[p].seen, n)
                       ELSE [h[p].seen EXCEPT !.balance = @ + n, !.spent = @ - n]
  OBVIOUS
<1>5. /\ new \in MemberRows /\ new.state = h[p].seen.state /\ new.balance = h[p].seen.balance + n
      /\ n >= 0 => new.earned = h[p].seen.earned + n /\ new.spent = h[p].seen.spent
      /\ n <= 0 => new.earned = h[p].seen.earned /\ new.spent = h[p].seen.spent - n
  BY <1>3, <1>4, AdjustedRow
<1>6. PICK entry : entry = Club!Logged(ledger[m], n, new.balance)
  OBVIOUS
<1>7. /\ entry \in LedgerRows
      /\ n >= 0 => entry.plus = ledger[m].plus + n /\ entry.minus = ledger[m].minus
      /\ n <= 0 => entry.plus = ledger[m].plus /\ entry.minus = ledger[m].minus - n
  <2>1. new.balance \in Int
    BY <1>5 DEF MemberRows
  <2> QED BY <1>3, <1>6, <2>1, Entry
<1>8. /\ ledger' = [ledger EXCEPT ![h[p].id] = entry] /\ new.balance >= 0
      /\ member' = [member EXCEPT ![h[p].id] = Club!Flushed(@, h[p].seen, new)]
  BY <1>2, <1>4, <1>6 DEF Club!Adjust, Club!Save, ClubInv, ClubTyped
<1>9. /\ new.earned <= entry.plus /\ new.spent <= entry.minus
      /\ ledger[m].plus <= entry.plus /\ ledger[m].minus <= entry.minus
  <2>1. /\ ledger[m].plus \in Nat /\ ledger[m].minus \in Nat
        /\ h[p].seen.earned \in Nat /\ h[p].seen.spent \in Nat
        /\ h[p].seen.earned <= ledger[m].plus /\ h[p].seen.spent <= ledger[m].minus
    BY <1>3 DEF MemberRows, LedgerRows, Backed
  <2>2. CASE n >= 0
    BY <1>5, <1>7, <2>1, <2>2
  <2>3. CASE n <= 0
    BY <1>5, <1>7, <2>1, <2>3
  <2> QED BY <2>2, <2>3
<1>10. new.state # "unused"
  BY <1>3, <1>5
<1> QED BY <1>1, <1>2, <1>5, <1>7, <1>8, <1>9, <1>10, ClubCommits

LEMMA ClubAborts == ASSUME ClubInv, NEW p \in Handlers, Club!Abort(p) PROVE ClubInv'
<1>1. ClubTyped'
  BY DEF Club!Abort, ClubInv, ClubTyped, ClubRequests
<1>2. (\A x \in Persons : Backed(member[x], x))'
  BY DEF Club!Abort, ClubInv, Backed
<1>3. \A x \in Persons : ledger[x].plus <= ledger[x].plus /\ ledger[x].minus <= ledger[x].minus
  BY DEF ClubInv, ClubTyped, LedgerRows
<1>4. \A q \in Handlers : h'[q] = h[q] \/ h'[q] = Club!Idle
  BY DEF Club!Abort, ClubInv, ClubTyped
<1> QED BY <1>1, <1>2, <1>3, <1>4, ClubGrows DEF Club!Abort

LEMMA ClubStays ==
    ASSUME Club!MembersAssumption, ClubInv, [Club!Next]_(Club!vars) PROVE ClubInv'
<1>1. CASE UNCHANGED Club!vars
  BY <1>1 DEF Club!vars, ClubInv, ClubTyped, Backed
<1>2. ASSUME NEW p \in Handlers, NEW n \in -MaxCredits .. MaxCredits, Club!Adjust(p, n) PROVE ClubInv'
  <2>1. n \in Int
    BY DEF Club!MembersAssumption
  <2> QED BY <1>2, <2>1, AdjustKeeps
<1> QED BY <1>1, <1>2, EnrolKeeps, ReferKeeps, ClubReads, UpdateKeeps, SetStateKeeps, ClubAborts
        DEF Club!Next

(* However handlers interleave, every column of a member and of the ledger holds what it may
   hold. *)
THEOREM ClubTypedHolds == ASSUME Club!MembersAssumption PROVE Club!Spec => []Club!TypeOK
<1>1. Club!Init => ClubInv
  BY ClubBegins
<1>2. ClubInv /\ [Club!Next]_(Club!vars) => ClubInv'
  BY ClubStays
<1>3. ClubInv => Club!TypeOK
  <2> SUFFICES ASSUME ClubInv PROVE Club!TypeOK
    OBVIOUS
  <2>1. \A p \in Handlers : h[p] # Club!Idle => h[p].id \in Club!Known
    BY ClubRequest DEF ClubInv, Club!Known
  <2> QED BY <2>1 DEF ClubInv, ClubTyped, Club!TypeOK, MemberRows, LedgerRows
<1> QED BY <1>1, <1>2, <1>3, PTL DEF Club!Spec

LEMMA ClubShows == ClubInv => Club!NeverBelowZero
BY DEF ClubInv, Backed, Club!NeverBelowZero

(* add_credits, create_customer and update_customer: however handlers interleave, no balance
   goes below zero and no total counts a credit the ledger does not. *)
THEOREM NeverBelowZeroHolds ==
    ASSUME Club!MembersAssumption PROVE Club!Spec => []Club!NeverBelowZero
<1>1. Club!Init => ClubInv
  BY ClubBegins
<1>2. ClubInv /\ [Club!Next]_(Club!vars) => ClubInv'
  BY ClubStays
<1> QED BY <1>1, <1>2, ClubShows, PTL DEF Club!Spec
-----------------------------------------------------------------------------
(* One request at a time: the ledger is what the balance says, and what a handler has read of
   a member is what the row still says. *)
Booked(m) ==
    /\ member[m].balance = ledger[m].plus - ledger[m].minus
    /\ member[m].earned = ledger[m].plus /\ member[m].spent = ledger[m].minus
    /\ ledger[m].last = member[m].balance

BookedInv ==
    /\ ClubInv
    /\ \A m \in Persons : Booked(m)
    /\ \A p \in Handlers : h[p] # Club!Idle => h[p].seen = member[h[p].id]

LEMMA SameMember ==
    ASSUME NEW cur \in MemberRows, NEW new \in MemberRows PROVE Club!Flushed(cur, cur, new) = new
BY DEF Club!Flushed, MemberRows

(* A step after which the one handler waits and the members it wrote are booked. *)
LEMMA BookedGoesOn ==
    ASSUME OneHandler, BookedInv, ClubInv', NEW p \in Handlers, h'[p] = Club!Idle,
           \A x \in Persons : Booked(x)' \/ (member'[x] = member[x] /\ ledger'[x] = ledger[x])
    PROVE  BookedInv'
<1>1. (\A x \in Persons : Booked(x))'
  BY DEF BookedInv, Booked
<1>2. \A q \in Handlers : h'[q] = Club!Idle
  BY DEF OneHandler
<1> QED BY <1>1, <1>2 DEF BookedInv

LEMMA BookedEnrols ==
    ASSUME Club!MembersAssumption, OneHandler, BookedInv, NEW p \in Handlers, NEW m \in Persons,
           NEW filled \in SUBSET Fields, Club!Enrol(p, m, filled)
    PROVE  BookedInv'
<1>0. ClubInv'
  BY EnrolKeeps DEF BookedInv
<1>1. PICK n : n = 1 + Club!Cardinality(filled)
  OBVIOUS
<1>2. n \in Nat
  BY <1>1, FieldsCounted
<1>3. PICK row, entry : /\ row = [Club!Paid(Club!NoMember, n) EXCEPT !.state = "active", !.fields = filled]
                        /\ entry = Club!Logged(Club!NoRows, n, n)
  OBVIOUS
<1>4. /\ row.balance = n /\ row.earned = n /\ row.spent = 0
      /\ entry.plus = n /\ entry.minus = 0 /\ entry.last = n
  BY <1>2, <1>3, Newcomer
<1>5. /\ member' = [member EXCEPT ![m] = row] /\ ledger' = [ledger EXCEPT ![m] = entry]
      /\ h'[p] = Club!Idle
  BY <1>1, <1>3 DEF Club!Enrol
<1>6. \A x \in Persons : /\ member'[x] = IF x = m THEN row ELSE member[x]
                         /\ ledger'[x] = IF x = m THEN entry ELSE ledger[x]
  BY <1>5 DEF BookedInv, ClubInv, ClubTyped
<1>7. Booked(m)'
  BY <1>2, <1>4, <1>6 DEF Booked
<1> QED BY <1>0, <1>5, <1>6, <1>7, BookedGoesOn

(* A commit of the one handler: the row is what it made of the row it has read. *)
LEMMA BookedCommits ==
    ASSUME OneHandler, BookedInv, ClubInv', NEW p \in Handlers, h[p] # Club!Idle,
           h' = [h EXCEPT ![p] = Club!Idle], NEW new \in MemberRows,
           member' = [member EXCEPT ![h[p].id] = Club!Flushed(@, h[p].seen, new)],
           NEW entry \in LedgerRows, ledger' = [ledger EXCEPT ![h[p].id] = entry],
           new.balance = entry.plus - entry.minus, new.earned = entry.plus, new.spent = entry.minus,
           entry.last = new.balance
    PROVE  BookedInv'
<1>1. PICK m \in Persons : m = h[p].id
  BY ClubRequest DEF BookedInv, ClubInv
<1>2. member[m] \in MemberRows /\ h[p].seen = member[m]
  BY <1>1 DEF BookedInv, ClubInv, ClubTyped
<1>3. Club!Flushed(member[m], h[p].seen, new) = new
  BY <1>2, SameMember
<1>4. \A x \in Persons : /\ member'[x] = IF x = m THEN new ELSE member[x]
                         /\ ledger'[x] = IF x = m THEN entry ELSE ledger[x]
  BY <1>1, <1>3 DEF BookedInv, ClubInv, ClubTyped
<1>5. Booked(m)'
  BY <1>4 DEF Booked
<1>6. h'[p] = Club!Idle
  BY DEF BookedInv, ClubInv, ClubTyped
<1> QED BY <1>4, <1>5, <1>6, BookedGoesOn

LEMMA BookedRefers ==
    ASSUME Club!MembersAssumption, OneHandler, BookedInv, NEW p \in Handlers, NEW m \in Persons,
           NEW filled \in SUBSET Fields, Club!ReferCommit(p, m, filled)
    PROVE  BookedInv'
<1>0. ClubInv'
  BY ReferKeeps DEF BookedInv
<1>1. /\ h[p] # Club!Idle /\ member[m].state = "unused" /\ h' = [h EXCEPT ![p] = Club!Idle]
  BY DEF Club!ReferCommit, Club!Idle
<1>2. PICK r \in Persons : r = h[p].id
  BY <1>1, ClubRequest DEF BookedInv, ClubInv
<1>3. /\ r # m /\ h[p].seen = member[r] /\ member[r] \in MemberRows /\ ledger[r] \in LedgerRows
      /\ Booked(r)
  BY <1>1, <1>2 DEF BookedInv, ClubInv, ClubTyped
<1>4. PICK n : n = 2 + Club!Cardinality(filled)
  OBVIOUS
<1>5. n \in Nat
  BY <1>4, FieldsCounted
<1>6. PICK row, fresh : /\ row = [Club!Paid(Club!NoMember, n) EXCEPT !.state = "active", !.fields = filled]
                        /\ fresh = Club!Logged(Club!NoRows, n, n)
  OBVIOUS
<1>7. /\ row.balance = n /\ row.earned = n /\ row.spent = 0
      /\ fresh.plus = n /\ fresh.minus = 0 /\ fresh.last = n
  BY <1>5, <1>6, Newcomer
<1>8. PICK new : new = [Club!Paid(member[r], 1) EXCEPT !.referrals = @ + 1]
  OBVIOUS
<1>9. /\ new \in MemberRows /\ new.balance = member[r].balance + 1
      /\ new.earned = member[r].earned + 1 /\ new.spent = member[r].spent
  BY <1>3, <1>8, RewardedRow
<1>10. PICK entry : entry = Club!Logged(ledger[r], 1, new.balance)
  OBVIOUS
<1>11. entry.plus = ledger[r].plus + 1 /\ entry.minus = ledger[r].minus /\ entry.last = new.balance
  <2>1. new.balance \in Int
    BY <1>9 DEF MemberRows
  <2> QED BY <1>3, <1>10, <2>1, Entry
<1>12. Club!Flushed(member[r], h[p].seen, new) = new
  BY <1>3, <1>9, SameMember
<1>13. /\ member' = [member EXCEPT ![m] = row, ![r] = new]
       /\ ledger' = [ledger EXCEPT ![m] = fresh, ![r] = entry]
  BY <1>2, <1>3, <1>4, <1>6, <1>8, <1>10, <1>12 DEF Club!ReferCommit, BookedInv, ClubInv, ClubTyped
<1>14. \A x \in Persons : /\ member'[x] = IF x = m THEN row ELSE IF x = r THEN new ELSE member[x]
                          /\ ledger'[x] = IF x = m THEN fresh ELSE IF x = r THEN entry ELSE ledger[x]
  BY <1>3, <1>13 DEF BookedInv, ClubInv, ClubTyped
<1>15. Booked(m)'
  BY <1>3, <1>5, <1>7, <1>14 DEF Booked
<1>16. Booked(r)'
  BY <1>3, <1>9, <1>11, <1>14 DEF Booked, MemberRows, LedgerRows
<1>17. h'[p] = Club!Idle
  BY <1>1 DEF BookedInv, ClubInv, ClubTyped
<1> QED BY <1>0, <1>14, <1>15, <1>16, <1>17, BookedGoesOn

LEMMA BookedUpdates ==
    ASSUME Club!MembersAssumption, OneHandler, BookedInv, NEW p \in Handlers,
           NEW filled \in SUBSET Fields, Club!Update(p, filled)
    PROVE  BookedInv'
<1>0. ClubInv'
  BY UpdateKeeps DEF BookedInv
<1>1. h[p] # Club!Idle /\ h' = [h EXCEPT ![p] = Club!Idle]
  BY DEF Club!Update, Club!Save, Club!Idle
<1>2. PICK m \in Persons : m = h[p].id
  BY <1>1, ClubRequest DEF BookedInv, ClubInv
<1>3. /\ h[p].seen = member[m] /\ member[m] \in MemberRows /\ ledger[m] \in LedgerRows /\ Booked(m)
  BY <1>1, <1>2 DEF BookedInv, ClubInv, ClubTyped
<1>4. PICK n : n = Club!Cardinality(filled \ h[p].seen.fields)
  OBVIOUS
<1>5. n \in Nat
  BY <1>4, FieldsCounted
<1>6. PICK paid : paid = Club!Paid(h[p].seen, n)
  OBVIOUS
<1>7. /\ paid \in MemberRows /\ paid.balance = member[m].balance + n
      /\ paid.earned = member[m].earned + n /\ paid.spent = member[m].spent
  BY <1>3, <1>5, <1>6, PaidRow
<1>8. PICK new : new = [paid EXCEPT !.fields = filled]
  OBVIOUS
<1>9. /\ new \in MemberRows /\ new.balance = paid.balance
      /\ new.earned = paid.earned /\ new.spent = paid.spent
  BY <1>7, <1>8 DEF MemberRows
<1>10. PICK entry : entry = IF n = 0 THEN ledger[m] ELSE Club!Logged(ledger[m], n, new.balance)
  OBVIOUS
<1>11. /\ entry \in LedgerRows /\ entry.plus = ledger[m].plus + n /\ entry.minus = ledger[m].minus
       /\ entry.last = new.balance
  <2>1. new.balance \in Int
    BY <1>9 DEF MemberRows
  <2>2. CASE n = 0
    BY <1>3, <1>7, <1>9, <1>10, <2>2 DEF LedgerRows, MemberRows, Booked
  <2>3. CASE n # 0
    <3>1. entry = Club!Logged(ledger[m], n, new.balance)
      BY <1>10, <2>3
    <3> QED BY <1>3, <1>5, <2>1, <3>1, Entry
  <2> QED BY <2>2, <2>3
<1>12. ledger' = [ledger EXCEPT ![m] = entry]
  <2>1. CASE n = 0
    BY <1>2, <1>4, <1>10, <2>1 DEF Club!Update, BookedInv, ClubInv, ClubTyped
  <2>2. CASE n # 0
    <3>1. ledger' = [ledger EXCEPT ![m] = Club!Logged(ledger[m], n, new.balance)]
      BY <1>2, <1>4, <1>6, <1>8, <2>2 DEF Club!Update, BookedInv, ClubInv, ClubTyped
    <3> QED BY <1>10, <2>2, <3>1
  <2> QED BY <2>1, <2>2
<1>13. member' = [member EXCEPT ![h[p].id] = Club!Flushed(@, h[p].seen, new)]
  BY <1>4, <1>6, <1>8 DEF Club!Update, Club!Save
<1>14. /\ new.balance = entry.plus - entry.minus /\ new.earned = entry.plus
       /\ new.spent = entry.minus
  BY <1>3, <1>5, <1>7, <1>9, <1>11 DEF Booked, MemberRows, LedgerRows
<1> QED BY <1>0, <1>1, <1>2, <1>9, <1>11, <1>12, <1>13, <1>14, BookedCommits

LEMMA BookedSetsState ==
    ASSUME OneHandler, BookedInv, NEW p \in Handlers, NEW s \in {"active", "inactive"},
           Club!SetState(p, s)
    PROVE  BookedInv'
<1>0. ClubInv'
  BY SetStateKeeps DEF BookedInv
<1>1. h[p] # Club!Idle /\ h' = [h EXCEPT ![p] = Club!Idle]
  BY DEF Club!SetState, Club!Save, Club!Idle
<1>2. PICK m \in Persons : m = h[p].id
  BY <1>1, ClubRequest DEF BookedInv, ClubInv
<1>3. /\ h[p].seen = member[m] /\ member[m] \in MemberRows /\ ledger[m] \in LedgerRows /\ Booked(m)
  BY <1>1, <1>2 DEF BookedInv, ClubInv, ClubTyped
<1>4. PICK new : new = [h[p].seen EXCEPT !.state = s]
  OBVIOUS
<1>5. /\ new \in MemberRows /\ new.balance = member[m].balance
      /\ new.earned = member[m].earned /\ new.spent = member[m].spent
  BY <1>3, <1>4 DEF MemberRows
<1>6. ledger' = [ledger EXCEPT ![h[p].id] = ledger[m]]
  BY <1>2 DEF Club!SetState, BookedInv, ClubInv, ClubTyped
<1>7. member' = [member EXCEPT ![h[p].id] = Club!Flushed(@, h[p].seen, new)]
  BY <1>4 DEF Club!SetState, Club!Save
<1>8. /\ new.balance = ledger[m].plus - ledger[m].minus /\ new.earned = ledger[m].plus
      /\ new.spent = ledger[m].minus /\ ledger[m].last = new.balance
  BY <1>3, <1>5 DEF Booked
<1> QED BY <1>0, <1>1, <1>3, <1>5, <1>6, <1>7, <1>8, BookedCommits

LEMMA BookedAdjusts ==
    ASSUME OneHandler, BookedInv, NEW p \in Handlers, NEW n \in Int, Club!Adjust(p, n)
    PROVE  BookedInv'
<1>0. ClubInv'
  BY AdjustKeeps DEF BookedInv
<1>1. h[p] # Club!Idle /\ h' = [h EXCEPT ![p] = Club!Idle]
  BY DEF Club!Adjust, Club!Save, Club!Idle
<1>2. PICK m \in Persons : m = h[p].id
  BY <1>1, ClubRequest DEF BookedInv, ClubInv
<1>3. /\ h[p].seen = member[m] /\ member[m] \in MemberRows /\ ledger[m] \in LedgerRows /\ Booked(m)
  BY <1>1, <1>2 DEF BookedInv, ClubInv, ClubTyped
<1>4. PICK new : new = IF n > 0 THEN Club!Paid(h[p].seen, n)
                       ELSE [h[p].seen EXCEPT !.balance = @ + n, !.spent = @ - n]
  OBVIOUS
<1>5. /\ new \in MemberRows /\ new.balance = member[m].balance + n
      /\ n >= 0 => new.earned = member[m].earned + n /\ new.spent = member[m].spent
      /\ n <= 0 => new.earned = member[m].earned /\ new.spent = member[m].spent - n
  <2>1. h[p].seen \in MemberRows
    BY <1>3
  <2>2. /\ new \in MemberRows /\ new.balance = h[p].seen.balance + n
        /\ n >= 0 => new.earned = h[p].seen.earned + n /\ new.spent = h[p].seen.spent
        /\ n <= 0 => new.earned = h[p].seen.earned /\ new.spent = h[p].seen.spent - n
    BY <1>4, <2>1, AdjustedRow
  <2> QED BY <1>3, <2>2
<1>6. PICK entry : entry = Club!Logged(ledger[m], n, new.balance)
  OBVIOUS
<1>7. /\ entry \in LedgerRows /\ entry.last = new.balance
      /\ n >= 0 => entry.plus = ledger[m].plus + n /\ entry.minus = ledger[m].minus
      /\ n <= 0 => entry.plus = ledger[m].plus /\ entry.minus = ledger[m].minus - n
  <2>1. new.balance \in Int
    BY <1>5 DEF MemberRows
  <2> QED BY <1>3, <1>6, <2>1, Entry
<1>8. /\ ledger' = [ledger EXCEPT ![h[p].id] = entry]
      /\ member' = [member EXCEPT ![h[p].id] = Club!Flushed(@, h[p].seen, new)]
  BY <1>2, <1>4, <1>6 DEF Club!Adjust, Club!Save, BookedInv, ClubInv, ClubTyped
<1>9. new.balance = entry.plus - entry.minus /\ new.earned = entry.plus /\ new.spent = entry.minus
  <2>1. ledger[m].plus \in Nat /\ ledger[m].minus \in Nat
    BY <1>3 DEF LedgerRows
  <2>2. CASE n >= 0
    BY <1>3, <1>5, <1>7, <2>1, <2>2 DEF Booked
  <2>3. CASE n <= 0
    BY <1>3, <1>5, <1>7, <2>1, <2>3 DEF Booked
  <2> QED BY <2>2, <2>3
<1> QED BY <1>0, <1>1, <1>5, <1>7, <1>8, <1>9, BookedCommits

LEMMA BookedReads ==
    ASSUME OneHandler, BookedInv, NEW p \in Handlers, NEW m \in Persons,
           Club!ReferLoad(p, m) \/ \E op \in {"update", "state", "adjust"} : Club!Load(p, op, m)
    PROVE  BookedInv'
<1>1. ClubInv'
  BY ClubReads DEF BookedInv
<1>2. PICK op : /\ h' = [h EXCEPT ![p] = [op |-> op, id |-> m, seen |-> member[m]]]
                /\ UNCHANGED <<member, ledger>>
  BY DEF Club!ReferLoad, Club!Load
<1>3. \A q \in Handlers : h'[q].seen = member[m] /\ h'[q].id = m
  BY <1>2 DEF OneHandler, BookedInv, ClubInv, ClubTyped
<1> QED BY <1>1, <1>2, <1>3 DEF BookedInv, Booked

LEMMA BookedBegins == ASSUME Club!Init PROVE BookedInv
<1>1. ClubInv
  BY ClubBegins
<1> QED BY <1>1 DEF Club!Init, BookedInv, Booked, Club!NoMember, Club!NoRows

LEMMA BookedStays ==
    ASSUME Club!MembersAssumption, OneHandler, BookedInv, [Club!Next]_(Club!vars) PROVE BookedInv'
<1>1. CASE UNCHANGED Club!vars
  <2>1. ClubInv'
    BY ClubStays DEF BookedInv
  <2> QED BY <1>1, <2>1 DEF Club!vars, BookedInv, Booked
<1>2. ASSUME NEW p \in Handlers, NEW n \in -MaxCredits .. MaxCredits, Club!Adjust(p, n) PROVE BookedInv'
  <2>1. n \in Int
    BY DEF Club!MembersAssumption
  <2> QED BY <1>2, <2>1, BookedAdjusts
<1>3. ASSUME NEW p \in Handlers, Club!Abort(p) PROVE BookedInv'
  <2>1. ClubInv'
    BY <1>3, ClubAborts DEF BookedInv
  <2>2. h'[p] = Club!Idle /\ UNCHANGED <<member, ledger>>
    BY <1>3 DEF Club!Abort, BookedInv, ClubInv, ClubTyped
  <2> QED BY <2>1, <2>2, BookedGoesOn
<1> QED BY <1>1, <1>2, <1>3, BookedEnrols, BookedRefers, BookedReads, BookedUpdates, BookedSetsState
        DEF Club!Next

LEMMA BookedShows == BookedInv => Club!LedgerIsBalance
BY DEF BookedInv, Booked, Club!LedgerIsBalance

(* One request at a time: every member's balance is the sum of the ledger and what its last row
   says, and the totals are its two sides, through referrals, bonuses, adjustments and
   crashes.  (create_customer, update_customer, add_credits.) *)
THEOREM LedgerIsBalanceHolds ==
    ASSUME Club!MembersAssumption, OneHandler PROVE Club!Spec => []Club!LedgerIsBalance
<1>1. Club!Init => BookedInv
  BY BookedBegins
<1>2. BookedInv /\ [Club!Next]_(Club!vars) => BookedInv'
  BY BookedStays
<1> QED BY <1>1, <1>2, BookedShows, PTL DEF Club!Spec
-----------------------------------------------------------------------------
(***************************************************************************)
(* Receiving.  Movements only grow, so the stock a handler has read of a   *)
(* product is never more than they add up to, nor is what it commits.      *)
(***************************************************************************)
Door == INSTANCE Receiving

BatchLines == [of : Goods, qty : Nat]
DoorRows == [sum : Nat, after : Nat]

DoorTyped ==
    /\ stock \in [Goods -> Nat] /\ moves \in [Goods -> DoorRows]
    /\ h \in [Handlers -> [lines : Seq(BatchLines), seen : UNION {[S -> Nat] : S \in SUBSET Goods}]]

DoorInv ==
    /\ DoorTyped
    /\ \A g \in Goods : stock[g] <= moves[g].sum
    /\ \A p \in Handlers : \A g \in DOMAIN h[p].seen : h[p].seen[g] <= moves[g].sum

LEMMA DoorSums == ASSUME NEW X, NEW f PROVE Door!SumFunctionOnSet(f, X) = SumFunctionOnSet(f, X)
BY DEF SumFunctionOnSet, FoldFunctionOnSet, MapThenFoldSet, Door!SumFunctionOnSet,
       Door!FoldFunctionOnSet, Door!MapThenFoldSet

LEMMA ComingIsNat ==
    ASSUME NEW came \in Seq(BatchLines), NEW g PROVE Door!Coming(came, g) \in Nat
<1> DEFINE f == [i \in DOMAIN came |-> came[i].qty]
           X == {i \in DOMAIN came : came[i].of = g}
<1>1. DOMAIN came = 1 .. Len(came) /\ Len(came) \in Nat
  OBVIOUS
<1>2. IsFiniteSet(X)
  <2>1. IsFiniteSet(1 .. Len(came)) /\ X \subseteq 1 .. Len(came)
    BY <1>1, FS_Interval
  <2> QED BY <2>1, FS_Subset
<1>3. \A i \in X : f[i] \in Nat
  <2> TAKE i \in X
  <2>1. i \in 1 .. Len(came) /\ came[i] \in BatchLines
    BY <1>1
  <2> QED BY <1>1, <2>1 DEF BatchLines
<1>4. SumFunctionOnSet(f, X) \in Nat
  <2> HIDE DEF f, X
  <2> QED BY <1>2, <1>3, SumNat
<1> QED BY <1>4, DoorSums DEF Door!Coming

LEMMA NothingSeen == Door!Idle.seen \in [{} -> Nat] /\ Door!Idle.lines \in Seq(BatchLines)
BY DEF Door!Idle

LEMMA DoorBegins == ASSUME Door!Init PROVE DoorInv
<1>1. Door!Idle \in [lines : Seq(BatchLines), seen : UNION {[S -> Nat] : S \in SUBSET Goods}]
  BY NothingSeen DEF Door!Idle
<1>2. DOMAIN Door!Idle.seen = {}
  BY NothingSeen
<1> QED BY <1>1, <1>2 DEF Door!Init, DoorInv, DoorTyped, DoorRows

LEMMA SeenIsTyped ==
    ASSUME DoorTyped, NEW p \in Handlers
    PROVE  /\ h[p].lines \in Seq(BatchLines)
           /\ DOMAIN h[p].seen \in SUBSET Goods /\ h[p].seen \in [DOMAIN h[p].seen -> Nat]
<1>1. /\ h[p].lines \in Seq(BatchLines)
      /\ h[p].seen \in UNION {[S -> Nat] : S \in SUBSET Goods}
  BY DEF DoorTyped
<1>2. PICK S \in SUBSET Goods : h[p].seen \in [S -> Nat]
  BY <1>1
<1> QED BY <1>1, <1>2

(* What a product that is put on the batch makes of it. *)
LEMMA Resolved ==
    ASSUME DoorTyped, NEW p \in Handlers, NEW g \in Goods, NEW n \in Nat, Door!Resolve(p, g, n)
    PROVE  /\ UNCHANGED <<stock, moves>> /\ DoorTyped'
           /\ \A q \in Handlers : q # p => h'[q] = h[q]
           /\ DOMAIN h'[p].seen = DOMAIN h[p].seen \cup {g}
           /\ \A x \in DOMAIN h'[p].seen :
                 h'[p].seen[x] = IF x \in DOMAIN h[p].seen THEN h[p].seen[x] ELSE stock[x]
<1> DEFINE S == DOMAIN h[p].seen
<1>1. /\ h[p].lines \in Seq(BatchLines) /\ S \in SUBSET Goods /\ h[p].seen \in [S -> Nat]
      /\ stock \in [Goods -> Nat]
  BY SeenIsTyped DEF DoorTyped
<1>2. PICK seen : seen = IF g \in S THEN h[p].seen
                         ELSE [x \in S \cup {g} |-> IF x = g THEN stock[g] ELSE h[p].seen[x]]
  OBVIOUS
<1>3. /\ seen \in [S \cup {g} -> Nat] /\ DOMAIN seen = S \cup {g}
      /\ \A x \in S \cup {g} : seen[x] = IF x \in S THEN h[p].seen[x] ELSE stock[x]
  BY <1>1, <1>2
<1>4. PICK came : came = Append(h[p].lines, [of |-> g, qty |-> n])
  OBVIOUS
<1>5. came \in Seq(BatchLines)
  <2>1. [of |-> g, qty |-> n] \in BatchLines
    BY DEF BatchLines
  <2> QED BY <1>1, <1>4, <2>1
<1>6. h' = [h EXCEPT ![p] = [lines |-> came, seen |-> seen]] /\ UNCHANGED <<stock, moves>>
  <2>1. PICK r : r = [h[p] EXCEPT !.lines = came, !.seen = seen]
    OBVIOUS
  <2>2. r = [lines |-> came, seen |-> seen]
    BY <2>1 DEF DoorTyped
  <2>3. h' = [h EXCEPT ![p] = r] /\ UNCHANGED <<stock, moves>>
    BY <1>2, <1>4, <2>1 DEF Door!Resolve, DoorTyped
  <2> QED BY <2>2, <2>3
<1>7. seen \in UNION {[X -> Nat] : X \in SUBSET Goods}
  <2>1. S \cup {g} \in SUBSET Goods
    BY <1>1
  <2>2. PICK X : X = S \cup {g}
    OBVIOUS
  <2>3. X \in SUBSET Goods /\ seen \in [X -> Nat]
    BY <1>3, <2>1, <2>2
  <2> QED BY <2>3
<1> QED BY <1>3, <1>5, <1>6, <1>7 DEF DoorTyped

LEMMA ResolveKeeps ==
    ASSUME DoorInv, NEW p \in Handlers, NEW g \in Goods, NEW n \in Nat, Door!Resolve(p, g, n)
    PROVE  DoorInv'
<1>1. ASSUME NEW q \in Handlers, NEW x \in DOMAIN h'[q].seen PROVE h'[q].seen[x] <= moves'[x].sum
  <2>1. x \in Goods
    BY Resolved, SeenIsTyped DEF DoorInv
  <2> QED BY <1>1, <2>1, Resolved DEF DoorInv
<1> QED BY <1>1, Resolved DEF DoorInv

(* What a commit makes of stock and movements. *)
LEMMA Received ==
    ASSUME DoorTyped, NEW p \in Handlers, Door!Commit(p)
    PROVE  /\ DoorTyped' /\ h' = [h EXCEPT ![p] = Door!Idle]
           /\ \A g \in Goods \ DOMAIN h[p].seen : stock'[g] = stock[g] /\ moves'[g] = moves[g]
           /\ \A g \in DOMAIN h[p].seen :
                 \E n \in Nat : /\ stock'[g] = h[p].seen[g] + n /\ moves'[g].after = stock'[g]
                                /\ moves'[g].sum = moves[g].sum + n
<1> DEFINE S == DOMAIN h[p].seen
<1>1. /\ h[p].lines \in Seq(BatchLines) /\ S \in SUBSET Goods /\ h[p].seen \in [S -> Nat]
      /\ stock \in [Goods -> Nat] /\ moves \in [Goods -> DoorRows]
  BY SeenIsTyped DEF DoorTyped
<1>2. PICK came : came = [g \in Goods |-> Door!Coming(h[p].lines, g)]
  OBVIOUS
<1>3. came \in [Goods -> Nat]
  BY <1>1, <1>2, ComingIsNat
<1>4. /\ stock' = [g \in Goods |-> IF g \in S THEN h[p].seen[g] + came[g] ELSE stock[g]]
      /\ moves' = [g \in Goods |-> IF g \in S THEN [sum |-> moves[g].sum + came[g],
                                                    after |-> h[p].seen[g] + came[g]]
                                   ELSE moves[g]]
      /\ h' = [h EXCEPT ![p] = Door!Idle]
  BY <1>1, <1>2 DEF Door!Commit
<1>5. stock' \in [Goods -> Nat]
  BY <1>1, <1>3, <1>4
<1>6. moves' \in [Goods -> DoorRows]
  <2>1. ASSUME NEW g \in Goods PROVE moves'[g] \in DoorRows
    BY <1>1, <1>3, <1>4 DEF DoorRows
  <2> QED BY <1>4, <2>1
<1>7. Door!Idle \in [lines : Seq(BatchLines), seen : UNION {[X -> Nat] : X \in SUBSET Goods}]
  BY NothingSeen DEF Door!Idle
<1>8. ASSUME NEW g \in S
      PROVE  \E n \in Nat : /\ stock'[g] = h[p].seen[g] + n /\ moves'[g].after = stock'[g]
                            /\ moves'[g].sum = moves[g].sum + n
  <2>1. came[g] \in Nat /\ g \in Goods
    BY <1>1, <1>3
  <2> QED BY <1>4, <2>1
<1> QED BY <1>1, <1>4, <1>5, <1>6, <1>7, <1>8 DEF DoorTyped

LEMMA ReceiveKeeps == ASSUME DoorInv, NEW p \in Handlers, Door!Commit(p) PROVE DoorInv'
<1>1. DoorTyped /\ DoorTyped'
  BY Received DEF DoorInv
<1>2. ASSUME NEW g \in Goods PROVE stock'[g] <= moves'[g].sum /\ moves[g].sum <= moves'[g].sum
  <2>1. moves[g].sum \in Nat /\ moves'[g].sum \in Nat /\ stock[g] <= moves[g].sum
    BY <1>1 DEF DoorInv, DoorTyped, DoorRows
  <2>2. CASE g \in DOMAIN h[p].seen
    <3>1. PICK n \in Nat : stock'[g] = h[p].seen[g] + n /\ moves'[g].sum = moves[g].sum + n
      BY <1>1, <2>2, Received
    <3>2. h[p].seen[g] \in Nat /\ h[p].seen[g] <= moves[g].sum
      BY <1>1, <2>2, SeenIsTyped DEF DoorInv
    <3> QED BY <2>1, <3>1, <3>2
  <2>3. CASE g \notin DOMAIN h[p].seen
    BY <1>1, <2>1, <2>3, Received
  <2> QED BY <2>2, <2>3
<1>3. ASSUME NEW q \in Handlers, NEW g \in DOMAIN h'[q].seen PROVE h'[q].seen[g] <= moves'[g].sum
  <2>1. q # p
    BY <1>1, <1>3, NothingSeen, Received DEF DoorTyped
  <2>2. h'[q] = h[q]
    BY <1>1, <2>1, Received DEF DoorTyped
  <2>3. g \in Goods /\ h[q].seen[g] \in Nat /\ h[q].seen[g] <= moves[g].sum
    BY <1>1, <1>3, <2>2, SeenIsTyped DEF DoorInv
  <2>4. moves[g].sum \in Nat /\ moves'[g].sum \in Nat
    BY <1>1, <2>3 DEF DoorTyped, DoorRows
  <2> QED BY <1>2, <2>2, <2>3, <2>4
<1> QED BY <1>1, <1>2, <1>3 DEF DoorInv

LEMMA DoorAborts == ASSUME DoorInv, NEW p \in Handlers, Door!Abort(p) PROVE DoorInv'
<1>1. Door!Idle \in [lines : Seq(BatchLines), seen : UNION {[X -> Nat] : X \in SUBSET Goods}]
  BY NothingSeen DEF Door!Idle
<1>2. DoorTyped'
  BY <1>1 DEF Door!Abort, DoorInv, DoorTyped
<1>3. ASSUME NEW q \in Handlers, NEW g \in DOMAIN h'[q].seen PROVE h'[q].seen[g] <= moves'[g].sum
  <2>1. q # p
    BY <1>2, <1>3, NothingSeen DEF Door!Abort, DoorInv, DoorTyped
  <2> QED BY <1>3, <2>1 DEF Door!Abort, DoorInv, DoorTyped
<1> QED BY <1>2, <1>3 DEF Door!Abort, DoorInv

LEMMA DoorStays ==
    ASSUME Door!ReceivingAssumption, DoorInv, [Door!Next]_(Door!vars) PROVE DoorInv'
<1>1. CASE UNCHANGED Door!vars
  BY <1>1 DEF Door!vars, DoorInv, DoorTyped
<1>2. ASSUME NEW p \in Handlers, NEW g \in Goods, NEW n \in 1 .. MaxStock, Door!Resolve(p, g, n)
      PROVE  DoorInv'
  <2>1. n \in Nat
    BY DEF Door!ReceivingAssumption
  <2> QED BY <1>2, <2>1, ResolveKeeps
<1> QED BY <1>1, <1>2, ReceiveKeeps, DoorAborts DEF Door!Next

LEMMA DoorShows == DoorInv => Door!TypeOK /\ Door!NeverUncounted
BY DEF DoorInv, DoorTyped, DoorRows, Door!TypeOK, Door!NeverUncounted

(* receive_stock: every column of a product and of its movements holds what it may, and, however
   batches interleave, the stock never counts a piece no movement does. *)
THEOREM NeverUncountedHolds ==
    ASSUME Door!ReceivingAssumption PROVE Door!Spec => [](Door!TypeOK /\ Door!NeverUncounted)
<1>1. Door!Init => DoorInv
  BY DoorBegins
<1>2. DoorInv /\ [Door!Next]_(Door!vars) => DoorInv'
  BY DoorStays
<1> QED BY <1>1, <1>2, DoorShows, PTL DEF Door!Spec
-----------------------------------------------------------------------------
(* One batch at a time: what it has read of a product is its stock. *)
CountedInv ==
    /\ DoorInv
    /\ Door!StockIsMoves
    /\ \A p \in Handlers : \A g \in DOMAIN h[p].seen : h[p].seen[g] = stock[g]

LEMMA CountedBegins == ASSUME Door!Init PROVE CountedInv
<1>1. DoorInv
  BY DoorBegins
<1>2. DOMAIN Door!Idle.seen = {}
  BY NothingSeen
<1> QED BY <1>1, <1>2 DEF Door!Init, CountedInv, Door!StockIsMoves

LEMMA CountedStays ==
    ASSUME Door!ReceivingAssumption, OneHandler, CountedInv, [Door!Next]_(Door!vars)
    PROVE  CountedInv'
<1>1. DoorInv' /\ DoorInv
  BY DoorStays DEF CountedInv
<1>2. CASE UNCHANGED Door!vars
  BY <1>1, <1>2 DEF Door!vars, CountedInv, Door!StockIsMoves
<1>3. ASSUME NEW p \in Handlers, NEW g \in Goods, NEW n \in 1 .. MaxStock, Door!Resolve(p, g, n)
      PROVE  CountedInv'
  <2>1. n \in Nat
    BY DEF Door!ReceivingAssumption
  <2>2. /\ UNCHANGED <<stock, moves>> /\ \A q \in Handlers : q = p
        /\ \A x \in DOMAIN h'[p].seen : h'[p].seen[x] = stock[x]
    BY <1>1, <1>3, <2>1, Resolved DEF CountedInv, DoorInv, OneHandler
  <2>3. \A q \in Handlers : \A x \in DOMAIN h'[q].seen : h'[q].seen[x] = stock'[x]
    BY <2>2
  <2> QED BY <1>1, <2>2, <2>3 DEF CountedInv, Door!StockIsMoves
<1>4. ASSUME NEW p \in Handlers, Door!Commit(p) PROVE CountedInv'
  <2>1. ASSUME NEW g \in Goods PROVE stock'[g] = moves'[g].sum /\ stock'[g] = moves'[g].after
    <3>1. stock[g] = moves[g].sum /\ stock[g] = moves[g].after
      BY DEF CountedInv, Door!StockIsMoves
    <3>2. CASE g \in DOMAIN h[p].seen
      <4>1. h[p].seen[g] = stock[g]
        BY <3>2 DEF CountedInv
      <4>2. PICK n \in Nat : /\ stock'[g] = h[p].seen[g] + n /\ moves'[g].after = stock'[g]
                             /\ moves'[g].sum = moves[g].sum + n
        BY <1>1, <1>4, <3>2, Received DEF DoorInv
      <4> QED BY <3>1, <4>1, <4>2
    <3>3. CASE g \notin DOMAIN h[p].seen
      BY <1>1, <1>4, <3>1, <3>3, Received DEF DoorInv
    <3> QED BY <3>2, <3>3
  <2>2. \A q \in Handlers : DOMAIN h'[q].seen = {}
    BY <1>1, <1>4, Received, NothingSeen DEF OneHandler, DoorInv, DoorTyped
  <2> QED BY <1>1, <2>1, <2>2 DEF CountedInv, Door!StockIsMoves
<1>5. ASSUME NEW p \in Handlers, Door!Abort(p) PROVE CountedInv'
  <2>1. \A q \in Handlers : DOMAIN h'[q].seen = {}
    BY <1>1, <1>5, NothingSeen DEF Door!Abort, OneHandler, DoorInv, DoorTyped
  <2> QED BY <1>1, <1>5, <2>1 DEF Door!Abort, CountedInv, Door!StockIsMoves
<1> QED BY <1>2, <1>3, <1>4, <1>5 DEF Door!Next

(* One batch at a time: the stock is what the movements add up to and what the last one says,
   also when a product is on two lines.  (receive_stock.) *)
THEOREM StockIsMovesHolds ==
    ASSUME Door!ReceivingAssumption, OneHandler PROVE Door!Spec => []Door!StockIsMoves
<1>1. Door!Init => CountedInv
  BY CountedBegins
<1>2. CountedInv /\ [Door!Next]_(Door!vars) => CountedInv'
  BY CountedStays
<1>3. CountedInv => Door!StockIsMoves
  BY DEF CountedInv
<1> QED BY <1>1, <1>2, <1>3, PTL DEF Door!Spec
-----------------------------------------------------------------------------
(***************************************************************************)
(* Payroll.  A calculation adds up what its payslips come to as it goes,   *)
(* so its sum is within the payslips of the run; payslips are only added,  *)
(* and the entries a payslip is for stay those of its employee.            *)
(***************************************************************************)
Wages == INSTANCE Payroll WITH entry <- timesheet, MaxHours <- MaxWorked, MaxPaid <- MaxSlips

LEMMA WagesSizes ==
    ASSUME NEW X
    PROVE  /\ Wages!IsFiniteSet(X) <=> IsFiniteSet(X)
           /\ Wages!Cardinality(X) = Cardinality(X)
           /\ \A f : Wages!SumFunctionOnSet(f, X) = SumFunctionOnSet(f, X)
<1>1. Wages!IsFiniteSet(X) <=> IsFiniteSet(X)
  BY DEF IsFiniteSet, Wages!IsFiniteSet
<1>2. Wages!Cardinality(X) = Cardinality(X)
  BY DEF Cardinality, IsFiniteSet, Wages!Cardinality, Wages!IsFiniteSet
<1>3. ASSUME NEW f PROVE Wages!SumFunctionOnSet(f, X) = SumFunctionOnSet(f, X)
  BY DEF SumFunctionOnSet, FoldFunctionOnSet, MapThenFoldSet, Wages!SumFunctionOnSet,
         Wages!FoldFunctionOnSet, Wages!MapThenFoldSet
<1> QED BY <1>1, <1>2, <1>3

SlipsOf(r) == {x \in payslips : x.run = r}

(* The payslips are numbered, and those of a run add up to a number. *)
SlipsNumbered == IsFiniteSet(payslips) /\ \A x \in payslips : x.num <= Cardinality(payslips)

(* What a calculation has added up, and whose entries it counts. *)
Fits(q) ==
    /\ q.op \in {"loop", "slip"} => q.sum <= Wages!Gross(SlipsOf(q.id))
    /\ q.op = "slip" =>
          \A t \in q.picked : timesheet[t].status # "unused" /\ timesheet[t].emp = q.emp

WagesInv ==
    /\ Wages!TypeOK
    /\ SlipsNumbered
    /\ Wages!TotalsWithinPayslips
    /\ Wages!PaidIsOnPayslip
    /\ \A p \in Handlers : Fits(h[p])

Turns(p, q) == h' = [h EXCEPT ![p] = q]

(* What a set of payslips is worth. *)
LEMMA SlipsAdd ==
    ASSUME NEW X, IsFiniteSet(X), X \subseteq Wages!SlipRows
    PROVE  /\ Wages!Gross(X) \in Nat
           /\ \A x \in Wages!SlipRows \ X : Wages!Gross(X \cup {x}) = Wages!Gross(X) + x.gross
<1> DEFINE g(Y) == [x \in Y |-> x.gross]
<1>1. \A Y : Wages!Gross(Y) = SumFunctionOnSet(g(Y), Y)
  BY WagesSizes DEF Wages!Gross
<1>2. SumFunctionOnSet(g(X), X) \in Nat
  BY SumNat DEF Wages!SlipRows
<1>3. ASSUME NEW l \in Wages!SlipRows \ X
      PROVE  SumFunctionOnSet(g(X \cup {l}), X \cup {l}) = SumFunctionOnSet(g(X), X) + l.gross
  <2> DEFINE f == g(X \cup {l})
  <2>1. \A k \in X \cup {l} : f[k] = k.gross /\ f[k] \in Int
    BY DEF Wages!SlipRows
  <2>2. \A k \in X : f[k] = g(X)[k]
    BY <2>1
  <2>3. f[l] = l.gross /\ l.gross \in Int
    BY <2>1
  <2> HIDE DEF f
  <2>4. SumFunctionOnSet(f, X \cup {l}) = f[l] + SumFunctionOnSet(f, X)
    BY <2>1, SumAdd
  <2>5. SumFunctionOnSet(f, X) = SumFunctionOnSet(g(X), X)
    BY <2>2, SumSame
  <2> QED BY <1>2, <2>3, <2>4, <2>5 DEF f
<1> QED BY <1>1, <1>2, <1>3

LEMMA WagesStart == ASSUME Wages!PayrollAssumption, Wages!Init PROVE WagesInv
<1>1. Wages!NoEntry \in Wages!EntryRows /\ Wages!NoRun \in Wages!RunRows
  BY DEF Wages!PayrollAssumption, Wages!NoEntry, Wages!EntryRows, Wages!Hours, Wages!NoRun, Wages!RunRows
<1>2. Wages!TypeOK
  BY <1>1 DEF Wages!PayrollAssumption, Wages!Init, Wages!TypeOK, Wages!HandlerStates
<1>3. \A r : SlipsOf(r) = {}
  BY DEF Wages!Init, SlipsOf
<1>4. SlipsNumbered
  BY FS_EmptySet DEF Wages!Init, SlipsNumbered
<1>5. \A r \in Runs : Wages!Gross({x \in payslips : x.run = r}) = 0
  <2>1. \A r \in Runs : {x \in payslips : x.run = r} = {}
    BY DEF Wages!Init
  <2>2. Wages!Gross({}) = 0
    BY WagesSizes, SumEmpty DEF Wages!Gross
  <2> QED BY <2>1, <2>2
<1>6. Wages!TotalsWithinPayslips
  BY <1>5 DEF Wages!TotalsWithinPayslips, Wages!Init, Wages!NoRun
<1>7. Wages!PaidIsOnPayslip /\ \A p \in Handlers : Fits(h[p])
  BY DEF Wages!PaidIsOnPayslip, Wages!Init, Wages!NoEntry, Fits, Wages!Idle
<1> QED BY <1>2, <1>4, <1>6, <1>7 DEF WagesInv

(* A handler reads, or ends without a commit. *)
LEMMA WagesReads ==
    ASSUME WagesInv, NEW p \in Handlers, NEW q \in Wages!HandlerStates, Turns(p, q), Fits(q),
           UNCHANGED <<timesheet, run, payslips, signed>>
    PROVE  WagesInv'
<1>1. Wages!TypeOK'
  BY DEF WagesInv, Wages!TypeOK, Turns
<1>2. SlipsNumbered' /\ Wages!TotalsWithinPayslips' /\ Wages!PaidIsOnPayslip'
  BY DEF WagesInv, SlipsNumbered, Wages!TotalsWithinPayslips, Wages!PaidIsOnPayslip, Wages!Gross
<1>3. \A x : Wages!Gross(SlipsOf(x))' = Wages!Gross(SlipsOf(x))
  BY DEF Wages!Gross, SlipsOf
<1>4. ASSUME NEW x \in Handlers PROVE Fits(h[x])'
  <2>1. h'[x] = q \/ h'[x] = h[x]
    BY DEF WagesInv, Wages!TypeOK, Turns
  <2>2. Fits(h'[x])
    BY <2>1 DEF WagesInv
  <2> QED BY <1>3, <2>2 DEF Fits
<1> QED BY <1>1, <1>2, <1>4 DEF WagesInv

LEMMA RunFlushed ==
    ASSUME NEW cur \in Wages!RunRows, NEW seen, NEW new \in Wages!RunRows
    PROVE  LET row == Wages!Flushed(cur, seen, new)
           IN /\ row \in Wages!RunRows
              /\ row.total \in {cur.total, new.total}
              /\ new.total = seen.total => row.total = cur.total
BY DEF Wages!RunRows, Wages!Flushed

LEMMA SheetFlushed ==
    ASSUME NEW cur \in Wages!EntryRows, NEW seen, NEW new \in Wages!EntryRows
    PROVE  LET row == Wages!Flushed(cur, seen, new)
           IN /\ row \in Wages!EntryRows
              /\ row.status \in {cur.status, new.status}
              /\ new.status = seen.status => row.status = cur.status
              /\ new.emp = seen.emp => row.emp = cur.emp
BY DEF Wages!EntryRows, Wages!Flushed

(* A handler commits a run. *)
LEMMA RunWritten ==
    ASSUME WagesInv, NEW p \in Handlers, NEW q \in Wages!HandlerStates, Turns(p, q), Fits(q),
           NEW r \in Runs, NEW row \in Wages!RunRows, run' = [run EXCEPT ![r] = row],
           row.total <= Wages!Gross(SlipsOf(r)), UNCHANGED <<timesheet, payslips, signed>>
    PROVE  WagesInv'
<1>1. Wages!TypeOK'
  BY DEF WagesInv, Wages!TypeOK, Turns
<1>2. SlipsNumbered' /\ Wages!PaidIsOnPayslip'
  BY DEF WagesInv, SlipsNumbered, Wages!PaidIsOnPayslip
<1>3. \A x : Wages!Gross(SlipsOf(x))' = Wages!Gross(SlipsOf(x))
  BY DEF Wages!Gross, SlipsOf
<1>4. Wages!TotalsWithinPayslips'
  <2>1. ASSUME NEW x \in Runs PROVE run'[x].total <= Wages!Gross(SlipsOf(x))
    BY DEF WagesInv, Wages!TotalsWithinPayslips, Wages!TypeOK, SlipsOf
  <2> QED BY <1>3, <2>1 DEF Wages!TotalsWithinPayslips, SlipsOf
<1>5. ASSUME NEW x \in Handlers PROVE Fits(h[x])'
  <2>1. h'[x] = q \/ h'[x] = h[x]
    BY DEF WagesInv, Wages!TypeOK, Turns
  <2>2. Fits(h'[x])
    BY <2>1 DEF WagesInv
  <2> QED BY <1>3, <2>2 DEF Fits
<1> QED BY <1>1, <1>2, <1>4, <1>5 DEF WagesInv

(* A handler commits an entry: whose it is stays, and only payslips mark it paid. *)
LEMMA SheetWritten ==
    ASSUME WagesInv, NEW p \in Handlers, Turns(p, Wages!Idle), NEW t \in Entries,
           NEW row \in Wages!EntryRows, timesheet' = [timesheet EXCEPT ![t] = row],
           timesheet[t].status # "unused" => row.status # "unused" /\ row.emp = timesheet[t].emp,
           row.status = "paid" => timesheet[t].status = "paid",
           signed' \in [Entries -> 0 .. MaxWorked], UNCHANGED <<run, payslips>>
    PROVE  WagesInv'
<1>1. \A x \in Entries : timesheet[x].status # "unused" =>
         /\ timesheet'[x].status # "unused" /\ timesheet'[x].emp = timesheet[x].emp
  BY DEF WagesInv, Wages!TypeOK
<1>2. \A x \in Entries : timesheet'[x].status = "paid" => timesheet[x].status = "paid"
  BY DEF WagesInv, Wages!TypeOK
<1>3. Wages!TypeOK'
  BY DEF WagesInv, Wages!TypeOK, Turns, Wages!HandlerStates
<1>4. SlipsNumbered' /\ Wages!TotalsWithinPayslips'
  BY DEF WagesInv, SlipsNumbered, Wages!TotalsWithinPayslips, Wages!Gross
<1>5. Wages!PaidIsOnPayslip'
  BY <1>1, <1>2 DEF WagesInv, Wages!PaidIsOnPayslip
<1>6. \A x : Wages!Gross(SlipsOf(x))' = Wages!Gross(SlipsOf(x))
  BY DEF Wages!Gross, SlipsOf
<1>7. ASSUME NEW x \in Handlers PROVE Fits(h[x])'
  <2>1. CASE h'[x] = Wages!Idle
    BY <2>1 DEF Fits, Wages!Idle
  <2>2. CASE h'[x] = h[x]
    <3>1. Fits(h[x]) /\ h[x] \in Wages!HandlerStates
      BY DEF WagesInv, Wages!TypeOK
    <3>2. h[x].op = "slip" => h[x].picked \subseteq Entries
      BY <3>1 DEF Wages!HandlerStates, Wages!Idle
    <3> QED BY <1>1, <1>6, <2>2, <3>1, <3>2 DEF Fits
  <2> QED BY <2>1, <2>2 DEF WagesInv, Wages!TypeOK, Turns
<1> QED BY <1>3, <1>4, <1>5, <1>7 DEF WagesInv

(* The states a handler is in by what it does. *)
LEMMA WagesHandlers ==
    ASSUME Wages!TypeOK, NEW p \in Handlers
    PROVE  /\ h[p].op = "create" => h[p] \in [op : {"create"}, emp : Employees, day : Days]
           /\ h[p].op \in {"update", "delete", "submit", "decide"} =>
                h[p] \in [op : {"update", "delete", "submit", "decide"}, id : Entries,
                          seen : Wages!EntryRows]
           /\ h[p].op \in {"calc", "approve", "pay"} =>
                h[p] \in [op : {"calc", "approve", "pay"}, id : Runs, seen : Wages!RunRows]
           /\ h[p].op = "loop" =>
                h[p] \in [op : {"loop"}, id : Runs, seen : Wages!RunRows,
                          todo : SUBSET Employees, sum : Nat]
           /\ h[p].op = "slip" =>
                h[p] \in [op : {"slip"}, id : Runs, seen : Wages!RunRows,
                          todo : SUBSET Employees, sum : Nat, emp : Employees,
                          picked : SUBSET Entries, gross : Nat]
<1>1. h[p] \in Wages!HandlerStates
  BY DEF Wages!TypeOK
<1> QED BY <1>1 DEF Wages!HandlerStates, Wages!Idle

LEMMA LoadsTyped ==
    ASSUME Wages!TypeOK, NEW p \in Handlers, NEW op, NEW t,
           \/ /\ t \in Entries /\ op \in {"update", "delete", "submit", "decide"}
              /\ h' = [h EXCEPT ![p] = [op |-> op, id |-> t, seen |-> timesheet[t]]]
           \/ /\ t \in Runs /\ op \in {"calc", "approve", "pay"}
              /\ h' = [h EXCEPT ![p] = [op |-> op, id |-> t, seen |-> run[t]]]
    PROVE  \E q \in Wages!HandlerStates : Turns(p, q) /\ Fits(q)
<1>1. CASE /\ t \in Entries /\ op \in {"update", "delete", "submit", "decide"}
           /\ h' = [h EXCEPT ![p] = [op |-> op, id |-> t, seen |-> timesheet[t]]]
  <2> DEFINE q == [op |-> op, id |-> t, seen |-> timesheet[t]]
  <2>1. q \in Wages!HandlerStates /\ Fits(q)
    BY <1>1 DEF Wages!TypeOK, Wages!HandlerStates, Fits
  <2> QED BY <1>1, <2>1 DEF Turns
<1>2. CASE /\ t \in Runs /\ op \in {"calc", "approve", "pay"}
           /\ h' = [h EXCEPT ![p] = [op |-> op, id |-> t, seen |-> run[t]]]
  <2> DEFINE q == [op |-> op, id |-> t, seen |-> run[t]]
  <2>1. q \in Wages!HandlerStates /\ Fits(q)
    BY <1>2 DEF Wages!TypeOK, Wages!HandlerStates, Fits
  <2> QED BY <1>2, <2>1 DEF Turns
<1> QED BY <1>1, <1>2

LEMMA LoadKeepsWages ==
    ASSUME WagesInv, NEW p \in Handlers,
           \/ \E t \in Entries : \/ Wages!UpdateLoad(p, t) \/ Wages!DeleteLoad(p, t)
                                 \/ Wages!SubmitLoad(p, t) \/ Wages!DecideLoad(p, t)
           \/ \E r \in Runs : \/ Wages!CalcLoad(p, r) \/ Wages!ApproveRunLoad(p, r)
                              \/ Wages!MarkPaidLoad(p, r)
    PROVE  WagesInv'
<1>1. /\ UNCHANGED <<timesheet, run, payslips, signed>>
      /\ \E op, t : \/ /\ t \in Entries /\ op \in {"update", "delete", "submit", "decide"}
                       /\ h' = [h EXCEPT ![p] = [op |-> op, id |-> t, seen |-> timesheet[t]]]
                    \/ /\ t \in Runs /\ op \in {"calc", "approve", "pay"}
                       /\ h' = [h EXCEPT ![p] = [op |-> op, id |-> t, seen |-> run[t]]]
  BY DEF Wages!UpdateLoad, Wages!DeleteLoad, Wages!SubmitLoad, Wages!DecideLoad, Wages!LoadEntry,
         Wages!CalcLoad, Wages!ApproveRunLoad, Wages!MarkPaidLoad, Wages!LoadRun
<1>2. PICK q \in Wages!HandlerStates : Turns(p, q) /\ Fits(q)
  BY <1>1, LoadsTyped DEF WagesInv
<1> QED BY <1>1, <1>2, WagesReads

LEMMA OtherReadsKeepWages ==
    ASSUME WagesInv, NEW p \in Handlers,
           \/ \E e \in Employees, d \in Days : Wages!CreateLoad(p, e, d)
           \/ Wages!CreateRunLoad(p) \/ Wages!SlipError(p) \/ Wages!Abort(p)
    PROVE  WagesInv'
<1>1. UNCHANGED <<timesheet, run, payslips, signed>>
  BY DEF Wages!CreateLoad, Wages!CreateRunLoad, Wages!SlipError, Wages!Abort
<1>2. \E q \in Wages!HandlerStates : Turns(p, q) /\ Fits(q)
  <2>1. ASSUME NEW e \in Employees, NEW d \in Days, Wages!CreateLoad(p, e, d)
        PROVE  \E q \in Wages!HandlerStates : Turns(p, q) /\ Fits(q)
    <3> DEFINE q == [op |-> "create", emp |-> e, day |-> d]
    <3>1. q \in Wages!HandlerStates /\ Fits(q) /\ Turns(p, q)
      BY <2>1 DEF Wages!CreateLoad, Wages!HandlerStates, Fits, Turns
    <3> QED BY <3>1
  <2>2. CASE Wages!CreateRunLoad(p)
    <3> DEFINE q == [op |-> "run"]
    <3>1. q \in Wages!HandlerStates /\ Fits(q) /\ Turns(p, q)
      BY <2>2 DEF Wages!CreateRunLoad, Wages!HandlerStates, Fits, Turns
    <3> QED BY <3>1
  <2>3. CASE Wages!SlipError(p)
    <3> DEFINE q == Wages!Looping(p, h[p].sum)
    <3>1. q \in Wages!HandlerStates /\ Fits(q) /\ Turns(p, q)
      BY <2>3, WagesHandlers DEF Wages!SlipError, Wages!Looping, Wages!HandlerStates, Fits, Turns, WagesInv
    <3> QED BY <3>1
  <2>4. CASE Wages!Abort(p)
    <3>1. Wages!Idle \in Wages!HandlerStates /\ Fits(Wages!Idle) /\ Turns(p, Wages!Idle)
      BY <2>4 DEF Wages!Abort, Wages!HandlerStates, Wages!Idle, Fits, Turns
    <3> QED BY <3>1
  <2> QED BY <2>1, <2>2, <2>3, <2>4
<1> QED BY <1>1, <1>2, WagesReads

(* The sum of the hours of approved entries is a number. *)
LEMMA HoursSum ==
    ASSUME Wages!PayrollAssumption, Wages!TypeOK, NEW X \in SUBSET Entries
    PROVE  /\ IsFiniteSet(X)
           /\ SumFunctionOnSet([t \in Entries |-> timesheet[t].hours], X) \in Nat
<1>1. IsFiniteSet(X)
  BY WagesSizes, FS_Subset DEF Wages!PayrollAssumption
<1> QED BY <1>1, SumNat DEF Wages!TypeOK, Wages!EntryRows, Wages!Hours

LEMMA SlipLoadKeepsWages ==
    ASSUME Wages!PayrollAssumption, WagesInv, NEW p \in Handlers, NEW e \in Employees,
           Wages!SlipLoad(p, e)
    PROVE  WagesInv'
<1>1. /\ h[p].op = "loop" /\ Fits(h[p])
      /\ h[p] \in [op : {"loop"}, id : Runs, seen : Wages!RunRows, todo : SUBSET Employees, sum : Nat]
  BY WagesHandlers DEF Wages!SlipLoad, WagesInv
<1>2. UNCHANGED <<timesheet, run, payslips, signed>>
  BY DEF Wages!SlipLoad
<1>3. CASE Wages!ApprovedOf(e) = {}
  <2> DEFINE q == [h[p] EXCEPT !.todo = h[p].todo \ {e}]
  <2>1. q \in Wages!HandlerStates /\ Fits(q)
    BY <1>1 DEF Wages!HandlerStates, Fits
  <2> QED BY <1>2, <1>3, <2>1, WagesReads DEF Wages!SlipLoad, Turns
<1>4. CASE Wages!ApprovedOf(e) # {}
  <2> DEFINE X == Wages!ApprovedOf(e)
             gross == Wages!SumFunctionOnSet([t \in Entries |-> timesheet[t].hours], X)
             q == [op |-> "slip", id |-> h[p].id, seen |-> h[p].seen, todo |-> h[p].todo \ {e},
                   sum |-> h[p].sum, emp |-> e, picked |-> X, gross |-> gross]
  <2>1. X \in SUBSET Entries
    BY DEF Wages!ApprovedOf, Wages!Stored
  <2>2. gross \in Nat
    <3> HIDE DEF X
    <3> QED BY <2>1, HoursSum, WagesSizes DEF WagesInv
  <2>3. Turns(p, q)
    BY <1>4 DEF Wages!SlipLoad, Turns
  <2>4. \A t \in X : timesheet[t].status # "unused" /\ timesheet[t].emp = e
    BY DEF Wages!ApprovedOf, Wages!Stored
  <2> HIDE DEF X, gross
  <2>5. q \in Wages!HandlerStates /\ Fits(q)
    BY <1>1, <2>1, <2>2, <2>4 DEF Wages!HandlerStates, Fits
  <2> HIDE DEF q
  <2> QED BY <1>2, <2>3, <2>5, WagesReads
<1> QED BY <1>3, <1>4

LEMMA CreateKeepsWages ==
    ASSUME WagesInv, NEW p \in Handlers, NEW t \in Entries, NEW n \in Wages!Hours,
           Wages!CreateCommit(p, t, n)
    PROVE  WagesInv'
<1> DEFINE row == [status |-> "draft", emp |-> h[p].emp, day |-> h[p].day, hours |-> n]
<1>1. row \in Wages!EntryRows
  BY WagesHandlers DEF WagesInv, Wages!CreateCommit, Wages!EntryRows
<1>2. timesheet' = [timesheet EXCEPT ![t] = row] /\ timesheet[t].status = "unused" /\ row.status = "draft"
  BY DEF Wages!CreateCommit
<1>3. Turns(p, Wages!Idle) /\ UNCHANGED <<run, payslips>> /\ signed' \in [Entries -> 0 .. MaxWorked]
  BY DEF Wages!CreateCommit, Turns, WagesInv, Wages!TypeOK
<1> HIDE DEF row
<1> QED BY <1>1, <1>2, <1>3, SheetWritten

LEMMA EntryKeepsWages ==
    ASSUME WagesInv, NEW p \in Handlers, MaxWorked \in Nat,
           \/ \E d \in Days, n \in Wages!Hours : Wages!UpdateCommit(p, d, n)
           \/ Wages!DeleteCommit(p) \/ Wages!SubmitCommit(p)
           \/ \E s \in {"approved", "rejected"} : Wages!DecideCommit(p, s)
    PROVE  WagesInv'
<1>1. /\ h[p] \in [op : {"update", "delete", "submit", "decide"}, id : Entries, seen : Wages!EntryRows]
      /\ Turns(p, Wages!Idle) /\ UNCHANGED <<run, payslips>>
  BY WagesHandlers DEF WagesInv, Wages!UpdateCommit, Wages!DeleteCommit, Wages!SubmitCommit,
     Wages!DecideCommit, Wages!CommitEntry, Turns
<1>2. \/ /\ timesheet' = [timesheet EXCEPT ![h[p].id] = [@ EXCEPT !.status = "deleted"]]
      \/ \E new \in Wages!EntryRows :
            /\ timesheet' = [timesheet EXCEPT ![h[p].id] = Wages!Flushed(@, h[p].seen, new)]
            /\ new.emp = h[p].seen.emp
            /\ new.status = h[p].seen.status \/ new.status \in {"submitted", "approved", "rejected"}
  <2>1. ASSUME NEW d \in Days, NEW n \in Wages!Hours, Wages!UpdateCommit(p, d, n)
        PROVE  \E new \in Wages!EntryRows :
            /\ timesheet' = [timesheet EXCEPT ![h[p].id] = Wages!Flushed(@, h[p].seen, new)]
            /\ new.emp = h[p].seen.emp
            /\ new.status = h[p].seen.status \/ new.status \in {"submitted", "approved", "rejected"}
    <3> DEFINE new == [h[p].seen EXCEPT !.day = d, !.hours = n]
    <3>1. new \in Wages!EntryRows /\ new.emp = h[p].seen.emp /\ new.status = h[p].seen.status
      BY <1>1 DEF Wages!EntryRows
    <3> QED BY <2>1, <3>1 DEF Wages!UpdateCommit, Wages!CommitEntry
  <2>2. ASSUME NEW s \in {"submitted", "approved", "rejected"},
               timesheet' = [timesheet EXCEPT ![h[p].id] =
                                Wages!Flushed(@, h[p].seen, [h[p].seen EXCEPT !.status = s])]
        PROVE  \E new \in Wages!EntryRows :
            /\ timesheet' = [timesheet EXCEPT ![h[p].id] = Wages!Flushed(@, h[p].seen, new)]
            /\ new.emp = h[p].seen.emp
            /\ new.status = h[p].seen.status \/ new.status \in {"submitted", "approved", "rejected"}
    <3> DEFINE new == [h[p].seen EXCEPT !.status = s]
    <3>1. new \in Wages!EntryRows /\ new.emp = h[p].seen.emp /\ new.status = s
      BY <1>1 DEF Wages!EntryRows
    <3> QED BY <2>2, <3>1
  <2>3. CASE Wages!DeleteCommit(p)
    BY <2>3 DEF Wages!DeleteCommit
  <2>4. CASE Wages!SubmitCommit(p)
    BY <2>2, <2>4 DEF Wages!SubmitCommit, Wages!CommitEntry
  <2>5. ASSUME NEW s \in {"approved", "rejected"}, Wages!DecideCommit(p, s)
        PROVE  timesheet' = [timesheet EXCEPT ![h[p].id] =
                                Wages!Flushed(@, h[p].seen, [h[p].seen EXCEPT !.status = s])]
    BY <2>5 DEF Wages!DecideCommit, Wages!CommitEntry
  <2> QED BY <2>1, <2>2, <2>3, <2>4, <2>5
<1>3. signed' \in [Entries -> 0 .. MaxWorked]
  <2>1. h[p].id \in Entries /\ h[p].seen.hours \in 0 .. MaxWorked
    BY <1>1 DEF Wages!EntryRows, Wages!Hours
  <2>2. signed' = signed \/ signed' = [signed EXCEPT ![h[p].id] = h[p].seen.hours]
    BY DEF Wages!UpdateCommit, Wages!DeleteCommit, Wages!SubmitCommit, Wages!DecideCommit
  <2> QED BY <2>1, <2>2 DEF WagesInv, Wages!TypeOK
<1>4. CASE timesheet' = [timesheet EXCEPT ![h[p].id] = [@ EXCEPT !.status = "deleted"]]
  <2> DEFINE row == [timesheet[h[p].id] EXCEPT !.status = "deleted"]
  <2>1. row \in Wages!EntryRows /\ row.status = "deleted" /\ row.emp = timesheet[h[p].id].emp
    BY <1>1 DEF WagesInv, Wages!TypeOK, Wages!EntryRows
  <2>2. timesheet' = [timesheet EXCEPT ![h[p].id] = row]
    BY <1>4
  <2> HIDE DEF row
  <2> QED BY <1>1, <1>3, <2>1, <2>2, SheetWritten
<1>5. ASSUME NEW new \in Wages!EntryRows,
             timesheet' = [timesheet EXCEPT ![h[p].id] = Wages!Flushed(@, h[p].seen, new)],
             new.emp = h[p].seen.emp,
             new.status = h[p].seen.status \/ new.status \in {"submitted", "approved", "rejected"}
      PROVE  WagesInv'
  <2>1. PICK row : row = Wages!Flushed(timesheet[h[p].id], h[p].seen, new)
    OBVIOUS
  <2>2. timesheet[h[p].id] \in Wages!EntryRows
    BY <1>1 DEF WagesInv, Wages!TypeOK
  <2>3. /\ row \in Wages!EntryRows /\ row.emp = timesheet[h[p].id].emp
        /\ row.status = timesheet[h[p].id].status \/ row.status \in {"submitted", "approved", "rejected"}
    BY <1>5, <2>1, <2>2, SheetFlushed
  <2>4. timesheet' = [timesheet EXCEPT ![h[p].id] = row]
    BY <1>5, <2>1
  <2> QED BY <1>1, <1>3, <2>3, <2>4, SheetWritten
<1> QED BY <1>2, <1>4, <1>5

LEMMA RunsKeepWages ==
    ASSUME WagesInv, NEW p \in Handlers,
           \/ \E r \in Runs : Wages!CreateRunCommit(p, r)
           \/ Wages!CalcBegin(p) \/ Wages!CalcCommit(p)
           \/ Wages!ApproveRunCommit(p) \/ Wages!MarkPaidCommit(p)
    PROVE  WagesInv'
<1>1. \A x \in Runs : /\ run[x] \in Wages!RunRows
                      /\ Wages!Gross(SlipsOf(x)) \in Nat
                      /\ run[x].total <= Wages!Gross(SlipsOf(x))
  <2>1. \A x \in Runs : SlipsOf(x) \subseteq Wages!SlipRows /\ IsFiniteSet(SlipsOf(x))
    BY FS_Subset DEF WagesInv, SlipsNumbered, Wages!TypeOK, SlipsOf
  <2> QED BY <2>1, SlipsAdd DEF WagesInv, Wages!TypeOK, Wages!TotalsWithinPayslips, SlipsOf
<1>2. ASSUME NEW r \in Runs, NEW q \in Wages!HandlerStates, Turns(p, q), Fits(q),
             UNCHANGED <<timesheet, payslips, signed>>, NEW seen, NEW new \in Wages!RunRows,
             run' = [run EXCEPT ![r] = Wages!Flushed(@, seen, new)],
             new.total = seen.total \/ new.total <= Wages!Gross(SlipsOf(r))
      PROVE  WagesInv'
  <2>1. PICK row : row = Wages!Flushed(run[r], seen, new)
    OBVIOUS
  <2>2. /\ row \in Wages!RunRows
        /\ row.total \in {run[r].total, new.total}
        /\ new.total = seen.total => row.total = run[r].total
    BY <1>1, <2>1, RunFlushed
  <2>3. row.total <= Wages!Gross(SlipsOf(r))
    BY <1>1, <1>2, <2>2
  <2>4. run' = [run EXCEPT ![r] = row]
    BY <1>2, <2>1
  <2> QED BY <1>2, <2>2, <2>3, <2>4, RunWritten
<1>3. ASSUME NEW r \in Runs, Wages!CreateRunCommit(p, r) PROVE WagesInv'
  <2> DEFINE row == [status |-> "draft", total |-> 0]
  <2>1. row \in Wages!RunRows /\ row.total <= Wages!Gross(SlipsOf(r))
    BY <1>1 DEF Wages!RunRows
  <2>2. /\ Turns(p, Wages!Idle) /\ run' = [run EXCEPT ![r] = row]
        /\ UNCHANGED <<timesheet, payslips, signed>>
    BY <1>3 DEF Wages!CreateRunCommit, Turns
  <2>3. Wages!Idle \in Wages!HandlerStates /\ Fits(Wages!Idle)
    BY DEF Wages!HandlerStates, Fits, Wages!Idle
  <2> HIDE DEF row
  <2> QED BY <2>1, <2>2, <2>3, RunWritten
<1>4. CASE Wages!CalcBegin(p)
  <2>1. h[p] \in [op : {"calc", "approve", "pay"}, id : Runs, seen : Wages!RunRows]
    BY <1>4, WagesHandlers DEF WagesInv, Wages!CalcBegin
  <2> DEFINE new == [h[p].seen EXCEPT !.status = "calculating"]
             q == [op |-> "loop", id |-> h[p].id, seen |-> new, todo |-> Employees, sum |-> 0]
  <2>2. new \in Wages!RunRows /\ new.total = h[p].seen.total
    BY <2>1 DEF Wages!RunRows
  <2>3. q \in Wages!HandlerStates
    BY <2>1, <2>2 DEF Wages!HandlerStates
  <2>4. Fits(q)
    BY <1>1, <2>1 DEF Fits
  <2>5. /\ Turns(p, q) /\ run' = [run EXCEPT ![h[p].id] = Wages!Flushed(@, h[p].seen, new)]
        /\ UNCHANGED <<timesheet, payslips, signed>>
    BY <1>4 DEF Wages!CalcBegin, Wages!CommitRun, Turns
  <2> HIDE DEF new, q
  <2> QED BY <1>2, <2>1, <2>2, <2>3, <2>4, <2>5
<1>5. CASE Wages!CalcCommit(p)
  <2>1. /\ h[p] \in [op : {"loop"}, id : Runs, seen : Wages!RunRows, todo : SUBSET Employees, sum : Nat]
        /\ h[p].sum <= Wages!Gross(SlipsOf(h[p].id))
    BY <1>5, WagesHandlers DEF WagesInv, Wages!CalcCommit, Fits
  <2> DEFINE new == [status |-> "pending_review", total |-> h[p].sum]
  <2>2. new \in Wages!RunRows /\ new.total = h[p].sum
    BY <2>1 DEF Wages!RunRows
  <2>3. Wages!Idle \in Wages!HandlerStates /\ Fits(Wages!Idle)
    BY DEF Wages!HandlerStates, Fits, Wages!Idle
  <2>4. /\ Turns(p, Wages!Idle) /\ run' = [run EXCEPT ![h[p].id] = Wages!Flushed(@, h[p].seen, new)]
        /\ UNCHANGED <<timesheet, payslips, signed>>
    BY <1>5 DEF Wages!CalcCommit, Wages!CommitRun, Turns
  <2> HIDE DEF new
  <2> QED BY <1>2, <2>1, <2>2, <2>3, <2>4
<1>6. ASSUME NEW op, NEW s, <<op, s>> \in {<<"approve", "approved">>, <<"pay", "paid">>},
             Wages!CommitRun(p, op, [h[p].seen EXCEPT !.status = s], Wages!Idle)
      PROVE  WagesInv'
  <2>1. h[p] \in [op : {"calc", "approve", "pay"}, id : Runs, seen : Wages!RunRows]
    BY <1>6, WagesHandlers DEF WagesInv, Wages!CommitRun
  <2> DEFINE new == [h[p].seen EXCEPT !.status = s]
  <2>2. new \in Wages!RunRows /\ new.total = h[p].seen.total
    BY <1>6, <2>1 DEF Wages!RunRows
  <2>3. Wages!Idle \in Wages!HandlerStates /\ Fits(Wages!Idle)
    BY DEF Wages!HandlerStates, Fits, Wages!Idle
  <2>4. /\ Turns(p, Wages!Idle) /\ run' = [run EXCEPT ![h[p].id] = Wages!Flushed(@, h[p].seen, new)]
        /\ UNCHANGED <<timesheet, payslips, signed>>
    BY <1>6 DEF Wages!CommitRun, Turns
  <2> HIDE DEF new
  <2> QED BY <1>2, <2>1, <2>2, <2>3, <2>4
<1>7. CASE Wages!ApproveRunCommit(p) \/ Wages!MarkPaidCommit(p)
  <2>1. \E op, s : /\ <<op, s>> \in {<<"approve", "approved">>, <<"pay", "paid">>}
                   /\ Wages!CommitRun(p, op, [h[p].seen EXCEPT !.status = s], Wages!Idle)
    BY <1>7 DEF Wages!ApproveRunCommit, Wages!MarkPaidCommit
  <2> QED BY <1>6, <2>1
<1> QED BY <1>3, <1>4, <1>5, <1>7

(* What a payslip adds: its own amount to its run, and a number nobody has. *)
LEMMA SlipNew ==
    ASSUME Wages!PayrollAssumption, WagesInv, NEW p \in Handlers, Wages!SlipCommit(p)
    PROVE  \E x \in Wages!SlipRows \ payslips :
              /\ x = [num |-> Cardinality(payslips) + 1, run |-> h[p].id, emp |-> h[p].emp,
                      gross |-> h[p].gross, of |-> h[p].picked]
              /\ payslips' = payslips \cup {x}
              /\ IsFiniteSet(payslips') /\ Cardinality(payslips') = Cardinality(payslips) + 1
<1> DEFINE x == [num |-> Cardinality(payslips) + 1, run |-> h[p].id, emp |-> h[p].emp,
                 gross |-> h[p].gross, of |-> h[p].picked]
<1>1. Cardinality(payslips) \in Nat
  BY FS_CardinalityType DEF WagesInv, SlipsNumbered
<1>2. h[p] \in [op : {"slip"}, id : Runs, seen : Wages!RunRows, todo : SUBSET Employees,
                sum : Nat, emp : Employees, picked : SUBSET Entries, gross : Nat]
  BY WagesHandlers DEF WagesInv, Wages!SlipCommit
<1>3. Cardinality(payslips) < MaxSlips /\ payslips' = payslips \cup {x}
  BY WagesSizes DEF Wages!SlipCommit
<1>4. payslips \subseteq Wages!SlipRows
  BY DEF WagesInv, Wages!TypeOK
<1>5. x \in Wages!SlipRows
  <2>1. Cardinality(payslips) + 1 \in 1 .. MaxSlips
    BY <1>1, <1>3 DEF Wages!PayrollAssumption
  <2> QED BY <1>2, <2>1 DEF Wages!SlipRows
<1>6. x \notin payslips
  <2>1. x.num = Cardinality(payslips) + 1
    OBVIOUS
  <2> QED BY <1>1, <2>1 DEF WagesInv, SlipsNumbered
<1> HIDE DEF x
<1>7. IsFiniteSet(payslips') /\ Cardinality(payslips') = Cardinality(payslips) + 1
  BY <1>3, <1>6, FS_AddElement DEF WagesInv, SlipsNumbered
<1> QED BY <1>3, <1>5, <1>6, <1>7 DEF x

LEMMA SlipKeepsWages ==
    ASSUME Wages!PayrollAssumption, WagesInv, NEW p \in Handlers, Wages!SlipCommit(p)
    PROVE  WagesInv'
<1>1. PICK x \in Wages!SlipRows \ payslips :
         /\ x = [num |-> Cardinality(payslips) + 1, run |-> h[p].id, emp |-> h[p].emp,
                 gross |-> h[p].gross, of |-> h[p].picked]
         /\ payslips' = payslips \cup {x}
         /\ IsFiniteSet(payslips') /\ Cardinality(payslips') = Cardinality(payslips) + 1
  BY SlipNew
<1>2. /\ h[p] \in [op : {"slip"}, id : Runs, seen : Wages!RunRows, todo : SUBSET Employees,
                   sum : Nat, emp : Employees, picked : SUBSET Entries, gross : Nat]
      /\ \A t \in h[p].picked : timesheet[t].emp = h[p].emp
      /\ h[p].sum <= Wages!Gross(SlipsOf(h[p].id))
  BY WagesHandlers DEF WagesInv, Wages!SlipCommit, Fits
<1>3. /\ x.run = h[p].id /\ x.emp = h[p].emp /\ x.of = h[p].picked
      /\ x.gross = h[p].gross /\ x.num = Cardinality(payslips) + 1
  BY <1>1
<1>4. /\ timesheet' = [t \in Entries |-> IF t \in h[p].picked
                                         THEN [timesheet[t] EXCEPT !.status = "paid"]
                                         ELSE timesheet[t]]
      /\ UNCHANGED <<run, signed>>
  BY DEF Wages!SlipCommit
<1>5. \A t \in Entries : /\ timesheet'[t] \in Wages!EntryRows
                         /\ timesheet'[t].emp = timesheet[t].emp
                         /\ timesheet[t].status # "unused" => timesheet'[t].status # "unused"
                         /\ timesheet'[t].status = "paid" => timesheet[t].status = "paid" \/ t \in x.of
  BY <1>2, <1>3, <1>4 DEF WagesInv, Wages!TypeOK, Wages!EntryRows
<1>6. \A r : /\ Wages!Gross(SlipsOf(r)) \in Nat /\ Wages!Gross(SlipsOf(r))' \in Nat
             /\ Wages!Gross(SlipsOf(r)) <= Wages!Gross(SlipsOf(r))'
             /\ r = x.run => Wages!Gross(SlipsOf(r))' = Wages!Gross(SlipsOf(r)) + x.gross
  <2> SUFFICES ASSUME NEW r
               PROVE  /\ Wages!Gross(SlipsOf(r)) \in Nat /\ Wages!Gross(SlipsOf(r))' \in Nat
                      /\ Wages!Gross(SlipsOf(r)) <= Wages!Gross(SlipsOf(r))'
                      /\ r = x.run => Wages!Gross(SlipsOf(r))' = Wages!Gross(SlipsOf(r)) + x.gross
    OBVIOUS
  <2>1. IsFiniteSet(SlipsOf(r)) /\ SlipsOf(r) \subseteq Wages!SlipRows /\ x \notin SlipsOf(r)
    BY FS_Subset DEF SlipsOf, WagesInv, SlipsNumbered, Wages!TypeOK
  <2>2. /\ Wages!Gross(SlipsOf(r)) \in Nat
        /\ Wages!Gross(SlipsOf(r) \cup {x}) = Wages!Gross(SlipsOf(r)) + x.gross
    BY <2>1, SlipsAdd
  <2>3. \A X : Wages!Gross(X)' = Wages!Gross(X)
    BY DEF Wages!Gross
  <2>4. SlipsOf(r)' = IF r = x.run THEN SlipsOf(r) \cup {x} ELSE SlipsOf(r)
    BY <1>1 DEF SlipsOf
  <2>5. Wages!Gross(SlipsOf(r))' = Wages!Gross(SlipsOf(r)')
    BY DEF Wages!Gross
  <2>6. x.gross \in Nat
    BY DEF Wages!SlipRows
  <2> QED BY <2>2, <2>4, <2>5, <2>6
<1> DEFINE q == Wages!Looping(p, h[p].sum + h[p].gross)
<1>7. q \in Wages!HandlerStates /\ q.op = "loop" /\ q.id = x.run /\ q.sum = h[p].sum + x.gross
  BY <1>2, <1>3 DEF Wages!Looping, Wages!HandlerStates
<1>8. Turns(p, q)
  BY DEF Wages!SlipCommit, Turns
<1> HIDE DEF q
<1>9. Wages!TypeOK'
  <2>1. timesheet' \in [Entries -> Wages!EntryRows]
    BY <1>4, <1>5
  <2> QED BY <1>1, <1>4, <1>7, <1>8, <2>1 DEF WagesInv, Wages!TypeOK, Turns
<1>10. SlipsNumbered'
  <2>1. Cardinality(payslips) \in Nat
    BY FS_CardinalityType DEF WagesInv, SlipsNumbered
  <2>2. ASSUME NEW y \in payslips PROVE y.num <= Cardinality(payslips) + 1
    BY <2>1 DEF WagesInv, SlipsNumbered, Wages!TypeOK, Wages!SlipRows
  <2> QED BY <1>1, <1>3, <2>1, <2>2 DEF SlipsNumbered
<1>11. Wages!TotalsWithinPayslips'
  <2>1. ASSUME NEW r \in Runs PROVE run'[r].total <= Wages!Gross(SlipsOf(r))'
    <3>1. run[r].total \in Nat /\ run[r].total <= Wages!Gross(SlipsOf(r)) /\ run' = run
      BY <1>4 DEF WagesInv, Wages!TypeOK, Wages!RunRows, Wages!TotalsWithinPayslips, SlipsOf
    <3> QED BY <1>6, <3>1
  <2> QED BY <2>1 DEF Wages!TotalsWithinPayslips, SlipsOf
<1>12. Wages!PaidIsOnPayslip'
  BY <1>1, <1>2, <1>3, <1>5 DEF WagesInv, Wages!PaidIsOnPayslip
<1>13. ASSUME NEW y \in Handlers PROVE Fits(h[y])'
  <2>1. CASE h'[y] = q
    BY <1>2, <1>3, <1>6, <1>7, <2>1 DEF Fits
  <2>2. CASE h'[y] = h[y]
    <3>1. Fits(h[y]) /\ h[y] \in Wages!HandlerStates
      BY DEF WagesInv, Wages!TypeOK
    <3>2. h[y].op \in {"loop", "slip"} => h[y].sum \in Nat
      BY <3>1 DEF Wages!HandlerStates, Wages!Idle
    <3>3. h[y].op = "slip" => h[y].picked \subseteq Entries
      BY <3>1 DEF Wages!HandlerStates, Wages!Idle
    <3> QED BY <1>5, <1>6, <2>2, <3>1, <3>2, <3>3 DEF Fits
  <2> QED BY <1>8, <2>1, <2>2 DEF WagesInv, Wages!TypeOK, Turns
<1> QED BY <1>9, <1>10, <1>11, <1>12, <1>13 DEF WagesInv

LEMMA WagesStep ==
    ASSUME Wages!PayrollAssumption, WagesInv, [Wages!Next]_(Wages!vars)
    PROVE  WagesInv'
<1>1. CASE UNCHANGED Wages!vars
  BY <1>1 DEF Wages!vars, WagesInv, Wages!TypeOK, SlipsNumbered, Wages!TotalsWithinPayslips,
              Wages!PaidIsOnPayslip, Wages!Gross, Fits, SlipsOf
<1>2. CASE Wages!Next
  BY <1>2, LoadKeepsWages, OtherReadsKeepWages, SlipLoadKeepsWages, CreateKeepsWages,
     EntryKeepsWages, RunsKeepWages, SlipKeepsWages DEF Wages!Next, Wages!PayrollAssumption
<1> QED BY <1>1, <1>2

(* Whatever fails on the way and however many calculate at once: the totals of a run are within
   its payslips, and an entry is only marked paid with a payslip of its employee that counts it.
   (calculate_all_payslips, _calculate_employee_payslip.) *)
THEOREM TotalsWithinHolds ==
    ASSUME Wages!PayrollAssumption
    PROVE  Wages!Spec => [](Wages!TypeOK /\ Wages!TotalsWithinPayslips /\ Wages!PaidIsOnPayslip)
<1>1. WagesInv => Wages!TypeOK /\ Wages!TotalsWithinPayslips /\ Wages!PaidIsOnPayslip
  BY DEF WagesInv
<1> QED BY <1>1, WagesStart, WagesStep, PTL DEF Wages!Spec

-----------------------------------------------------------------------------
PaidEntries == {t \in Entries : timesheet[t].status = "paid"}
SheetHours == [t \in Entries |-> timesheet[t].hours]

(* With one handler, what was read is still the row, and what is to be paid is approved. *)
AsRead(q) ==
    /\ q.op \in {"update", "delete", "submit"} =>
          q.seen = timesheet[q.id] /\ q.seen.status = "draft"
    /\ q.op = "decide" => q.seen = timesheet[q.id] /\ q.seen.status = "submitted"
    /\ q.op = "slip" => /\ \A t \in q.picked : timesheet[t].status = "approved"
                        /\ q.gross = SumFunctionOnSet(SheetHours, q.picked)

WagesSoloInv ==
    /\ WagesInv
    /\ \A x \in payslips : x.of \subseteq PaidEntries
    /\ Wages!PaidOnce
    /\ \A t \in Entries : timesheet[t].status \in {"approved", "paid"} => signed[t] = timesheet[t].hours
    /\ Wages!Gross(payslips) = SumFunctionOnSet(signed, PaidEntries)
    /\ \A p \in Handlers : AsRead(h[p])

LEMMA WagesSoloStart == ASSUME Wages!PayrollAssumption, Wages!Init PROVE WagesSoloInv
<1>1. PaidEntries = {} /\ payslips = {}
  BY DEF PaidEntries, Wages!Init, Wages!NoEntry
<1>2. Wages!Gross({}) = SumFunctionOnSet(signed, {})
  BY WagesSizes, SumEmpty DEF Wages!Gross
<1>3. \A t \in Entries : timesheet[t].status = "unused"
  BY DEF Wages!Init, Wages!NoEntry
<1>4. \A p \in Handlers : AsRead(h[p])
  BY DEF Wages!Init, Wages!Idle, AsRead
<1> QED BY <1>1, <1>2, <1>3, <1>4, WagesStart DEF WagesSoloInv, Wages!PaidOnce

(* Entries and payslips stay: what counts is what the handler has read. *)
LEMMA SoloSheetReads ==
    ASSUME OneHandler, WagesSoloInv, WagesInv', NEW p \in Handlers, Turns(p, h'[p]), AsRead(h'[p]),
           UNCHANGED <<timesheet, payslips, signed>>
    PROVE  WagesSoloInv'
<1>1. PaidEntries' = PaidEntries /\ SheetHours' = SheetHours
  BY DEF PaidEntries, SheetHours
<1>2. Wages!Gross(payslips)' = Wages!Gross(payslips) /\ Wages!PaidOnce'
  BY DEF Wages!Gross, WagesSoloInv, Wages!PaidOnce
<1>3. ASSUME NEW x \in Handlers PROVE AsRead(h[x])'
  <2>1. x = p
    BY DEF OneHandler
  <2> QED BY <1>1, <2>1 DEF AsRead
<1> QED BY <1>1, <1>2, <1>3 DEF WagesSoloInv

(* One entry, that is not paid, is written. *)
LEMMA SoloWritten ==
    ASSUME OneHandler, Wages!PayrollAssumption, WagesSoloInv, WagesInv', NEW p \in Handlers,
           Turns(p, Wages!Idle), NEW t \in Entries, NEW row, timesheet[t].status # "paid",
           timesheet' = [timesheet EXCEPT ![t] = row], row.status # "paid",
           \A x \in Entries \ {t} : signed'[x] = signed[x],
           row.status = "approved" => signed'[t] = row.hours, UNCHANGED payslips
    PROVE  WagesSoloInv'
<1>1. \A x \in Entries \ {t} : timesheet'[x] = timesheet[x]
  BY DEF WagesSoloInv, WagesInv, Wages!TypeOK
<1>2. timesheet'[t] = row
  BY DEF WagesSoloInv, WagesInv, Wages!TypeOK
<1>3. PaidEntries' = PaidEntries /\ t \notin PaidEntries
  BY <1>1, <1>2 DEF PaidEntries
<1>4. IsFiniteSet(PaidEntries)
  BY WagesSizes, FS_Subset DEF PaidEntries, Wages!PayrollAssumption
<1>5. SumFunctionOnSet(signed', PaidEntries) = SumFunctionOnSet(signed, PaidEntries)
  <2>1. \A x \in PaidEntries : signed'[x] = signed[x]
    BY <1>3 DEF PaidEntries
  <2> QED BY <1>4, <2>1, SumSame
<1>6. Wages!Gross(payslips)' = Wages!Gross(payslips) /\ Wages!PaidOnce'
  BY DEF Wages!Gross, WagesSoloInv, Wages!PaidOnce
<1>7. \A x \in Entries : timesheet'[x].status \in {"approved", "paid"} => signed'[x] = timesheet'[x].hours
  BY <1>1, <1>2 DEF WagesSoloInv
<1>8. ASSUME NEW x \in Handlers PROVE AsRead(h[x])'
  <2>1. h'[x] = Wages!Idle
    BY DEF OneHandler, Turns, WagesSoloInv, WagesInv, Wages!TypeOK
  <2> QED BY <2>1 DEF AsRead, Wages!Idle
<1> QED BY <1>3, <1>5, <1>6, <1>7, <1>8 DEF WagesSoloInv

LEMMA SoloLoads ==
    ASSUME OneHandler, WagesSoloInv, WagesInv', NEW p \in Handlers,
           \E t \in Entries : \/ Wages!UpdateLoad(p, t) \/ Wages!DeleteLoad(p, t)
                              \/ Wages!SubmitLoad(p, t) \/ Wages!DecideLoad(p, t)
    PROVE  WagesSoloInv'
<1>1. PICK t \in Entries, op \in {"update", "delete", "submit", "decide"} :
         /\ h' = [h EXCEPT ![p] = [op |-> op, id |-> t, seen |-> timesheet[t]]]
         /\ timesheet[t].status = IF op = "decide" THEN "submitted" ELSE "draft"
         /\ UNCHANGED <<timesheet, payslips, signed>>
  BY DEF Wages!UpdateLoad, Wages!DeleteLoad, Wages!SubmitLoad, Wages!DecideLoad, Wages!LoadEntry
<1>2. h'[p] = [op |-> op, id |-> t, seen |-> timesheet[t]]
  BY <1>1 DEF WagesSoloInv, WagesInv, Wages!TypeOK
<1>3. AsRead(h'[p])
  BY <1>1, <1>2 DEF AsRead
<1> QED BY <1>1, <1>2, <1>3, SoloSheetReads DEF Turns

(* What ends without a commit of an entry. *)
LEMMA SoloRuns ==
    ASSUME OneHandler, WagesSoloInv, WagesInv', NEW p \in Handlers,
           \/ \E r \in Runs : \/ Wages!CreateRunCommit(p, r) \/ Wages!CalcLoad(p, r)
                              \/ Wages!ApproveRunLoad(p, r) \/ Wages!MarkPaidLoad(p, r)
           \/ \E e \in Employees, d \in Days : Wages!CreateLoad(p, e, d)
           \/ Wages!CreateRunLoad(p) \/ Wages!CalcBegin(p) \/ Wages!SlipError(p) \/ Wages!CalcCommit(p)
           \/ Wages!ApproveRunCommit(p) \/ Wages!MarkPaidCommit(p) \/ Wages!Abort(p)
    PROVE  WagesSoloInv'
<1>1. \E q : /\ h' = [h EXCEPT ![p] = q]
             /\ q.op \in {"none", "calc", "approve", "pay", "create", "run", "loop"}
             /\ UNCHANGED <<timesheet, payslips, signed>>
  BY DEF Wages!CreateRunCommit, Wages!CalcLoad, Wages!ApproveRunLoad, Wages!MarkPaidLoad, Wages!LoadRun,
         Wages!CreateLoad, Wages!CreateRunLoad, Wages!CalcBegin, Wages!CommitRun, Wages!SlipError,
         Wages!Looping, Wages!CalcCommit, Wages!ApproveRunCommit, Wages!MarkPaidCommit, Wages!Abort,
         Wages!Idle
<1>2. PICK q : /\ h' = [h EXCEPT ![p] = q]
               /\ q.op \in {"none", "calc", "approve", "pay", "create", "run", "loop"}
               /\ UNCHANGED <<timesheet, payslips, signed>>
  BY <1>1
<1>3. h'[p] = q
  BY <1>2 DEF WagesSoloInv, WagesInv, Wages!TypeOK
<1>4. AsRead(q)
  BY <1>2 DEF AsRead
<1> QED BY <1>2, <1>3, <1>4, SoloSheetReads DEF Turns

LEMMA SoloSlipLoad ==
    ASSUME OneHandler, WagesSoloInv, WagesInv', NEW p \in Handlers, NEW e \in Employees,
           Wages!SlipLoad(p, e)
    PROVE  WagesSoloInv'
<1>1. h[p].op = "loop" /\ UNCHANGED <<timesheet, payslips, signed>>
  BY DEF Wages!SlipLoad
<1>2. h[p] \in [op : {"loop"}, id : Runs, seen : Wages!RunRows, todo : SUBSET Employees, sum : Nat]
  BY <1>1, WagesHandlers DEF WagesSoloInv, WagesInv
<1>3. AsRead(h'[p]) /\ Turns(p, h'[p])
  <2>1. CASE Wages!ApprovedOf(e) = {}
    <3>1. h' = [h EXCEPT ![p] = [h[p] EXCEPT !.todo = h[p].todo \ {e}]]
      BY <2>1 DEF Wages!SlipLoad
    <3>2. h'[p] = [h[p] EXCEPT !.todo = h[p].todo \ {e}]
      BY <3>1 DEF WagesSoloInv, WagesInv, Wages!TypeOK
    <3>3. h'[p].op = "loop"
      BY <1>2, <3>2
    <3> QED BY <3>1, <3>2, <3>3 DEF AsRead, Turns
  <2>2. CASE Wages!ApprovedOf(e) # {}
    <3> DEFINE X == Wages!ApprovedOf(e)
               q == [op |-> "slip", id |-> h[p].id, seen |-> h[p].seen, todo |-> h[p].todo \ {e},
                     sum |-> h[p].sum, emp |-> e, picked |-> X,
                     gross |-> SumFunctionOnSet(SheetHours, X)]
    <3>1. h' = [h EXCEPT ![p] = q]
      BY <2>2, WagesSizes DEF Wages!SlipLoad, SheetHours
    <3>2. h'[p] = q
      BY <3>1 DEF WagesSoloInv, WagesInv, Wages!TypeOK
    <3>3. \A t \in X : timesheet'[t].status = "approved"
      BY <1>1 DEF Wages!ApprovedOf
    <3>4. SheetHours' = SheetHours
      BY <1>1 DEF SheetHours
    <3> HIDE DEF X
    <3>5. AsRead(q)
      BY <1>1, <3>3, <3>4 DEF AsRead
    <3> HIDE DEF q
    <3> QED BY <3>1, <3>2, <3>5 DEF Turns
  <2> QED BY <2>1, <2>2
<1> QED BY <1>1, <1>3, SoloSheetReads

LEMMA SoloEntryNew ==
    ASSUME OneHandler, Wages!PayrollAssumption, WagesSoloInv, WagesInv', NEW p \in Handlers,
           NEW t \in Entries, NEW n \in Wages!Hours, Wages!CreateCommit(p, t, n)
    PROVE  WagesSoloInv'
<1> DEFINE row == [status |-> "draft", emp |-> h[p].emp, day |-> h[p].day, hours |-> n]
<1>1. row.status = "draft" /\ timesheet' = [timesheet EXCEPT ![t] = row] /\ timesheet[t].status = "unused"
  BY DEF Wages!CreateCommit
<1>2. Turns(p, Wages!Idle) /\ UNCHANGED <<payslips, signed>>
  BY DEF Wages!CreateCommit, Turns
<1> HIDE DEF row
<1> QED BY <1>1, <1>2, SoloWritten

LEMMA SoloEntries ==
    ASSUME OneHandler, Wages!PayrollAssumption, WagesSoloInv, WagesInv', NEW p \in Handlers,
           \/ \E d \in Days, n \in Wages!Hours : Wages!UpdateCommit(p, d, n)
           \/ Wages!DeleteCommit(p) \/ Wages!SubmitCommit(p)
           \/ \E s \in {"approved", "rejected"} : Wages!DecideCommit(p, s)
    PROVE  WagesSoloInv'
<1> DEFINE t == h[p].id
<1>1. /\ h[p] \in [op : {"update", "delete", "submit", "decide"}, id : Entries, seen : Wages!EntryRows]
      /\ Turns(p, Wages!Idle) /\ UNCHANGED payslips /\ AsRead(h[p])
  BY WagesHandlers DEF WagesSoloInv, WagesInv, Wages!UpdateCommit, Wages!DeleteCommit,
     Wages!SubmitCommit, Wages!DecideCommit, Wages!CommitEntry, Turns
<1>2. t \in Entries /\ timesheet[t] \in Wages!EntryRows
  BY <1>1 DEF WagesSoloInv, WagesInv, Wages!TypeOK
<1>3. /\ h[p].op # "delete" => h[p].seen = timesheet[t]
      /\ h[p].op \in {"update", "submit", "delete"} => timesheet[t].status = "draft"
      /\ h[p].op = "decide" => timesheet[t].status = "submitted"
  BY <1>1 DEF AsRead
<1> HIDE DEF t
<1>4. ASSUME NEW new \in Wages!EntryRows, h[p].op # "delete",
             timesheet' = [timesheet EXCEPT ![t] = Wages!Flushed(@, h[p].seen, new)]
      PROVE  timesheet' = [timesheet EXCEPT ![t] = new]
  <2>1. Wages!Flushed(timesheet[t], timesheet[t], new) = new
    BY <1>2 DEF Wages!Flushed, Wages!EntryRows
  <2> QED BY <1>3, <1>4, <2>1
<1>5. ASSUME NEW d \in Days, NEW n \in Wages!Hours, Wages!UpdateCommit(p, d, n) PROVE WagesSoloInv'
  <2> DEFINE new == [h[p].seen EXCEPT !.day = d, !.hours = n]
  <2>1. new \in Wages!EntryRows /\ new.status = "draft" /\ timesheet[t].status = "draft"
    BY <1>1, <1>3, <1>5 DEF Wages!EntryRows, Wages!UpdateCommit
  <2>2. /\ timesheet' = [timesheet EXCEPT ![t] = Wages!Flushed(@, h[p].seen, new)]
        /\ h[p].op # "delete" /\ UNCHANGED signed
    BY <1>5 DEF Wages!UpdateCommit, Wages!CommitEntry, t
  <2> HIDE DEF new
  <2> QED BY <1>1, <1>2, <1>4, <2>1, <2>2, SoloWritten
<1>6. CASE Wages!SubmitCommit(p)
  <2> DEFINE new == [h[p].seen EXCEPT !.status = "submitted"]
  <2>1. new \in Wages!EntryRows /\ new.status = "submitted" /\ timesheet[t].status = "draft"
    BY <1>1, <1>3, <1>6 DEF Wages!EntryRows, Wages!SubmitCommit
  <2>2. /\ timesheet' = [timesheet EXCEPT ![t] = Wages!Flushed(@, h[p].seen, new)]
        /\ h[p].op # "delete" /\ UNCHANGED signed
    BY <1>6 DEF Wages!SubmitCommit, Wages!CommitEntry, t
  <2> HIDE DEF new
  <2> QED BY <1>1, <1>2, <1>4, <2>1, <2>2, SoloWritten
<1>7. ASSUME NEW s \in {"approved", "rejected"}, Wages!DecideCommit(p, s) PROVE WagesSoloInv'
  <2> DEFINE new == [h[p].seen EXCEPT !.status = s]
  <2>1. /\ new \in Wages!EntryRows /\ new.status = s /\ new.hours = h[p].seen.hours
        /\ timesheet[t].status = "submitted"
    BY <1>1, <1>3, <1>7 DEF Wages!EntryRows, Wages!DecideCommit
  <2>2. /\ timesheet' = [timesheet EXCEPT ![t] = Wages!Flushed(@, h[p].seen, new)]
        /\ h[p].op # "delete"
        /\ signed' = IF s = "approved" THEN [signed EXCEPT ![t] = h[p].seen.hours] ELSE signed
    BY <1>7 DEF Wages!DecideCommit, Wages!CommitEntry, t
  <2>3. signed \in [Entries -> 0 .. MaxWorked]
    BY DEF WagesSoloInv, WagesInv, Wages!TypeOK
  <2> HIDE DEF new
  <2> QED BY <1>1, <1>2, <1>4, <2>1, <2>2, <2>3, SoloWritten
<1>8. CASE Wages!DeleteCommit(p)
  <2> DEFINE row == [timesheet[t] EXCEPT !.status = "deleted"]
  <2>1. row.status = "deleted" /\ timesheet[t].status = "draft"
    BY <1>2, <1>3, <1>8 DEF Wages!EntryRows, Wages!DeleteCommit
  <2>2. timesheet' = [timesheet EXCEPT ![t] = row] /\ UNCHANGED signed
    BY <1>8 DEF Wages!DeleteCommit, t
  <2> HIDE DEF row
  <2> QED BY <1>1, <1>2, <2>1, <2>2, SoloWritten
<1> QED BY <1>5, <1>6, <1>7, <1>8

(* A payslip pays what is approved, and all of it becomes paid. *)
LEMMA SoloSlips ==
    ASSUME OneHandler, Wages!PayrollAssumption, WagesSoloInv, WagesInv', NEW p \in Handlers,
           Wages!SlipCommit(p)
    PROVE  WagesSoloInv'
<1>1. PICK x \in Wages!SlipRows \ payslips :
         /\ x = [num |-> Cardinality(payslips) + 1, run |-> h[p].id, emp |-> h[p].emp,
                 gross |-> h[p].gross, of |-> h[p].picked]
         /\ payslips' = payslips \cup {x}
         /\ IsFiniteSet(payslips') /\ Cardinality(payslips') = Cardinality(payslips) + 1
  BY SlipNew DEF WagesSoloInv
<1> DEFINE X == h[p].picked
<1>2. /\ h[p].op = "slip" /\ X \subseteq Entries /\ h[p].sum \in Nat /\ h[p].gross \in Nat
      /\ \A t \in X : timesheet[t].status = "approved"
      /\ h[p].gross = SumFunctionOnSet(SheetHours, X)
  BY WagesHandlers DEF Wages!SlipCommit, WagesSoloInv, WagesInv, AsRead
<1>3. x.of = X /\ x.gross = h[p].gross
  BY <1>1
<1>4. /\ timesheet' = [t \in Entries |-> IF t \in X THEN [timesheet[t] EXCEPT !.status = "paid"]
                                         ELSE timesheet[t]]
      /\ UNCHANGED signed
  BY DEF Wages!SlipCommit
<1> HIDE DEF X
<1>5. \A t \in Entries : /\ timesheet[t] \in Wages!EntryRows
                         /\ timesheet'[t].hours = timesheet[t].hours
                         /\ timesheet'[t].status = IF t \in X THEN "paid" ELSE timesheet[t].status
  BY <1>4 DEF WagesSoloInv, WagesInv, Wages!TypeOK, Wages!EntryRows
<1>6. PaidEntries' = PaidEntries \cup X /\ PaidEntries \cap X = {}
  BY <1>2, <1>5 DEF PaidEntries
<1>7. \A y \in payslips' : y.of \subseteq PaidEntries'
  BY <1>1, <1>3, <1>6 DEF WagesSoloInv
<1>8. Wages!PaidOnce'
  <2>1. \A y \in payslips : y.of \cap X = {}
    BY <1>6 DEF WagesSoloInv
  <2> QED BY <1>1, <1>3, <2>1 DEF WagesSoloInv, Wages!PaidOnce
<1>9. \A t \in Entries : timesheet'[t].status \in {"approved", "paid"} => signed'[t] = timesheet'[t].hours
  BY <1>2, <1>4, <1>5 DEF WagesSoloInv
<1>10. Wages!Gross(payslips)' = SumFunctionOnSet(signed', PaidEntries')
  <2>1. IsFiniteSet(X) /\ IsFiniteSet(PaidEntries)
    BY <1>2, WagesSizes, FS_Subset DEF PaidEntries, Wages!PayrollAssumption
  <2>2. SumFunctionOnSet(signed, PaidEntries \cup X)
          = SumFunctionOnSet(signed, PaidEntries) + SumFunctionOnSet(signed, X)
    <3>1. \A t \in PaidEntries \cup X : signed[t] \in Int
      BY <1>2 DEF PaidEntries, WagesSoloInv, WagesInv, Wages!TypeOK
    <3> QED BY <1>6, <2>1, <3>1, SumUnion
  <2>3. SumFunctionOnSet(signed, X) = SumFunctionOnSet(SheetHours, X)
    <3>1. \A t \in X : signed[t] = SheetHours[t]
      BY <1>2 DEF SheetHours, WagesSoloInv
    <3> QED BY <2>1, <3>1, SumSame
  <2>4. Wages!Gross(payslips \cup {x}) = Wages!Gross(payslips) + x.gross
    BY SlipsAdd DEF WagesSoloInv, WagesInv, SlipsNumbered, Wages!TypeOK
  <2>5. Wages!Gross(payslips)' = Wages!Gross(payslips')
    BY DEF Wages!Gross
  <2> QED BY <1>1, <1>2, <1>3, <1>4, <1>6, <2>2, <2>3, <2>4, <2>5 DEF WagesSoloInv
<1>11. ASSUME NEW y \in Handlers PROVE AsRead(h[y])'
  <2>1. y = p
    BY DEF OneHandler
  <2>2. h'[p] = Wages!Looping(p, h[p].sum + h[p].gross)
    BY DEF Wages!SlipCommit, WagesSoloInv, WagesInv, Wages!TypeOK
  <2> QED BY <2>1, <2>2 DEF AsRead, Wages!Looping
<1> QED BY <1>7, <1>8, <1>9, <1>10, <1>11 DEF WagesSoloInv

LEMMA WagesSoloStep ==
    ASSUME OneHandler, Wages!PayrollAssumption, WagesSoloInv, [Wages!Next]_(Wages!vars)
    PROVE  WagesSoloInv'
<1>1. WagesInv'
  BY WagesStep DEF WagesSoloInv
<1>2. CASE UNCHANGED Wages!vars
  <2>1. PaidEntries' = PaidEntries /\ SheetHours' = SheetHours
    BY <1>2 DEF PaidEntries, SheetHours, Wages!vars
  <2>2. Wages!Gross(payslips)' = Wages!Gross(payslips) /\ Wages!PaidOnce'
    BY <1>2 DEF Wages!Gross, Wages!PaidOnce, Wages!vars, WagesSoloInv
  <2>3. \A p \in Handlers : AsRead(h[p])'
    BY <1>2, <2>1 DEF AsRead, Wages!vars, WagesSoloInv
  <2> QED BY <1>1, <1>2, <2>1, <2>2, <2>3 DEF Wages!vars, WagesSoloInv
<1>3. CASE Wages!Next
  BY <1>1, <1>3, SoloLoads, SoloRuns, SoloSlipLoad, SoloEntryNew, SoloEntries, SoloSlips DEF Wages!Next
<1> QED BY <1>2, <1>3

LEMMA WagesSoloShows == WagesSoloInv => Wages!PaidOnce /\ Wages!PaidAsSigned
BY WagesSizes DEF WagesSoloInv, Wages!PaidAsSigned, PaidEntries

(* One request at a time: no entry is on two payslips, and what the payslips pay is what managers
   signed for the entries that are paid, hour for hour, over crashes, errors and recalculations.
   (update_time_entry, approve_time_entries, calculate_all_payslips.) *)
THEOREM PaidAsSignedHolds ==
    ASSUME Wages!PayrollAssumption, OneHandler
    PROVE  Wages!Spec => [](Wages!PaidOnce /\ Wages!PaidAsSigned)
BY WagesSoloShows, WagesSoloStart, WagesSoloStep, PTL DEF Wages!Spec
-----------------------------------------------------------------------------
(***************************************************************************)
(* Supply.  The most that was counted and all that came in only grows, so  *)
(* the stock a handler has read is within it.  One request at a time, what *)
(* it has read is still so when it commits; the lines an order brings are  *)
(* then on hand instead, and the order that is generated for the items of  *)
(* a customer's order covers all of these.                                 *)
(***************************************************************************)
Store == INSTANCE Supply WITH Ops <- StoreOps, Orders <- Clients, POs <- Restocks,
                              MaxStock <- MaxPieces

LEMMA StoreSizes ==
    ASSUME NEW X
    PROVE  /\ Store!IsFiniteSet(X) <=> IsFiniteSet(X)
           /\ Store!Cardinality(X) = Cardinality(X)
           /\ \A f : Store!SumFunctionOnSet(f, X) = SumFunctionOnSet(f, X)
<1>1. Store!IsFiniteSet(X) <=> IsFiniteSet(X)
  BY DEF IsFiniteSet, Store!IsFiniteSet
<1>2. Store!Cardinality(X) = Cardinality(X)
  BY DEF Cardinality, IsFiniteSet, Store!Cardinality, Store!IsFiniteSet
<1>3. ASSUME NEW f PROVE Store!SumFunctionOnSet(f, X) = SumFunctionOnSet(f, X)
  BY DEF SumFunctionOnSet, FoldFunctionOnSet, MapThenFoldSet, Store!SumFunctionOnSet,
         Store!FoldFunctionOnSet, Store!MapThenFoldSet
<1> QED BY <1>1, <1>2, <1>3

StockRows == [there : BOOLEAN, on : Nat, reserved : Nat]
ItemRows == [status : {"unused"} \cup Store!ItemStatus, of : Store!Kinds,
             order : Clients \cup {"none"}]
SupplyRows == [status : {"unused"} \cup Store!POStatus, lines : [Variants -> Nat],
               related : SUBSET Clients]
Rosters == UNION {[X -> ItemRows] : X \in SUBSET Items}

StoreRequests ==
    {Store!Idle}
    \cup [op : {"count", "receive"} \cap StoreOps, id : Variants, seen : StockRows]
    \cup [op : {"edit_item"}, id : Items, seen : ItemRows]
    \cup [op : {"edit", "po_status"}, id : Restocks, seen : SupplyRows]
    \cup [op : {"book"}, id : Restocks, seen : SupplyRows, stock : [Variants -> StockRows],
          items : SUBSET Items]
    \cup [op : {"generate"}, id : Clients, items : Rosters, stock : [Variants -> StockRows]]

StoreTyped ==
    /\ stock \in [Variants -> StockRows]
    /\ item \in [Items -> ItemRows]
    /\ supply \in [Restocks -> SupplyRows]
    /\ booked \in [Variants -> Nat] /\ most \in [Variants -> Nat]
    /\ loose \subseteq Store!Kinds
    /\ h \in [Handlers -> StoreRequests]

LEMMA StoreStart == ASSUME Store!SupplyAssumption, Store!Init PROVE StoreTyped
BY DEF Store!SupplyAssumption, Store!Init, StoreTyped, Store!NoStock, Store!NoItem, Store!NoPO,
       StockRows, ItemRows, SupplyRows, StoreRequests, Store!Kinds

(* The states a handler is in by what it does. *)
LEMMA StoreHandlers ==
    ASSUME StoreTyped, NEW p \in Handlers
    PROVE  /\ h[p].op \in {"count", "receive"} =>
                h[p] \in [op : {"count", "receive"} \cap StoreOps, id : Variants, seen : StockRows]
           /\ h[p].op = "edit_item" => h[p] \in [op : {"edit_item"}, id : Items, seen : ItemRows]
           /\ h[p].op \in {"edit", "po_status"} =>
                h[p] \in [op : {"edit", "po_status"}, id : Restocks, seen : SupplyRows]
           /\ h[p].op = "book" =>
                h[p] \in [op : {"book"}, id : Restocks, seen : SupplyRows,
                          stock : [Variants -> StockRows], items : SUBSET Items]
           /\ h[p].op = "generate" =>
                h[p] \in [op : {"generate"}, id : Clients, items : Rosters, stock : [Variants -> StockRows]]
<1>1. h[p] \in StoreRequests
  BY DEF StoreTyped
<1> QED BY <1>1 DEF StoreRequests, Store!Idle

(* The row a commit leaves. *)
LEMMA StockFlushed ==
    ASSUME StoreTyped, NEW v \in Variants, NEW seen \in StockRows, NEW new \in StockRows
    PROVE  /\ Store!Saved(v, seen, new) \in StockRows
           /\ Store!Saved(v, seen, new).on = new.on \/ /\ new.on = seen.on
                                                       /\ Store!Saved(v, seen, new).on = stock[v].on
           /\ seen = stock[v] => Store!Saved(v, seen, new) = new
<1>1. stock[v] \in StockRows
  BY DEF StoreTyped
<1> QED BY <1>1 DEF Store!Saved, Store!Flushed, StockRows

LEMMA SupplyFlushed ==
    ASSUME NEW cur \in SupplyRows, NEW seen, NEW new \in SupplyRows
    PROVE  /\ Store!Flushed(cur, seen, new) \in SupplyRows
           /\ cur = seen => Store!Flushed(cur, seen, new) = new
BY DEF Store!Flushed, SupplyRows

LEMMA ItemFlushed ==
    ASSUME NEW cur \in ItemRows, NEW seen, NEW new \in ItemRows
    PROVE  /\ Store!Flushed(cur, seen, new) \in ItemRows
           /\ cur = seen => Store!Flushed(cur, seen, new) = new
BY DEF Store!Flushed, ItemRows

LEMMA MorePieces ==
    ASSUME NEW row \in StockRows, NEW n \in Nat
    PROVE  Store!More(row, n) \in StockRows /\ Store!More(row, n).on = row.on + n
<1>1. row.on + n \in Nat
  BY DEF StockRows
<1>2. PICK m : m = row.on + n
  OBVIOUS
<1>3. Store!More(row, n) = [row EXCEPT !.there = TRUE, !.on = m]
  BY <1>2 DEF Store!More, StockRows
<1> QED BY <1>1, <1>2, <1>3 DEF StockRows

LEMMA MostIs ==
    ASSUME NEW a \in Int, NEW b \in Int
    PROVE  /\ Store!Max({a, b}) \in {a, b}
           /\ Store!Max({a, b}) >= a /\ Store!Max({a, b}) >= b
<1>1. PICK m \in {a, b} : \A y \in {a, b} : m >= y
  OBVIOUS
<1>2. Store!Max({a, b}) \in {a, b} /\ \A y \in {a, b} : Store!Max({a, b}) >= y
  BY <1>1 DEF Store!Max
<1> QED BY <1>2

(* What is ordered is at least what is missing. *)
LEMMA ShortCovers ==
    ASSUME NEW items, IsFiniteSet(DOMAIN items), NEW rows \in [Variants -> StockRows], NEW v \in Variants
    PROVE  /\ Store!Short(items, rows, v) \in Nat
           /\ rows[v].on + Store!Short(items, rows, v)
                >= Cardinality({i \in DOMAIN items : items[i].of = v})
<1> DEFINE needed == Cardinality({i \in DOMAIN items : items[i].of = v})
           left == needed - (rows[v].on - rows[v].reserved)
<1>1. needed \in Nat
  BY FS_Subset, FS_CardinalityType
<1>2. rows[v].on \in Nat /\ rows[v].reserved \in Nat
  BY DEF StockRows
<1>3. Store!Short(items, rows, v) = Store!Max({0, left})
  BY StoreSizes DEF Store!Short
<1> HIDE DEF needed
<1>4. left \in Int
  BY <1>1, <1>2
<1> HIDE DEF left
<1>5. Store!Max({0, left}) \in Nat /\ Store!Max({0, left}) >= left
  BY <1>4, MostIs
<1> QED BY <1>1, <1>2, <1>3, <1>5 DEF left, needed

(* A handler reads, or ends without a commit. *)
LEMMA StoreReads ==
    ASSUME StoreTyped, NEW p \in Handlers, NEW q \in StoreRequests, h' = [h EXCEPT ![p] = q],
           UNCHANGED <<stock, item, supply, booked, most, loose>>
    PROVE  StoreTyped'
BY DEF StoreTyped

LEMMA StartTyped ==
    ASSUME StoreTyped, NEW p \in Handlers
    PROVE  /\ \A op \in {"count", "receive"} : \A v \in Variants : Store!StockLoad(p, op, v) =>
                \E q \in StoreRequests : /\ h' = [h EXCEPT ![p] = q]
                                         /\ q = [op |-> op, id |-> v, seen |-> stock[v]]
           /\ \A i \in Items : Store!ItemLoad(p, i) =>
                \E q \in StoreRequests : /\ h' = [h EXCEPT ![p] = q]
                                         /\ q = [op |-> "edit_item", id |-> i, seen |-> item[i]]
           /\ \A o \in Restocks : \A op \in {"edit", "po_status"} : Store!POLoad(p, op, o) =>
                \E q \in StoreRequests : /\ h' = [h EXCEPT ![p] = q]
                                         /\ q = [op |-> op, id |-> o, seen |-> supply[o]]
           /\ \A r \in Clients : Store!GenerateLoad(p, r) =>
                \E q \in StoreRequests :
                   /\ h' = [h EXCEPT ![p] = q]
                   /\ q = [op |-> "generate", id |-> r,
                           items |-> [i \in Store!ItemsOf(r) |-> item[i]], stock |-> stock]
           /\ Store!POBook(p) =>
                \E q \in StoreRequests :
                   /\ h' = [h EXCEPT ![p] = q]
                   /\ q.op = "book" /\ q.id = h[p].id /\ q.seen = h[p].seen /\ q.stock = stock
           /\ Store!Abort(p) => h' = [h EXCEPT ![p] = Store!Idle] /\ Store!Idle \in StoreRequests
<1>1. ASSUME NEW op \in {"count", "receive"}, NEW v \in Variants, Store!StockLoad(p, op, v)
      PROVE  \E q \in StoreRequests : /\ h' = [h EXCEPT ![p] = q]
                                      /\ q = [op |-> op, id |-> v, seen |-> stock[v]]
  <2> DEFINE q == [op |-> op, id |-> v, seen |-> stock[v]]
  <2>1. q \in StoreRequests
    BY <1>1 DEF Store!StockLoad, Store!Start, StoreTyped, StoreRequests
  <2> QED BY <1>1, <2>1 DEF Store!StockLoad, Store!Start
<1>2. ASSUME NEW i \in Items, Store!ItemLoad(p, i)
      PROVE  \E q \in StoreRequests : /\ h' = [h EXCEPT ![p] = q]
                                      /\ q = [op |-> "edit_item", id |-> i, seen |-> item[i]]
  <2> DEFINE q == [op |-> "edit_item", id |-> i, seen |-> item[i]]
  <2>1. q \in StoreRequests
    BY <1>2 DEF StoreTyped, StoreRequests
  <2> QED BY <1>2, <2>1 DEF Store!ItemLoad, Store!Start
<1>3. ASSUME NEW o \in Restocks, NEW op \in {"edit", "po_status"}, Store!POLoad(p, op, o)
      PROVE  \E q \in StoreRequests : /\ h' = [h EXCEPT ![p] = q]
                                      /\ q = [op |-> op, id |-> o, seen |-> supply[o]]
  <2> DEFINE q == [op |-> op, id |-> o, seen |-> supply[o]]
  <2>1. q \in StoreRequests
    BY <1>3 DEF StoreTyped, StoreRequests
  <2> QED BY <1>3, <2>1 DEF Store!POLoad, Store!Start
<1>4. ASSUME NEW r \in Clients, Store!GenerateLoad(p, r)
      PROVE  \E q \in StoreRequests :
                /\ h' = [h EXCEPT ![p] = q]
                /\ q = [op |-> "generate", id |-> r,
                        items |-> [i \in Store!ItemsOf(r) |-> item[i]], stock |-> stock]
  <2> DEFINE roster == [i \in Store!ItemsOf(r) |-> item[i]]
             q == [op |-> "generate", id |-> r, items |-> roster, stock |-> stock]
  <2>1. roster \in [Store!ItemsOf(r) -> ItemRows] /\ Store!ItemsOf(r) \in SUBSET Items
    BY DEF StoreTyped, Store!ItemsOf, Store!Known
  <2>2. roster \in Rosters
    BY <2>1 DEF Rosters
  <2>3. h' = [h EXCEPT ![p] = q]
    BY <1>4 DEF Store!GenerateLoad, Store!Start
  <2> HIDE DEF roster
  <2>4. q \in StoreRequests
    BY <2>2 DEF StoreTyped, StoreRequests
  <2> QED BY <2>3, <2>4 DEF roster
<1>5. ASSUME Store!POBook(p)
      PROVE  \E q \in StoreRequests :
                /\ h' = [h EXCEPT ![p] = q]
                /\ q.op = "book" /\ q.id = h[p].id /\ q.seen = h[p].seen /\ q.stock = stock
  <2> DEFINE row == h[p].seen
             came == {i \in Items : /\ item[i].status = "stock_ordered"
                                    /\ item[i].order \in row.related
                                    /\ item[i].of \in Store!Came(row)}
             q == [op |-> "book", id |-> h[p].id, seen |-> row, stock |-> stock, items |-> came]
  <2>1. h[p] \in [op : {"edit", "po_status"}, id : Restocks, seen : SupplyRows]
    BY <1>5, StoreHandlers DEF Store!POBook
  <2>2. h' = [h EXCEPT ![p] = q]
    BY <1>5 DEF Store!POBook
  <2>3. came \in SUBSET Items
    OBVIOUS
  <2> HIDE DEF came
  <2>4. q \in StoreRequests
    BY <2>1, <2>3 DEF StoreTyped, StoreRequests
  <2> QED BY <2>2, <2>4
<1>6. Store!Abort(p) => h' = [h EXCEPT ![p] = Store!Idle] /\ Store!Idle \in StoreRequests
  BY DEF Store!Abort, StoreRequests
<1> QED BY <1>1, <1>2, <1>3, <1>4, <1>5, <1>6

StoreRead(p) ==
    \/ \E v \in Variants : \E op \in {"count", "receive"} : Store!StockLoad(p, op, v)
    \/ \E i \in Items : Store!ItemLoad(p, i)
    \/ \E o \in Restocks : \E op \in {"edit", "po_status"} : Store!POLoad(p, op, o)
    \/ \E r \in Clients : Store!GenerateLoad(p, r)
    \/ Store!POBook(p) \/ Store!Abort(p)

LEMMA ReadsTyped == ASSUME StoreTyped, NEW p \in Handlers, StoreRead(p) PROVE StoreTyped'
<1>1. UNCHANGED <<stock, item, supply, booked, most, loose>>
  BY DEF StoreRead, Store!StockLoad, Store!ItemLoad, Store!POLoad, Store!GenerateLoad, Store!Start,
         Store!POBook, Store!Abort
<1>2. \E q \in StoreRequests : h' = [h EXCEPT ![p] = q]
  BY StartTyped DEF StoreRead
<1> QED BY <1>1, <1>2, StoreReads

LEMMA CountTyped ==
    ASSUME Store!SupplyAssumption, StoreTyped, NEW p \in Handlers, NEW n \in Store!Pieces,
           NEW r \in Store!Pieces, Store!Count(p, n, r)
    PROVE  /\ StoreTyped'
           /\ h[p] \in [op : {"count", "receive"} \cap StoreOps, id : Variants, seen : StockRows]
           /\ booked' = [booked EXCEPT ![h[p].id] = n] /\ loose' = loose \cup {h[p].id}
           /\ h' = [h EXCEPT ![p] = Store!Idle]
           /\ \E m \in Nat : m >= most[h[p].id] /\ m >= n /\ most' = [most EXCEPT ![h[p].id] = m]
           /\ \E row \in StockRows : /\ stock' = [stock EXCEPT ![h[p].id] = row]
                                     /\ h[p].seen = stock[h[p].id] => row.on = n
                                     /\ row.on = n \/ row.on = stock[h[p].id].on
<1>1. h[p] \in [op : {"count", "receive"} \cap StoreOps, id : Variants, seen : StockRows]
  BY StoreHandlers DEF Store!Count, Store!Finish
<1> DEFINE new == [there |-> TRUE, on |-> n, reserved |-> r]
<1>2. n \in Nat /\ r \in Nat
  BY DEF Store!SupplyAssumption, Store!Pieces
<1>3. new \in StockRows /\ new.on = n
  BY <1>2 DEF StockRows
<1>4. PICK row : row = Store!Saved(h[p].id, h[p].seen, new)
  OBVIOUS
<1>5. stock' = [stock EXCEPT ![h[p].id] = row]
  BY <1>4 DEF Store!Count
<1> HIDE DEF new
<1>6. /\ row \in StockRows /\ (h[p].seen = stock[h[p].id] => row.on = n)
      /\ row.on = n \/ row.on = stock[h[p].id].on
  BY <1>1, <1>3, <1>4, StockFlushed
<1>7. /\ booked' = [booked EXCEPT ![h[p].id] = n] /\ loose' = loose \cup {h[p].id}
      /\ h' = [h EXCEPT ![p] = Store!Idle] /\ UNCHANGED <<item, supply>>
  BY DEF Store!Count, Store!Finish
<1>8. PICK m : m = Store!Max({most[h[p].id], n})
  OBVIOUS
<1>9. most' = [most EXCEPT ![h[p].id] = m]
  BY <1>8 DEF Store!Count
<1>10. m \in Nat /\ m >= most[h[p].id] /\ m >= n
  <2>1. most[h[p].id] \in Nat
    BY <1>1 DEF StoreTyped
  <2>2. PICK a \in Int, b \in Int : a = most[h[p].id] /\ b = n
    BY <1>2, <2>1
  <2>3. m \in {a, b} /\ m >= a /\ m >= b
    BY <1>8, <2>2, MostIs
  <2> QED BY <1>2, <2>1, <2>2, <2>3
<1>11. StoreTyped'
  BY <1>1, <1>2, <1>5, <1>6, <1>7, <1>9, <1>10 DEF StoreTyped, StoreRequests, Store!Kinds
<1> QED BY <1>1, <1>5, <1>6, <1>7, <1>9, <1>10, <1>11

LEMMA ReceiveTyped ==
    ASSUME Store!SupplyAssumption, StoreTyped, NEW p \in Handlers, NEW n \in Store!Pieces, n > 0,
           Store!Receive(p, n)
    PROVE  /\ StoreTyped'
           /\ h[p] \in [op : {"count", "receive"} \cap StoreOps, id : Variants, seen : StockRows]
           /\ h[p].op = "receive" /\ n \in Nat
           /\ booked' = [booked EXCEPT ![h[p].id] = booked[h[p].id] + n]
           /\ most' = [most EXCEPT ![h[p].id] = most[h[p].id] + n]
           /\ UNCHANGED <<item, supply, loose>> /\ h' = [h EXCEPT ![p] = Store!Idle]
           /\ \E row \in StockRows : /\ stock' = [stock EXCEPT ![h[p].id] = row]
                                     /\ row.on = h[p].seen.on + n
<1>1. /\ h[p] \in [op : {"count", "receive"} \cap StoreOps, id : Variants, seen : StockRows]
      /\ h[p].op = "receive"
  BY StoreHandlers DEF Store!Receive, Store!Finish
<1>2. n \in Nat /\ booked[h[p].id] \in Nat /\ most[h[p].id] \in Nat /\ h[p].seen.on \in Nat
  BY <1>1 DEF Store!SupplyAssumption, Store!Pieces, StoreTyped, StockRows
<1> DEFINE new == Store!More(h[p].seen, n)
<1>3. new \in StockRows /\ new.on = h[p].seen.on + n
  BY <1>1, <1>2, MorePieces
<1>4. PICK row : row = Store!Saved(h[p].id, h[p].seen, new)
  OBVIOUS
<1>5. stock' = [stock EXCEPT ![h[p].id] = row]
  BY <1>4 DEF Store!Receive
<1> HIDE DEF new
<1>6. row \in StockRows /\ row.on = h[p].seen.on + n
  BY <1>1, <1>2, <1>3, <1>4, StockFlushed
<1>7. /\ booked' = [booked EXCEPT ![h[p].id] = booked[h[p].id] + n]
      /\ most' = [most EXCEPT ![h[p].id] = most[h[p].id] + n]
      /\ UNCHANGED <<item, supply, loose>> /\ h' = [h EXCEPT ![p] = Store!Idle]
  BY DEF Store!Receive, Store!Finish
<1>8. StoreTyped'
  BY <1>1, <1>2, <1>5, <1>6, <1>7 DEF StoreTyped, StoreRequests
<1> QED BY <1>1, <1>2, <1>5, <1>6, <1>7, <1>8

LEMMA AddItemsTyped ==
    ASSUME StoreTyped, NEW X \in SUBSET Items, NEW of \in [X -> Store!Kinds],
           NEW r \in Clients, Store!AddItems(of, r)
    PROVE  /\ StoreTyped' /\ UNCHANGED <<stock, supply, booked, most, loose, h>>
           /\ \A i \in Items : \/ item'[i] = item[i]
                               \/ item[i].status = "unused" /\ item'[i].status = "pending"
<1>1. /\ UNCHANGED <<stock, supply, booked, most, loose, h>>
      /\ DOMAIN of = X /\ X \cap Store!Known = {}
      /\ item' = [i \in Items |-> IF i \in X THEN [status |-> "pending", of |-> of[i], order |-> r] ELSE item[i]]
  BY DEF Store!AddItems
<1>2. ASSUME NEW i \in Items
      PROVE  /\ item'[i] \in ItemRows
             /\ \/ item'[i] = item[i]
                \/ item[i].status = "unused" /\ item'[i].status = "pending"
  <2>1. item[i] \in ItemRows /\ item'[i] = IF i \in X THEN [status |-> "pending", of |-> of[i], order |-> r] ELSE item[i]
    BY <1>1 DEF StoreTyped
  <2>2. CASE i \in X
    <3>1. i \notin Store!Known /\ of[i] \in Store!Kinds
      BY <1>1, <2>2
    <3>2. item[i].status = "unused"
      BY <3>1 DEF Store!Known
    <3>3. [status |-> "pending", of |-> of[i], order |-> r] \in ItemRows
      BY <3>1 DEF ItemRows, Store!ItemStatus
    <3> QED BY <2>1, <2>2, <3>2, <3>3
  <2>3. CASE i \notin X
    BY <2>1, <2>3
  <2> QED BY <2>2, <2>3
<1>3. item' \in [Items -> ItemRows]
  <2>1. \A i \in Items : (IF i \in X THEN [status |-> "pending", of |-> of[i], order |-> r] ELSE item[i]) \in ItemRows
    BY <1>1, <1>2
  <2> QED BY <1>1, <2>1
<1> QED BY <1>1, <1>2, <1>3 DEF StoreTyped

(* An item is written, or deleted. *)
LEMMA ItemWritten ==
    ASSUME Store!SupplyAssumption, StoreTyped, NEW p \in Handlers,
           \/ \E s \in Store!ItemStatus, k \in Store!Kinds : Store!ChangeItem(p, s, k)
           \/ Store!DeleteItem(p)
    PROVE  /\ h[p] \in [op : {"edit_item"}, id : Items, seen : ItemRows]
           /\ UNCHANGED <<stock, supply, booked, most>> /\ h' = [h EXCEPT ![p] = Store!Idle]
           /\ StoreTyped'
<1>1. /\ h[p] \in [op : {"edit_item"}, id : Items, seen : ItemRows]
      /\ UNCHANGED <<stock, supply, booked, most>> /\ h' = [h EXCEPT ![p] = Store!Idle]
  BY StoreHandlers DEF Store!ChangeItem, Store!DeleteItem, Store!Finish
<1>2. item[h[p].id] \in ItemRows
  BY <1>1 DEF StoreTyped
<1>3. /\ loose' \subseteq Store!Kinds
      /\ \E row \in ItemRows : item' = [item EXCEPT ![h[p].id] = row]
  <2>1. ASSUME NEW s \in Store!ItemStatus, NEW k \in Store!Kinds, Store!ChangeItem(p, s, k)
        PROVE  /\ loose' \subseteq Store!Kinds
               /\ \E row \in ItemRows : item' = [item EXCEPT ![h[p].id] = row]
    <3>1. PICK row : row = [h[p].seen EXCEPT !.status = s, !.of = k]
      OBVIOUS
    <3>2. row \in ItemRows
      BY <1>1, <3>1 DEF ItemRows
    <3>3. Store!Flushed(item[h[p].id], h[p].seen, row) \in ItemRows
      BY <1>2, <3>2, ItemFlushed
    <3>4. item' = [item EXCEPT ![h[p].id] = Store!Flushed(item[h[p].id], h[p].seen, row)]
      BY <2>1, <3>1 DEF Store!ChangeItem
    <3>5. loose' \subseteq Store!Kinds
      BY <2>1 DEF Store!ChangeItem, StoreTyped
    <3> QED BY <3>3, <3>4, <3>5
  <2>2. ASSUME Store!DeleteItem(p)
        PROVE  /\ loose' \subseteq Store!Kinds
               /\ \E row \in ItemRows : item' = [item EXCEPT ![h[p].id] = row]
    <3>1. Store!NoItem \in ItemRows
      BY DEF Store!NoItem, ItemRows, Store!Kinds
    <3> QED BY <2>2, <3>1 DEF Store!DeleteItem, StoreTyped
  <2> QED BY <2>1, <2>2
<1>4. StoreTyped'
  BY <1>1, <1>3 DEF StoreTyped, StoreRequests
<1> QED BY <1>1, <1>4

LEMMA CreateTyped ==
    ASSUME StoreTyped, NEW p \in Handlers, NEW o \in Restocks, NEW wanted \in Store!Lines, NEW r \in SUBSET Clients,
           Store!CreatePO(p, o, wanted, r)
    PROVE  /\ StoreTyped' /\ UNCHANGED <<stock, item, booked, most, loose, h>>
           /\ supply[o].status = "unused"
           /\ \E row \in SupplyRows : supply' = [supply EXCEPT ![o] = row]
<1> DEFINE row == [status |-> "open", lines |-> wanted, related |-> r]
<1>1. row \in SupplyRows
  BY DEF SupplyRows, Store!POStatus, Store!Lines
<1>2. /\ supply' = [supply EXCEPT ![o] = row] /\ UNCHANGED <<stock, item, booked, most, loose, h>>
      /\ supply[o].status = "unused"
  BY DEF Store!CreatePO
<1> HIDE DEF row
<1> QED BY <1>1, <1>2 DEF StoreTyped

LEMMA OrderWritten ==
    ASSUME StoreTyped, NEW p \in Handlers,
           \/ \E s \in Store!POStatus, wanted \in Store!Lines : Store!EditPO(p, s, wanted)
           \/ \E s \in Store!POStatus : Store!POSet(p, s)
    PROVE  /\ StoreTyped' /\ UNCHANGED <<stock, item, booked, most>> /\ h' = [h EXCEPT ![p] = Store!Idle]
           /\ h[p] \in [op : {"edit", "po_status"}, id : Restocks, seen : SupplyRows]
<1>1. /\ h[p] \in [op : {"edit", "po_status"}, id : Restocks, seen : SupplyRows]
      /\ UNCHANGED <<stock, item, booked, most>> /\ h' = [h EXCEPT ![p] = Store!Idle]
      /\ loose' \subseteq Store!Kinds
  BY StoreHandlers DEF Store!EditPO, Store!POSet, Store!Finish, StoreTyped, Store!Kinds
<1>2. supply[h[p].id] \in SupplyRows
  BY <1>1 DEF StoreTyped
<1>3. \E row \in SupplyRows : supply' = [supply EXCEPT ![h[p].id] = row]
  <2>1. ASSUME NEW s \in Store!POStatus, NEW wanted \in Store!Lines, Store!EditPO(p, s, wanted)
        PROVE  \E row \in SupplyRows : supply' = [supply EXCEPT ![h[p].id] = row]
    <3>1. PICK new : new = [h[p].seen EXCEPT !.status = s, !.lines = wanted]
      OBVIOUS
    <3>2. wanted \in [Variants -> Nat]
      BY DEF Store!Lines
    <3>3. new \in SupplyRows
      BY <1>1, <3>1, <3>2 DEF SupplyRows
    <3>4. supply' = [supply EXCEPT ![h[p].id] = Store!Flushed(supply[h[p].id], h[p].seen, new)]
      BY <2>1, <3>1 DEF Store!EditPO
    <3> QED BY <1>2, <3>3, <3>4, SupplyFlushed
  <2>2. ASSUME NEW s \in Store!POStatus, Store!POSet(p, s)
        PROVE  \E row \in SupplyRows : supply' = [supply EXCEPT ![h[p].id] = row]
    <3>1. [h[p].seen EXCEPT !.status = s] \in SupplyRows
      BY <1>1 DEF SupplyRows
    <3>2. supply' = [supply EXCEPT ![h[p].id] =
                        Store!Flushed(supply[h[p].id], h[p].seen, [h[p].seen EXCEPT !.status = s])]
      BY <2>2 DEF Store!POSet
    <3> QED BY <1>2, <3>1, <3>2, SupplyFlushed
  <2> QED BY <2>1, <2>2 DEF Store!POSet, Store!EditPO
<1>4. StoreTyped'
  BY <1>1, <1>3 DEF StoreTyped, StoreRequests
<1> QED BY <1>1, <1>4

(* Every line of an order that is received and whose code finds a product raises the stock the
   handler has read by its pieces. *)
LEMMA ReceivedTyped ==
    ASSUME Store!SupplyAssumption, StoreTyped, NEW p \in Handlers, Store!POReceived(p)
    PROVE  /\ StoreTyped' /\ UNCHANGED loose /\ h' = [h EXCEPT ![p] = Store!Idle]
           /\ h[p] \in [op : {"book"}, id : Restocks, seen : SupplyRows, stock : [Variants -> StockRows],
                        items : SUBSET Items]
           /\ \A v \in Store!Came(h[p].seen) :
                /\ booked'[v] = booked[v] + h[p].seen.lines[v]
                /\ most'[v] = most[v] + h[p].seen.lines[v]
                /\ stock'[v].on = h[p].stock[v].on + h[p].seen.lines[v]
           /\ \A v \in Variants \ Store!Came(h[p].seen) :
                booked'[v] = booked[v] /\ most'[v] = most[v] /\ stock'[v] = stock[v]
           /\ supply' = [supply EXCEPT ![h[p].id] =
                            Store!Flushed(supply[h[p].id], h[p].seen, [h[p].seen EXCEPT !.status = "received"])]
           /\ item' = [i \in Items |-> IF i \in h[p].items THEN [item[i] EXCEPT !.status = "stock_received"]
                                        ELSE item[i]]
<1>1. /\ h[p] \in [op : {"book"}, id : Restocks, seen : SupplyRows, stock : [Variants -> StockRows],
                   items : SUBSET Items]
      /\ UNCHANGED loose /\ h' = [h EXCEPT ![p] = Store!Idle]
  BY StoreHandlers DEF Store!POReceived, Store!Finish
<1>2. /\ supply[h[p].id] \in SupplyRows /\ h[p].seen \in SupplyRows
      /\ h[p].seen.lines \in [Variants -> Nat]
  BY <1>1 DEF StoreTyped, SupplyRows
<1>3. PICK came, saved, plus, high, row :
         /\ came = Store!Came(h[p].seen)
         /\ saved = [v \in Variants |->
                       IF v \in came
                       THEN Store!Saved(v, h[p].stock[v], Store!More(h[p].stock[v], h[p].seen.lines[v]))
                       ELSE stock[v]]
         /\ plus = [v \in Variants |-> IF v \in came THEN booked[v] + h[p].seen.lines[v] ELSE booked[v]]
         /\ high = [v \in Variants |-> IF v \in came THEN most[v] + h[p].seen.lines[v] ELSE most[v]]
         /\ row = Store!Flushed(supply[h[p].id], h[p].seen, [h[p].seen EXCEPT !.status = "received"])
  OBVIOUS
<1>4. /\ stock' = saved
      /\ booked' = plus /\ most' = high
      /\ supply' = [supply EXCEPT ![h[p].id] = row]
      /\ item' = [i \in Items |-> IF i \in h[p].items THEN [item[i] EXCEPT !.status = "stock_received"]
                                   ELSE item[i]]
  BY <1>3 DEF Store!POReceived
<1>5. row \in SupplyRows
  <2>1. [h[p].seen EXCEPT !.status = "received"] \in SupplyRows
    BY <1>2 DEF SupplyRows, Store!POStatus
  <2> QED BY <1>2, <1>3, <2>1, SupplyFlushed
<1>6. ASSUME NEW v \in Variants
      PROVE  /\ saved[v] \in StockRows
             /\ v \in came => saved[v].on = h[p].stock[v].on + h[p].seen.lines[v]
             /\ v \notin came => saved[v] = stock[v]
  <2>1. /\ stock[v] \in StockRows /\ h[p].stock[v] \in StockRows /\ h[p].seen.lines[v] \in Nat
        /\ h[p].stock[v].on \in Nat
    BY <1>1, <1>2 DEF StoreTyped, StockRows
  <2>2. CASE v \notin came
    BY <1>3, <2>1, <2>2
  <2>3. CASE v \in came
    <3>1. PICK n, new : n = h[p].seen.lines[v] /\ new = Store!More(h[p].stock[v], n)
      OBVIOUS
    <3>2. n > 0
      BY <1>3, <2>3, <3>1 DEF Store!Came
    <3>3. new \in StockRows /\ new.on = h[p].stock[v].on + n
      BY <2>1, <3>1, MorePieces
    <3>4. saved[v] = Store!Saved(v, h[p].stock[v], new)
      BY <1>3, <2>3, <3>1
    <3> QED BY <2>1, <2>3, <3>1, <3>2, <3>3, <3>4, StockFlushed
  <2> QED BY <2>2, <2>3
<1>7. item' \in [Items -> ItemRows]
  <2>1. ASSUME NEW i \in Items
        PROVE  (IF i \in h[p].items THEN [item[i] EXCEPT !.status = "stock_received"] ELSE item[i]) \in ItemRows
    BY DEF StoreTyped, ItemRows, Store!ItemStatus
  <2> QED BY <1>4, <2>1
<1>8. booked' \in [Variants -> Nat] /\ most' \in [Variants -> Nat]
  <2>1. \A v \in Variants : plus[v] \in Nat /\ high[v] \in Nat
    BY <1>2, <1>3 DEF StoreTyped
  <2> QED BY <1>3, <1>4, <2>1
<1>9. stock' \in [Variants -> StockRows]
  BY <1>3, <1>4, <1>6
<1>10. StoreTyped'
  BY <1>1, <1>4, <1>5, <1>7, <1>8, <1>9 DEF StoreTyped, StoreRequests
<1>11. came \subseteq Variants
  BY <1>2, <1>3 DEF Store!Came, Store!SupplyAssumption
<1>12. /\ \A v \in came : /\ booked'[v] = booked[v] + h[p].seen.lines[v]
                          /\ most'[v] = most[v] + h[p].seen.lines[v]
                          /\ stock'[v].on = h[p].stock[v].on + h[p].seen.lines[v]
       /\ \A v \in Variants \ came : /\ booked'[v] = booked[v] /\ most'[v] = most[v]
                                     /\ stock'[v] = stock[v]
  BY <1>3, <1>4, <1>6, <1>11
<1> QED BY <1>1, <1>3, <1>4, <1>10, <1>12

LEMMA GenerateTyped ==
    ASSUME Store!SupplyAssumption, StoreTyped, NEW p \in Handlers, NEW o \in Restocks, Store!Generate(p, o)
    PROVE  /\ StoreTyped' /\ UNCHANGED <<stock, booked, most, loose>> /\ h' = [h EXCEPT ![p] = Store!Idle]
           /\ h[p] \in [op : {"generate"}, id : Clients, items : Rosters, stock : [Variants -> StockRows]]
           /\ supply[o].status = "unused"
           /\ \E wanted \in [Variants -> Nat] :
                 /\ supply' = [supply EXCEPT ![o] = [status |-> "open", lines |-> wanted, related |-> {h[p].id}]]
                 /\ \A v \in Variants : h[p].stock[v].on + wanted[v]
                       >= Cardinality({i \in DOMAIN h[p].items : h[p].items[i].of = v})
           /\ item' = [i \in Items |->
                 IF i \in {j \in DOMAIN h[p].items : h[p].items[j].status = "pending"}
                 THEN [item[i] EXCEPT !.status = "stock_ordered"] ELSE item[i]]
<1>1. /\ h[p] \in [op : {"generate"}, id : Clients, items : Rosters, stock : [Variants -> StockRows]]
      /\ UNCHANGED <<stock, booked, most, loose>> /\ h' = [h EXCEPT ![p] = Store!Idle]
      /\ supply[o].status = "unused"
      /\ item' = [i \in Items |->
            IF i \in {j \in DOMAIN h[p].items : h[p].items[j].status = "pending"}
            THEN [item[i] EXCEPT !.status = "stock_ordered"] ELSE item[i]]
  BY StoreHandlers DEF Store!Generate, Store!Finish
<1>2. PICK wanted : wanted = [v \in Variants |-> Store!Short(h[p].items, h[p].stock, v)]
  OBVIOUS
<1>3. supply' = [supply EXCEPT ![o] = [status |-> "open", lines |-> wanted, related |-> {h[p].id}]]
  BY <1>2 DEF Store!Generate
<1>4. PICK X \in SUBSET Items : h[p].items \in [X -> ItemRows]
  BY <1>1 DEF Rosters
<1>5. IsFiniteSet(DOMAIN h[p].items)
  BY <1>4, StoreSizes, FS_Subset DEF Store!SupplyAssumption
<1>6. /\ wanted \in [Variants -> Nat]
      /\ \A v \in Variants : h[p].stock[v].on + wanted[v]
            >= Cardinality({i \in DOMAIN h[p].items : h[p].items[i].of = v})
  BY <1>1, <1>2, <1>5, ShortCovers
<1>7. item' \in [Items -> ItemRows]
  <2>1. ASSUME NEW i \in Items
        PROVE  (IF i \in {j \in DOMAIN h[p].items : h[p].items[j].status = "pending"}
                THEN [item[i] EXCEPT !.status = "stock_ordered"] ELSE item[i]) \in ItemRows
    BY DEF StoreTyped, ItemRows, Store!ItemStatus
  <2> QED BY <1>1, <2>1
<1>8. [status |-> "open", lines |-> wanted, related |-> {h[p].id}] \in SupplyRows
  BY <1>1, <1>6 DEF SupplyRows, Store!POStatus
<1>9. StoreTyped'
  BY <1>1, <1>3, <1>7, <1>8 DEF StoreTyped, StoreRequests
<1> QED BY <1>1, <1>3, <1>6, <1>9

(* What a handler may book is no more than what came in, whatever it read. *)
LessHeld ==
    /\ StoreTyped
    /\ \A v \in Variants : stock[v].on <= most[v]
    /\ \A p \in Handlers : h[p].op = "receive" => h[p].seen.on <= most[h[p].id]
    /\ \A p \in Handlers : h[p].op = "book" => \A v \in Variants : h[p].stock[v].on <= most[v]

(* More came in, and one handler moved on. *)
LEMMA MoreCame ==
    ASSUME LessHeld, StoreTyped', NEW p \in Handlers, NEW q \in StoreRequests, h' = [h EXCEPT ![p] = q],
           \A v \in Variants : most'[v] >= most[v] /\ stock'[v].on <= most'[v],
           q.op = "receive" => q.seen.on <= most'[q.id],
           q.op = "book" => \A v \in Variants : q.stock[v].on <= most'[v]
    PROVE  LessHeld'
<1> USE DEF LessHeld
<1>1. ASSUME NEW a \in Handlers
      PROVE  h'[a] = q \/ h'[a] = h[a]
  BY DEF StoreTyped
<1>2. ASSUME NEW a \in Handlers, h'[a].op = "receive" PROVE h'[a].seen.on <= most'[h'[a].id]
  <2>1. CASE h'[a] = q
    BY <1>2, <2>1
  <2>2. CASE h'[a] = h[a]
    <3>1. h[a].id \in Variants /\ h[a].seen \in StockRows
      BY <1>2, <2>2, StoreHandlers
    <3>2. most[h[a].id] \in Nat /\ most'[h[a].id] \in Nat /\ h[a].seen.on \in Nat
      BY <3>1 DEF StoreTyped, StockRows
    <3> QED BY <1>2, <2>2, <3>1, <3>2
  <2> QED BY <1>1, <2>1, <2>2
<1>3. ASSUME NEW a \in Handlers, h'[a].op = "book", NEW v \in Variants PROVE h'[a].stock[v].on <= most'[v]
  <2>1. CASE h'[a] = q
    BY <1>3, <2>1
  <2>2. CASE h'[a] = h[a]
    <3>1. h[a].stock[v] \in StockRows
      BY <1>3, <2>2, StoreHandlers
    <3>2. most[v] \in Nat /\ most'[v] \in Nat /\ h[a].stock[v].on \in Nat
      BY <3>1 DEF StoreTyped, StockRows
    <3> QED BY <1>3, <2>2, <3>2
  <2> QED BY <1>1, <2>1, <2>2
<1> QED BY <1>2, <1>3

LEMMA LessRead ==
    ASSUME LessHeld, NEW p \in Handlers, StoreRead(p)
    PROVE  LessHeld'
<1>1. StoreTyped' /\ StoreTyped
  BY ReadsTyped DEF LessHeld
<1>2. UNCHANGED <<stock, most>>
  BY DEF StoreRead, Store!StockLoad, Store!ItemLoad, Store!POLoad, Store!GenerateLoad, Store!Start,
         Store!POBook, Store!Abort
<1>3. PICK q \in StoreRequests :
         /\ h' = [h EXCEPT ![p] = q]
         /\ q.op = "receive" => \E v \in Variants : q.id = v /\ q.seen = stock[v]
         /\ q.op = "book" => q.stock = stock
  <2>1. CASE Store!Abort(p)
    <3>1. h' = [h EXCEPT ![p] = Store!Idle] /\ Store!Idle \in StoreRequests
      BY <1>1, <2>1, StartTyped
    <3> QED BY <3>1 DEF Store!Idle
  <2>2. CASE Store!POBook(p)
    <3>1. \E q \in StoreRequests : h' = [h EXCEPT ![p] = q] /\ q.op = "book" /\ q.stock = stock
      BY <1>1, <2>2, StartTyped
    <3> QED BY <3>1
  <2>3. ASSUME NEW r \in Clients, Store!GenerateLoad(p, r)
        PROVE  \E q \in StoreRequests : h' = [h EXCEPT ![p] = q] /\ q.op = "generate"
    BY <1>1, <2>3, StartTyped
  <2>4. ASSUME NEW v \in Variants, NEW op \in {"count", "receive"}, Store!StockLoad(p, op, v)
        PROVE  \E q \in StoreRequests : /\ h' = [h EXCEPT ![p] = q]
                                        /\ q = [op |-> op, id |-> v, seen |-> stock[v]]
    BY <1>1, <2>4, StartTyped
  <2>5. ASSUME NEW i \in Items, Store!ItemLoad(p, i)
        PROVE  \E q \in StoreRequests : h' = [h EXCEPT ![p] = q] /\ q.op = "edit_item"
    BY <1>1, <2>5, StartTyped
  <2>6. ASSUME NEW o \in Restocks, NEW op \in {"edit", "po_status"}, Store!POLoad(p, op, o)
        PROVE  \E q \in StoreRequests : h' = [h EXCEPT ![p] = q] /\ q.op \in {"edit", "po_status"}
    BY <1>1, <2>6, StartTyped
  <2> QED BY <2>1, <2>2, <2>3, <2>4, <2>5, <2>6 DEF StoreRead
<1>4. \A v \in Variants : most'[v] >= most[v] /\ stock'[v].on <= most'[v]
  BY <1>1, <1>2 DEF LessHeld, StoreTyped
<1>5. /\ q.op = "receive" => q.seen.on <= most'[q.id]
      /\ q.op = "book" => \A v \in Variants : q.stock[v].on <= most'[v]
  BY <1>2, <1>3 DEF LessHeld
<1> QED BY <1>1, <1>3, <1>4, <1>5, MoreCame

LEMMA LessReceive ==
    ASSUME Store!SupplyAssumption, LessHeld, NEW p \in Handlers, NEW n \in Store!Pieces, n > 0, Store!Receive(p, n)
    PROVE  LessHeld'
<1>1. /\ StoreTyped /\ StoreTyped'
      /\ h[p] \in [op : {"count", "receive"} \cap StoreOps, id : Variants, seen : StockRows]
      /\ h[p].op = "receive" /\ n \in Nat
      /\ most' = [most EXCEPT ![h[p].id] = most[h[p].id] + n]
      /\ h' = [h EXCEPT ![p] = Store!Idle]
  BY ReceiveTyped DEF LessHeld
<1>2. PICK row \in StockRows : /\ stock' = [stock EXCEPT ![h[p].id] = row]
                               /\ row.on = h[p].seen.on + n
  BY <1>1, ReceiveTyped
<1>3. h[p].seen.on <= most[h[p].id] /\ h[p].seen.on \in Nat /\ most[h[p].id] \in Nat
  BY <1>1 DEF LessHeld, StoreTyped, StockRows
<1>4. ASSUME NEW v \in Variants PROVE most'[v] >= most[v] /\ stock'[v].on <= most'[v]
  <2>1. stock[v].on \in Nat /\ most[v] \in Nat /\ stock[v].on <= most[v]
    BY <1>1 DEF StoreTyped, StockRows, LessHeld
  <2>2. CASE v = h[p].id
    <3>1. most'[v] = most[v] + n /\ stock'[v] = row
      BY <1>1, <1>2, <2>2 DEF StoreTyped
    <3> QED BY <1>1, <1>2, <1>3, <2>1, <2>2, <3>1
  <2>3. CASE v # h[p].id
    <3>1. most'[v] = most[v] /\ stock'[v] = stock[v]
      BY <1>1, <1>2, <2>3 DEF StoreTyped
    <3> QED BY <2>1, <3>1
  <2> QED BY <2>2, <2>3
<1> QED BY <1>1, <1>4, MoreCame DEF StoreRequests, Store!Idle

LEMMA LessCount ==
    ASSUME Store!SupplyAssumption, LessHeld, NEW p \in Handlers, NEW n \in Store!Pieces,
           NEW r \in Store!Pieces, Store!Count(p, n, r)
    PROVE  LessHeld'
<1>1. /\ StoreTyped /\ StoreTyped' /\ n \in Nat
      /\ h[p] \in [op : {"count", "receive"} \cap StoreOps, id : Variants, seen : StockRows]
      /\ h' = [h EXCEPT ![p] = Store!Idle]
  BY CountTyped DEF LessHeld, Store!Pieces, Store!SupplyAssumption
<1>2. PICK row \in StockRows : /\ stock' = [stock EXCEPT ![h[p].id] = row]
                               /\ row.on = n \/ row.on = stock[h[p].id].on
  BY <1>1, CountTyped
<1>3. PICK m \in Nat : m >= most[h[p].id] /\ m >= n /\ most' = [most EXCEPT ![h[p].id] = m]
  BY <1>1, CountTyped
<1>4. ASSUME NEW v \in Variants PROVE most'[v] >= most[v] /\ stock'[v].on <= most'[v]
  <2>1. stock[v].on \in Nat /\ most[v] \in Nat /\ stock[v].on <= most[v]
    BY <1>1 DEF StoreTyped, StockRows, LessHeld
  <2>2. CASE v = h[p].id
    <3>1. most'[v] = m /\ stock'[v] = row
      BY <1>1, <1>2, <1>3, <2>2 DEF StoreTyped
    <3> QED BY <1>1, <1>2, <1>3, <2>1, <2>2, <3>1
  <2>3. CASE v # h[p].id
    <3>1. most'[v] = most[v] /\ stock'[v] = stock[v]
      BY <1>1, <1>2, <1>3, <2>3 DEF StoreTyped
    <3> QED BY <2>1, <3>1
  <2> QED BY <2>2, <2>3
<1> QED BY <1>1, <1>4, MoreCame DEF StoreRequests, Store!Idle

LEMMA LessReceived ==
    ASSUME Store!SupplyAssumption, LessHeld, NEW p \in Handlers, Store!POReceived(p)
    PROVE  LessHeld'
<1>1. /\ StoreTyped /\ StoreTyped' /\ h' = [h EXCEPT ![p] = Store!Idle]
      /\ h[p] \in [op : {"book"}, id : Restocks, seen : SupplyRows, stock : [Variants -> StockRows],
                   items : SUBSET Items]
      /\ \A v \in Store!Came(h[p].seen) : /\ most'[v] = most[v] + h[p].seen.lines[v]
                                          /\ stock'[v].on = h[p].stock[v].on + h[p].seen.lines[v]
      /\ \A v \in Variants \ Store!Came(h[p].seen) : most'[v] = most[v] /\ stock'[v] = stock[v]
  BY ReceivedTyped DEF LessHeld
<1>2. ASSUME NEW v \in Variants PROVE most'[v] >= most[v] /\ stock'[v].on <= most'[v]
  <2>1. stock[v].on \in Nat /\ most[v] \in Nat /\ stock[v].on <= most[v]
    BY <1>1 DEF StoreTyped, StockRows, LessHeld
  <2>2. h[p].stock[v].on \in Nat /\ h[p].seen.lines[v] \in Nat
    BY <1>1 DEF StockRows, SupplyRows
  <2>3. h[p].stock[v].on <= most[v]
    BY <1>1 DEF LessHeld
  <2> QED BY <1>1, <2>1, <2>2, <2>3
<1> QED BY <1>1, <1>2, MoreCame DEF StoreRequests, Store!Idle

(* Neither the stock nor the most there was changes, and at most one handler ends. *)
LEMMA LessKept ==
    ASSUME LessHeld, StoreTyped', UNCHANGED <<stock, most>>, NEW p \in Handlers,
           h' = [h EXCEPT ![p] = Store!Idle] \/ UNCHANGED h
    PROVE  LessHeld'
<1>1. CASE h' = [h EXCEPT ![p] = Store!Idle]
  <2>1. \A v \in Variants : most'[v] >= most[v] /\ stock'[v].on <= most'[v]
    BY DEF LessHeld, StoreTyped
  <2> QED BY <1>1, <2>1, MoreCame DEF StoreRequests, Store!Idle
<1>2. CASE UNCHANGED h
  BY <1>2 DEF LessHeld, StoreTyped
<1> QED BY <1>1, <1>2

(* A step of the store, as the kind of step the proofs tell apart. *)
StoreSteps ==
    \/ \E p \in Handlers : StoreRead(p)
    \/ \E p \in Handlers, n \in Store!Pieces, r \in Store!Pieces : Store!Count(p, n, r)
    \/ \E p \in Handlers, n \in Store!Pieces : n > 0 /\ Store!Receive(p, n)
    \/ \E X \in SUBSET Items : \E of \in [X -> Store!Kinds], r \in Clients : Store!AddItems(of, r)
    \/ \E p \in Handlers :
         \/ \E s \in Store!ItemStatus, k \in Store!Kinds : Store!ChangeItem(p, s, k)
         \/ Store!DeleteItem(p)
    \/ \E p \in Handlers, o \in Restocks, wanted \in Store!Lines, r \in SUBSET Clients :
         Store!CreatePO(p, o, wanted, r)
    \/ \E p \in Handlers :
         \/ \E s \in Store!POStatus, wanted \in Store!Lines : Store!EditPO(p, s, wanted)
         \/ \E s \in Store!POStatus : Store!POSet(p, s)
    \/ \E p \in Handlers : Store!POReceived(p)
    \/ \E p \in Handlers, o \in Restocks : Store!Generate(p, o)

LEMMA StoreNext == Store!Next => StoreSteps
<1> SUFFICES ASSUME Store!Next PROVE StoreSteps
  OBVIOUS
<1>1. CASE \E s \in SUBSET Items :
             \E of \in [s -> Store!Kinds], r \in Clients : s # {} /\ Store!AddItems(of, r)
  BY <1>1 DEF StoreSteps
<1>2. ASSUME NEW p \in Handlers, NEW v \in Variants, NEW op \in {"count", "receive"},
             Store!StockLoad(p, op, v)
      PROVE  StoreSteps
  BY <1>2 DEF StoreSteps, StoreRead
<1>3. ASSUME NEW p \in Handlers, NEW n \in Store!Pieces,
             (\E r \in Store!Pieces : Store!Count(p, n, r)) \/ (n > 0 /\ Store!Receive(p, n))
      PROVE  StoreSteps
  BY <1>3 DEF StoreSteps
<1>4. ASSUME NEW p \in Handlers,
             \/ \E i \in Items : Store!ItemLoad(p, i)
             \/ \E s \in Store!ItemStatus, k \in Store!Kinds : Store!ChangeItem(p, s, k)
             \/ Store!DeleteItem(p)
             \/ Store!POBook(p) \/ Store!POReceived(p)
             \/ \E r \in Clients : Store!GenerateLoad(p, r)
             \/ Store!Abort(p)
      PROVE  StoreSteps
  BY <1>4 DEF StoreSteps, StoreRead
<1>5. ASSUME NEW p \in Handlers, NEW o \in Restocks,
             \/ \E wanted \in Store!Lines, r \in SUBSET Clients : Store!CreatePO(p, o, wanted, r)
             \/ \E op \in {"edit", "po_status"} : Store!POLoad(p, op, o)
             \/ Store!Generate(p, o)
      PROVE  StoreSteps
  BY <1>5 DEF StoreSteps, StoreRead
<1>6. ASSUME NEW p \in Handlers, NEW s \in Store!POStatus,
             Store!POSet(p, s) \/ \E wanted \in Store!Lines : Store!EditPO(p, s, wanted)
      PROVE  StoreSteps
  BY <1>6 DEF StoreSteps
<1> QED BY <1>1, <1>2, <1>3, <1>4, <1>5, <1>6 DEF Store!Next

LEMMA LessStep ==
    ASSUME Store!SupplyAssumption, LessHeld, [Store!Next]_Store!vars
    PROVE  LessHeld'
<1>0. StoreTyped
  BY DEF LessHeld
<1>1. CASE UNCHANGED Store!vars
  BY <1>1 DEF Store!vars, LessHeld, StoreTyped
<1>2. ASSUME NEW p \in Handlers, StoreRead(p) PROVE LessHeld'
  BY <1>2, LessRead
<1>3. ASSUME NEW p \in Handlers, NEW n \in Store!Pieces, NEW r \in Store!Pieces, Store!Count(p, n, r)
      PROVE  LessHeld'
  BY <1>3, LessCount
<1>4. ASSUME NEW p \in Handlers, NEW n \in Store!Pieces, n > 0, Store!Receive(p, n) PROVE LessHeld'
  BY <1>4, LessReceive
<1>5. ASSUME NEW X \in SUBSET Items, NEW of \in [X -> Store!Kinds], NEW r \in Clients,
             Store!AddItems(of, r)
      PROVE  LessHeld'
  <2>1. StoreTyped' /\ UNCHANGED <<stock, most, h>>
    BY <1>0, <1>5, AddItemsTyped
  <2> QED BY <2>1 DEF LessHeld, StoreTyped
<1>6. ASSUME NEW p \in Handlers,
             \/ \E s \in Store!ItemStatus, k \in Store!Kinds : Store!ChangeItem(p, s, k)
             \/ Store!DeleteItem(p)
      PROVE  LessHeld'
  BY <1>0, <1>6, ItemWritten, LessKept
<1>7. ASSUME NEW p \in Handlers, NEW o \in Restocks, NEW wanted \in Store!Lines, NEW r \in SUBSET Clients,
             Store!CreatePO(p, o, wanted, r)
      PROVE  LessHeld'
  BY <1>0, <1>7, CreateTyped, LessKept
<1>8. ASSUME NEW p \in Handlers,
             \/ \E s \in Store!POStatus, wanted \in Store!Lines : Store!EditPO(p, s, wanted)
             \/ \E s \in Store!POStatus : Store!POSet(p, s)
      PROVE  LessHeld'
  BY <1>0, <1>8, OrderWritten, LessKept
<1>9. ASSUME NEW p \in Handlers, Store!POReceived(p) PROVE LessHeld'
  BY <1>9, LessReceived
<1>10. ASSUME NEW p \in Handlers, NEW o \in Restocks, Store!Generate(p, o) PROVE LessHeld'
  BY <1>0, <1>10, GenerateTyped, LessKept
<1>11. CASE StoreSteps
  <2>1. (\E p \in Handlers : StoreRead(p)) => LessHeld'
    BY <1>2
  <2>2. (\E p \in Handlers, n \in Store!Pieces, r \in Store!Pieces : Store!Count(p, n, r)) => LessHeld'
    BY <1>3
  <2>3. (\E p \in Handlers, n \in Store!Pieces : n > 0 /\ Store!Receive(p, n)) => LessHeld'
    BY <1>4
  <2>4. (\E X \in SUBSET Items : \E of \in [X -> Store!Kinds], r \in Clients : Store!AddItems(of, r))
           => LessHeld'
    BY <1>5
  <2>5. (\E p \in Handlers :
           \/ \E s \in Store!ItemStatus, k \in Store!Kinds : Store!ChangeItem(p, s, k)
           \/ Store!DeleteItem(p)) => LessHeld'
    BY <1>6
  <2>6. (\E p \in Handlers, o \in Restocks, wanted \in Store!Lines, r \in SUBSET Clients :
           Store!CreatePO(p, o, wanted, r)) => LessHeld'
    BY <1>7
  <2>7. (\E p \in Handlers :
           \/ \E s \in Store!POStatus, wanted \in Store!Lines : Store!EditPO(p, s, wanted)
           \/ \E s \in Store!POStatus : Store!POSet(p, s)) => LessHeld'
    BY <1>8
  <2>8. (\E p \in Handlers : Store!POReceived(p)) => LessHeld'
    BY <1>9
  <2>9. (\E p \in Handlers, o \in Restocks : Store!Generate(p, o)) => LessHeld'
    BY <1>10
  <2> QED BY <1>11, <2>1, <2>2, <2>3, <2>4, <2>5, <2>6, <2>7, <2>8, <2>9 DEF StoreSteps
<1> QED BY <1>1, <1>11, StoreNext

LEMMA LessBegins == ASSUME Store!SupplyAssumption, Store!Init PROVE LessHeld
<1>1. StoreTyped
  BY StoreStart
<1> QED BY <1>1 DEF Store!Init, LessHeld, Store!NoStock, Store!Idle

LEMMA LessShows == LessHeld => Store!TypeOK /\ Store!NeverOverstocked
BY DEF LessHeld, StoreTyped, Store!TypeOK, Store!NeverOverstocked, StockRows, ItemRows, SupplyRows

(* However handlers interleave, counts included, nothing is on hand beyond the most that was
   counted and all that came in, and every column holds what it may hold.
   (bulk_update_stock, receive_stock, update_po_status.) *)
THEOREM NeverOverstockedHolds ==
    ASSUME Store!SupplyAssumption
    PROVE  Store!Spec => [](Store!TypeOK /\ Store!NeverOverstocked)
BY LessShows, LessBegins, LessStep, PTL DEF Store!Spec
-----------------------------------------------------------------------------
(* What the open purchase orders bring of a variant, and the items of an order that wait for it. *)
Ordered(v) == [o \in Restocks |-> IF supply[o].status = "open" THEN supply[o].lines[v] ELSE 0]
Waiting(v, r) == {i \in Items : item[i].status = "stock_ordered" /\ item[i].of = v
                                /\ item[i].order = r}
AllCovered == \A v \in Coded \ loose, r \in Clients :
              stock[v].on + SumFunctionOnSet(Ordered(v), Restocks) >= Cardinality(Waiting(v, r))

LEMMA CoveredIs == Store!WaitingIsCovered <=> AllCovered
<1>1. ASSUME NEW v \in Coded, NEW r \in Clients
      PROVE  /\ Store!SumFunctionOnSet(Ordered(v), Restocks) = SumFunctionOnSet(Ordered(v), Restocks)
             /\ Store!Cardinality(Waiting(v, r)) = Cardinality(Waiting(v, r))
  BY StoreSizes
<1>2. Store!WaitingIsCovered <=>
         \A v \in Coded \ loose, r \in Clients :
            stock[v].on + Store!SumFunctionOnSet(Ordered(v), Restocks) >= Store!Cardinality(Waiting(v, r))
  BY DEF Store!WaitingIsCovered, Ordered, Waiting
<1> QED BY <1>1, <1>2 DEF AllCovered

LEMMA CodedIs == Store!SupplyAssumption => Coded \subseteq Variants
BY DEF Store!SupplyAssumption

LEMMA OrderedTyped ==
    ASSUME Store!SupplyAssumption, StoreTyped, NEW v \in Variants, NEW r
    PROVE  /\ \A o \in Restocks : Ordered(v)[o] \in Nat
           /\ SumFunctionOnSet(Ordered(v), Restocks) \in Nat
           /\ IsFiniteSet(Waiting(v, r)) /\ Cardinality(Waiting(v, r)) \in Nat
           /\ IsFiniteSet(Restocks) /\ stock[v].on \in Nat
<1>1. IsFiniteSet(Restocks) /\ IsFiniteSet(Items)
  BY StoreSizes DEF Store!SupplyAssumption
<1>2. ASSUME NEW o \in Restocks PROVE Ordered(v)[o] \in Nat
  <2>1. supply[o] \in SupplyRows
    BY DEF StoreTyped
  <2> QED BY <2>1 DEF Ordered, SupplyRows
<1>3. SumFunctionOnSet(Ordered(v), Restocks) \in Nat
  BY <1>1, <1>2, SumNat
<1>4. Waiting(v, r) \subseteq Items
  BY DEF Waiting
<1>5. IsFiniteSet(Waiting(v, r)) /\ Cardinality(Waiting(v, r)) \in Nat
  BY <1>1, <1>4, FS_Subset, FS_CardinalityType
<1>6. stock[v].on \in Nat
  BY DEF StoreTyped, StockRows
<1> QED BY <1>1, <1>2, <1>3, <1>5, <1>6

(* Fewer items wait, and nothing is taken off the stock or the open orders. *)
LEMMA StillCovered ==
    ASSUME Store!SupplyAssumption, StoreTyped, StoreTyped', AllCovered, loose \subseteq loose',
           \A v \in Coded \ loose' : stock'[v].on >= stock[v].on,
           \A v \in Coded \ loose', r \in Clients : Waiting(v, r)' \subseteq Waiting(v, r),
           UNCHANGED supply
    PROVE  AllCovered'
<1> SUFFICES ASSUME NEW v \in Variants \ loose', v \in Coded, NEW r \in Clients
             PROVE  (stock[v].on + SumFunctionOnSet(Ordered(v), Restocks) >= Cardinality(Waiting(v, r)))'
  BY DEF AllCovered, Store!SupplyAssumption
<1>1. Ordered(v)' = Ordered(v)
  BY DEF Ordered
<1>2. PICK sum, few, many : /\ sum = SumFunctionOnSet(Ordered(v), Restocks)
                            /\ few = Waiting(v, r)' /\ many = Waiting(v, r)
  OBVIOUS
<1>3. /\ sum \in Nat /\ IsFiniteSet(many) /\ Cardinality(many) \in Nat
      /\ stock[v].on \in Nat
  BY <1>2, OrderedTyped
<1>4. stock'[v].on \in Nat
  BY DEF StoreTyped, StockRows
<1>5. Cardinality(few) <= Cardinality(many) /\ Cardinality(few) \in Nat
  BY <1>2, <1>3, FS_Subset, FS_CardinalityType
<1>6. stock[v].on + sum >= Cardinality(many)
  BY <1>2 DEF AllCovered
<1>7. stock'[v].on + sum >= Cardinality(few)
  BY <1>3, <1>4, <1>5, <1>6
<1> QED BY <1>1, <1>2, <1>7

(* One order is written, and no more items wait. *)
LEMMA OrderCovers ==
    ASSUME Store!SupplyAssumption, StoreTyped, StoreTyped', AllCovered, loose \subseteq loose',
           NEW o \in Restocks, \A a \in Restocks \ {o} : supply'[a] = supply[a],
           \A v \in Coded \ loose', r \in Clients :
              /\ Waiting(v, r)' \subseteq Waiting(v, r)
              /\ stock'[v].on + Ordered(v)'[o] >= stock[v].on + Ordered(v)[o]
    PROVE  AllCovered'
<1> SUFFICES ASSUME NEW v \in Variants \ loose', v \in Coded, NEW r \in Clients
             PROVE  (stock[v].on + SumFunctionOnSet(Ordered(v), Restocks) >= Cardinality(Waiting(v, r)))'
  BY DEF AllCovered, Store!SupplyAssumption
<1>1. \A a \in Restocks \ {o} : Ordered(v)'[a] = Ordered(v)[a]
  BY DEF Ordered
<1>2. PICK f, g, few, many : /\ f = Ordered(v) /\ g = Ordered(v)'
                             /\ few = Waiting(v, r)' /\ many = Waiting(v, r)
  OBVIOUS
<1>3. /\ \A a \in Restocks : f[a] \in Nat
      /\ SumFunctionOnSet(f, Restocks) \in Nat /\ IsFiniteSet(many) /\ Cardinality(many) \in Nat
      /\ IsFiniteSet(Restocks) /\ stock[v].on \in Nat
  BY <1>2, OrderedTyped
<1>4. \A a \in Restocks : g[a] \in Nat
  <2> SUFFICES ASSUME NEW a \in Restocks PROVE Ordered(v)'[a] \in Nat
    BY <1>2
  <2>1. supply'[a] \in SupplyRows
    BY DEF StoreTyped
  <2> QED BY <2>1 DEF Ordered, SupplyRows
<1>5. stock'[v].on \in Nat
  BY DEF StoreTyped, StockRows
<1>6. SumFunctionOnSet(g, Restocks) = (SumFunctionOnSet(f, Restocks) - f[o]) + g[o]
  BY <1>1, <1>2, <1>3, <1>4, SumChange
<1>7. Cardinality(few) <= Cardinality(many) /\ Cardinality(few) \in Nat
  BY <1>2, <1>3, FS_Subset, FS_CardinalityType
<1>8. /\ stock[v].on + SumFunctionOnSet(f, Restocks) >= Cardinality(many)
      /\ stock'[v].on + g[o] >= stock[v].on + f[o]
  BY <1>2 DEF AllCovered
<1>9. stock'[v].on + SumFunctionOnSet(g, Restocks) >= Cardinality(few)
  BY <1>3, <1>4, <1>5, <1>6, <1>7, <1>8
<1> QED BY <1>2, <1>9

(* What the only handler has read is still so: items are added at rows that were unused. *)
StoreAsRead(p) ==
    /\ h[p].op \in {"count", "receive"} => h[p].seen = stock[h[p].id]
    /\ h[p].op = "edit_item" => h[p].seen = item[h[p].id] /\ item[h[p].id].status # "unused"
    /\ h[p].op \in {"edit", "po_status", "book"} =>
         h[p].seen = supply[h[p].id] /\ supply[h[p].id].status # "unused"
    /\ h[p].op = "book" => h[p].stock = stock
    /\ h[p].op = "generate" =>
         /\ h[p].stock = stock
         /\ DOMAIN h[p].items \subseteq Store!Known
         /\ \A i \in DOMAIN h[p].items : h[p].items[i] = item[i] /\ item[i].order = h[p].id
         /\ \A i \in Items : item[i].status = "stock_ordered" /\ item[i].order = h[p].id
                            => i \in DOMAIN h[p].items

OneStore == StoreTyped /\ Store!StockIsBooked /\ AllCovered /\ \A p \in Handlers : StoreAsRead(p)

(* The only handler ends. *)
LEMMA StoreEnds ==
    ASSUME OneHandler, StoreTyped, NEW p \in Handlers, h' = [h EXCEPT ![p] = Store!Idle]
    PROVE  \A q \in Handlers : StoreAsRead(q)'
<1>1. \A q \in Handlers : h'[q] = Store!Idle
  BY DEF OneHandler, StoreTyped
<1> QED BY <1>1 DEF StoreAsRead, Store!Idle

LEMMA OneReads ==
    ASSUME Store!SupplyAssumption, OneHandler, OneStore, NEW p \in Handlers, StoreRead(p)
    PROVE  OneStore'
<1>1. StoreTyped /\ StoreTyped'
  BY ReadsTyped DEF OneStore
<1>2. UNCHANGED <<stock, item, supply, booked, most, loose>>
  BY DEF StoreRead, Store!StockLoad, Store!ItemLoad, Store!POLoad, Store!GenerateLoad, Store!Start,
         Store!POBook, Store!Abort
<1>3. Store!StockIsBooked' /\ AllCovered'
  BY <1>2 DEF OneStore, Store!StockIsBooked, AllCovered, Ordered, Waiting
<1>4. ASSUME NEW q \in StoreRequests, h' = [h EXCEPT ![p] = q],
             q.op \in {"count", "receive"} => q.seen = stock[q.id],
             q.op = "edit_item" => q.seen = item[q.id] /\ item[q.id].status # "unused",
             q.op \in {"edit", "po_status", "book"} =>
                q.seen = supply[q.id] /\ supply[q.id].status # "unused",
             q.op = "book" => q.stock = stock,
             q.op = "generate" =>
                /\ q.stock = stock
                /\ DOMAIN q.items \subseteq Store!Known
                /\ \A i \in DOMAIN q.items : q.items[i] = item[i] /\ item[i].order = q.id
                /\ \A i \in Items : item[i].status = "stock_ordered" /\ item[i].order = q.id
                                   => i \in DOMAIN q.items
      PROVE  \A a \in Handlers : StoreAsRead(a)'
  <2>1. \A a \in Handlers : h'[a] = q
    BY <1>1, <1>4 DEF OneHandler, StoreTyped
  <2>2. Store!Known' = Store!Known
    BY <1>2 DEF Store!Known
  <2> QED BY <1>2, <1>4, <2>1, <2>2 DEF StoreAsRead
<1>5. \A a \in Handlers : StoreAsRead(a)'
  <2>1. CASE Store!Abort(p)
    BY <1>1, <2>1, StartTyped, StoreEnds
  <2>2. CASE Store!POBook(p)
    <3>1. PICK q \in StoreRequests : /\ h' = [h EXCEPT ![p] = q]
                                     /\ q.op = "book" /\ q.id = h[p].id /\ q.seen = h[p].seen
                                     /\ q.stock = stock
      BY <1>1, <2>2, StartTyped
    <3>2. h[p].seen = supply[h[p].id] /\ supply[h[p].id].status # "unused"
      BY <2>2 DEF Store!POBook, OneStore, StoreAsRead
    <3> QED BY <1>4, <3>1, <3>2
  <2>3. ASSUME NEW r \in Clients, Store!GenerateLoad(p, r)
        PROVE  \A a \in Handlers : StoreAsRead(a)'
    <3>1. PICK q \in StoreRequests :
             /\ h' = [h EXCEPT ![p] = q]
             /\ q = [op |-> "generate", id |-> r,
                     items |-> [i \in Store!ItemsOf(r) |-> item[i]], stock |-> stock]
      BY <1>1, <2>3, StartTyped
    <3>2. /\ q.op = "generate" /\ q.id = r /\ q.stock = stock /\ DOMAIN q.items = Store!ItemsOf(r)
          /\ \A i \in Store!ItemsOf(r) : q.items[i] = item[i] /\ item[i].order = r
      BY <3>1 DEF Store!ItemsOf
    <3>3. /\ Store!ItemsOf(r) \subseteq Store!Known
          /\ \A i \in Items : item[i].status = "stock_ordered" /\ item[i].order = r
                             => i \in Store!ItemsOf(r)
      BY DEF Store!Known, Store!ItemsOf
    <3> QED BY <1>4, <3>1, <3>2, <3>3
  <2>4. ASSUME NEW v \in Variants, NEW op \in {"count", "receive"}, Store!StockLoad(p, op, v)
        PROVE  \A a \in Handlers : StoreAsRead(a)'
    <3>1. PICK q \in StoreRequests : /\ h' = [h EXCEPT ![p] = q]
                                     /\ q = [op |-> op, id |-> v, seen |-> stock[v]]
      BY <1>1, <2>4, StartTyped
    <3>2. q.op \in {"count", "receive"} /\ q.seen = stock[q.id]
      BY <3>1
    <3> QED BY <1>4, <3>1, <3>2
  <2>5. ASSUME NEW i \in Items, Store!ItemLoad(p, i)
        PROVE  \A a \in Handlers : StoreAsRead(a)'
    <3>1. PICK q \in StoreRequests : /\ h' = [h EXCEPT ![p] = q]
                                     /\ q = [op |-> "edit_item", id |-> i, seen |-> item[i]]
      BY <1>1, <2>5, StartTyped
    <3>2. item[i].status # "unused"
      BY <2>5 DEF Store!ItemLoad, Store!Known
    <3>3. q.op = "edit_item" /\ q.seen = item[q.id] /\ item[q.id].status # "unused"
      BY <3>1, <3>2
    <3> QED BY <1>4, <3>1, <3>3
  <2>6. ASSUME NEW o \in Restocks, NEW op \in {"edit", "po_status"}, Store!POLoad(p, op, o)
        PROVE  \A a \in Handlers : StoreAsRead(a)'
    <3>1. PICK q \in StoreRequests : /\ h' = [h EXCEPT ![p] = q]
                                     /\ q = [op |-> op, id |-> o, seen |-> supply[o]]
      BY <1>1, <2>6, StartTyped
    <3>2. supply[o].status # "unused"
      BY <2>6 DEF Store!POLoad
    <3>3. q.op \in {"edit", "po_status"} /\ q.seen = supply[q.id] /\ supply[q.id].status # "unused"
      BY <3>1, <3>2
    <3> QED BY <1>4, <3>1, <3>3
  <2> QED BY <2>1, <2>2, <2>3, <2>4, <2>5, <2>6 DEF StoreRead
<1> QED BY <1>1, <1>3, <1>5 DEF OneStore

LEMMA OneCounts ==
    ASSUME Store!SupplyAssumption, OneHandler, OneStore, NEW p \in Handlers, NEW n \in Store!Pieces,
           NEW r \in Store!Pieces, Store!Count(p, n, r)
    PROVE  OneStore'
<1>1. /\ StoreTyped /\ StoreTyped' /\ h[p].seen = stock[h[p].id] /\ h[p].id \in Variants
      /\ booked' = [booked EXCEPT ![h[p].id] = n] /\ loose' = loose \cup {h[p].id}
  BY CountTyped DEF OneStore, StoreAsRead, Store!Count, Store!Finish
<1>2. PICK row \in StockRows : stock' = [stock EXCEPT ![h[p].id] = row] /\ row.on = n
  BY <1>1, CountTyped
<1>3. UNCHANGED <<item, supply>> /\ h' = [h EXCEPT ![p] = Store!Idle]
  BY DEF Store!Count, Store!Finish
<1>4. Store!StockIsBooked'
  BY <1>1, <1>2 DEF OneStore, StoreTyped, Store!StockIsBooked
<1>5. ASSUME NEW v \in Variants \ loose' PROVE stock'[v].on >= stock[v].on
  <2>1. stock'[v] = stock[v] /\ stock[v].on \in Nat
    BY <1>1, <1>2 DEF StoreTyped, StockRows
  <2> QED BY <2>1
<1>6. \A v \in Variants, r1 \in Clients : Waiting(v, r1)' \subseteq Waiting(v, r1)
  BY <1>3 DEF Waiting
<1>7. AllCovered'
  BY CodedIs, <1>1, <1>3, <1>5, <1>6, StillCovered DEF OneStore
<1> QED BY <1>1, <1>3, <1>4, <1>7, StoreEnds DEF OneStore

LEMMA OneReceives ==
    ASSUME Store!SupplyAssumption, OneHandler, OneStore, NEW p \in Handlers, NEW n \in Store!Pieces,
           n > 0, Store!Receive(p, n)
    PROVE  OneStore'
<1>1. /\ StoreTyped /\ StoreTyped' /\ h[p].op = "receive" /\ n \in Nat /\ h[p].id \in Variants
      /\ booked' = [booked EXCEPT ![h[p].id] = booked[h[p].id] + n]
      /\ UNCHANGED <<item, supply, loose>> /\ h' = [h EXCEPT ![p] = Store!Idle]
  BY ReceiveTyped DEF OneStore
<1>2. h[p].seen = stock[h[p].id]
  BY <1>1 DEF OneStore, StoreAsRead
<1>3. PICK row \in StockRows : /\ stock' = [stock EXCEPT ![h[p].id] = row]
                               /\ row.on = stock[h[p].id].on + n
  BY <1>1, <1>2, ReceiveTyped
<1>4. ASSUME NEW v \in Variants
      PROVE  stock'[v].on = booked'[v] /\ stock'[v].on >= stock[v].on
  <2>1. stock[v].on = booked[v] /\ stock[v].on \in Nat
    BY <1>1 DEF OneStore, Store!StockIsBooked, StoreTyped, StockRows
  <2>2. CASE v = h[p].id
    <3>1. stock'[v] = row /\ booked'[v] = booked[v] + n
      BY <1>1, <1>3, <2>2 DEF StoreTyped
    <3> QED BY <1>1, <1>3, <2>1, <2>2, <3>1
  <2>3. CASE v # h[p].id
    <3>1. stock'[v] = stock[v] /\ booked'[v] = booked[v]
      BY <1>1, <1>3, <2>3 DEF StoreTyped
    <3> QED BY <2>1, <3>1
  <2> QED BY <2>2, <2>3
<1>5. AllCovered'
  <2>1. \A v \in Variants, r \in Clients : Waiting(v, r)' \subseteq Waiting(v, r)
    BY <1>1 DEF Waiting
  <2> QED BY CodedIs, <1>1, <1>4, <2>1, StillCovered DEF OneStore
<1> QED BY <1>1, <1>4, <1>5, StoreEnds DEF OneStore, Store!StockIsBooked

LEMMA OneAddsItems ==
    ASSUME Store!SupplyAssumption, OneHandler, OneStore, NEW X \in SUBSET Items,
           NEW of \in [X -> Store!Kinds], NEW r \in Clients, Store!AddItems(of, r)
    PROVE  OneStore'
<1>1. /\ StoreTyped /\ StoreTyped' /\ UNCHANGED <<stock, supply, booked, most, loose, h>>
      /\ \A i \in Items : \/ item'[i] = item[i]
                          \/ item[i].status = "unused" /\ item'[i].status = "pending"
  BY AddItemsTyped DEF OneStore
<1>2. \A v \in Variants, s \in Clients : Waiting(v, s)' \subseteq Waiting(v, s)
  BY <1>1 DEF Waiting
<1>3. \A v \in Variants : stock'[v].on >= stock[v].on
  BY <1>1 DEF StoreTyped, StockRows
<1>4. AllCovered'
  BY CodedIs, <1>1, <1>2, <1>3, StillCovered DEF OneStore
<1>5. ASSUME NEW q \in Handlers
      PROVE  StoreAsRead(q)'
  <2>1. StoreAsRead(q) /\ h'[q] = h[q]
    BY <1>1 DEF OneStore
  <2>2. h[q].op = "edit_item" => h[q].seen = item'[h[q].id] /\ item'[h[q].id].status # "unused"
    BY <1>1, <2>1, StoreHandlers DEF StoreAsRead
  <2>3. /\ Store!Known \subseteq Store!Known'
        /\ \A i \in Store!Known : item'[i] = item[i]
        /\ \A i \in Items : item'[i].status = "stock_ordered" => item'[i] = item[i]
    BY <1>1 DEF Store!Known
  <2>4. h[q].op = "generate" =>
           /\ DOMAIN h[q].items \subseteq Store!Known'
           /\ \A i \in DOMAIN h[q].items : h[q].items[i] = item'[i] /\ item'[i].order = h[q].id
           /\ \A i \in Items : item'[i].status = "stock_ordered" /\ item'[i].order = h[q].id
                              => i \in DOMAIN h[q].items
    BY <2>1, <2>3 DEF StoreAsRead
  <2> QED BY <1>1, <2>1, <2>2, <2>4 DEF StoreAsRead
<1> QED BY <1>1, <1>4, <1>5 DEF OneStore, Store!StockIsBooked

(* What is set by hand is loose; otherwise no more items wait. *)
LEMMA OneWritesItem ==
    ASSUME Store!SupplyAssumption, OneHandler, OneStore, NEW p \in Handlers,
           \/ \E s \in Store!ItemStatus, k \in Store!Kinds : Store!ChangeItem(p, s, k)
           \/ Store!DeleteItem(p)
    PROVE  OneStore'
<1>1. /\ StoreTyped /\ StoreTyped' /\ h[p] \in [op : {"edit_item"}, id : Items, seen : ItemRows]
      /\ UNCHANGED <<stock, supply, booked, most>> /\ h' = [h EXCEPT ![p] = Store!Idle]
  BY ItemWritten DEF OneStore
<1>2. PICK i : i = h[p].id
  OBVIOUS
<1>3. i \in Items /\ item[i] \in ItemRows /\ h[p].seen = item[i]
  BY <1>1, <1>2 DEF OneStore, StoreAsRead, StoreTyped
<1>4. /\ loose \subseteq loose'
      /\ \A v \in Variants \ loose', r \in Clients : Waiting(v, r)' \subseteq Waiting(v, r)
  <2>1. ASSUME NEW s \in Store!ItemStatus, NEW k \in Store!Kinds, Store!ChangeItem(p, s, k)
        PROVE  /\ loose \subseteq loose'
               /\ \A v \in Variants \ loose', r \in Clients : Waiting(v, r)' \subseteq Waiting(v, r)
    <3>1. PICK row : row = [h[p].seen EXCEPT !.status = s, !.of = k]
      OBVIOUS
    <3>2. row \in ItemRows /\ row.status = s /\ row.of = k
      BY <1>1, <3>1 DEF ItemRows
    <3>3. /\ item' = [item EXCEPT ![i] = Store!Flushed(item[i], h[p].seen, row)]
          /\ loose' = IF s = "stock_ordered" THEN loose \cup {k} ELSE loose
      BY <1>2, <2>1, <3>1 DEF Store!ChangeItem
    <3>4. item' = [item EXCEPT ![i] = row]
      BY <1>3, <3>2, <3>3, ItemFlushed
    <3> QED BY <1>1, <1>3, <3>2, <3>3, <3>4 DEF Waiting, StoreTyped
  <2>2. ASSUME Store!DeleteItem(p)
        PROVE  /\ loose \subseteq loose'
               /\ \A v \in Variants \ loose', r \in Clients : Waiting(v, r)' \subseteq Waiting(v, r)
    <3>1. item' = [item EXCEPT ![i] = Store!NoItem] /\ loose' = loose
      BY <1>2, <2>2 DEF Store!DeleteItem
    <3>2. Store!NoItem.status = "unused"
      BY DEF Store!NoItem
    <3> QED BY <1>1, <1>3, <3>1, <3>2 DEF Waiting, StoreTyped
  <2> QED BY <2>1, <2>2
<1>5. \A v \in Variants : stock'[v].on >= stock[v].on
  BY <1>1 DEF StoreTyped, StockRows
<1>6. AllCovered'
  BY CodedIs, <1>1, <1>4, <1>5, StillCovered DEF OneStore
<1> QED BY <1>1, <1>6, StoreEnds DEF OneStore, Store!StockIsBooked

LEMMA OneCreates ==
    ASSUME Store!SupplyAssumption, OneHandler, OneStore, NEW p \in Handlers, NEW o \in Restocks,
           NEW wanted \in Store!Lines, NEW r \in SUBSET Clients, Store!CreatePO(p, o, wanted, r)
    PROVE  OneStore'
<1>1. /\ StoreTyped /\ StoreTyped' /\ UNCHANGED <<stock, item, booked, most, loose, h>>
      /\ supply[o].status = "unused" /\ h[p] = Store!Idle
  BY CreateTyped DEF OneStore, Store!CreatePO
<1>2. PICK row \in SupplyRows : supply' = [supply EXCEPT ![o] = row]
  BY <1>1, CreateTyped
<1>3. \A a \in Restocks \ {o} : supply'[a] = supply[a]
  BY <1>1, <1>2 DEF StoreTyped
<1>4. ASSUME NEW v \in Variants, NEW c \in Clients
      PROVE  /\ Waiting(v, c)' \subseteq Waiting(v, c)
             /\ stock'[v].on + Ordered(v)'[o] >= stock[v].on + Ordered(v)[o]
  <2>1. Ordered(v)[o] = 0
    BY <1>1 DEF Ordered
  <2>2. Ordered(v)'[o] \in Nat
    BY <1>1, <1>2 DEF Ordered, StoreTyped, SupplyRows
  <2>3. stock'[v] = stock[v] /\ stock[v].on \in Nat
    BY <1>1 DEF StoreTyped, StockRows
  <2> QED BY <1>1, <2>1, <2>2, <2>3 DEF Waiting
<1>5. AllCovered'
  BY CodedIs, <1>1, <1>3, <1>4, OrderCovers DEF OneStore
<1>6. \A q \in Handlers : h[q] = Store!Idle
  BY <1>1 DEF OneHandler
<1>7. \A q \in Handlers : StoreAsRead(q)'
  BY <1>1, <1>6 DEF StoreAsRead, Store!Idle
<1> QED BY <1>1, <1>5, <1>7 DEF OneStore, Store!StockIsBooked

(* The lines of an order that is edited or cancelled are loose. *)
LEMMA OneWritesOrder ==
    ASSUME Store!SupplyAssumption, OneHandler, OneStore, NEW p \in Handlers,
           \/ \E s \in Store!POStatus, wanted \in Store!Lines : Store!EditPO(p, s, wanted)
           \/ \E s \in Store!POStatus : Store!POSet(p, s)
    PROVE  OneStore'
<1>1. /\ StoreTyped /\ StoreTyped' /\ UNCHANGED <<stock, item, booked, most>>
      /\ h' = [h EXCEPT ![p] = Store!Idle]
      /\ h[p] \in [op : {"edit", "po_status"}, id : Restocks, seen : SupplyRows]
  BY OrderWritten DEF OneStore
<1>2. PICK o : o = h[p].id
  OBVIOUS
<1>3. o \in Restocks /\ supply[o] \in SupplyRows /\ h[p].seen = supply[o]
  BY <1>1, <1>2 DEF OneStore, StoreAsRead, StoreTyped
<1>4. /\ loose \subseteq loose'
      /\ \E row \in SupplyRows :
            /\ supply' = [supply EXCEPT ![o] = row]
            /\ \A v \in Variants \ loose' : \/ supply[o].lines[v] = 0
                                            \/ row.status = "open" /\ row.lines = supply[o].lines
  <2>1. ASSUME NEW s \in Store!POStatus, NEW wanted \in Store!Lines, Store!EditPO(p, s, wanted)
        PROVE  /\ loose \subseteq loose'
               /\ \E row \in SupplyRows :
                     /\ supply' = [supply EXCEPT ![o] = row]
                     /\ \A v \in Variants \ loose' : supply[o].lines[v] = 0
    <3>1. PICK row : row = [h[p].seen EXCEPT !.status = s, !.lines = wanted]
      OBVIOUS
    <3>2. row \in SupplyRows
      <4>1. wanted \in [Variants -> Nat]
        BY DEF Store!Lines
      <4> QED BY <1>3, <3>1, <4>1 DEF SupplyRows
    <3>3. /\ supply' = [supply EXCEPT ![o] = Store!Flushed(supply[o], h[p].seen, row)]
          /\ loose' = loose \cup {v \in Variants : h[p].seen.lines[v] > 0}
      BY <1>2, <2>1, <3>1 DEF Store!EditPO
    <3>4. supply' = [supply EXCEPT ![o] = row]
      BY <1>3, <3>2, <3>3, SupplyFlushed
    <3>5. \A v \in Variants \ loose' : supply[o].lines[v] = 0
      BY <1>3, <3>3 DEF SupplyRows
    <3> QED BY <3>2, <3>3, <3>4, <3>5
  <2>2. ASSUME NEW s \in Store!POStatus, Store!POSet(p, s)
        PROVE  /\ loose \subseteq loose'
               /\ \E row \in SupplyRows :
                     /\ supply' = [supply EXCEPT ![o] = row]
                     /\ \A v \in Variants \ loose' : \/ supply[o].lines[v] = 0
                                                     \/ row.status = "open" /\ row.lines = supply[o].lines
    <3>1. PICK row : row = [h[p].seen EXCEPT !.status = s]
      OBVIOUS
    <3>2. row \in SupplyRows /\ row.status = s /\ row.lines = supply[o].lines
      BY <1>3, <3>1 DEF SupplyRows
    <3>3. /\ supply' = [supply EXCEPT ![o] = Store!Flushed(supply[o], h[p].seen, row)]
          /\ s # "received"
          /\ loose' = IF s = "cancelled" THEN loose \cup {v \in Variants : h[p].seen.lines[v] > 0}
                      ELSE loose
      BY <1>2, <2>2, <3>1 DEF Store!POSet
    <3>4. supply' = [supply EXCEPT ![o] = row]
      BY <1>3, <3>2, <3>3, SupplyFlushed
    <3>5. s = "cancelled" => \A v \in Variants \ loose' : supply[o].lines[v] = 0
      BY <1>3, <3>3 DEF SupplyRows
    <3>6. s = "open" \/ s = "cancelled"
      BY <3>3 DEF Store!POStatus
    <3> QED BY <3>2, <3>3, <3>4, <3>5, <3>6
  <2> QED BY <2>1, <2>2
<1>5. PICK row \in SupplyRows :
         /\ supply' = [supply EXCEPT ![o] = row]
         /\ \A v \in Variants \ loose' : \/ supply[o].lines[v] = 0
                                         \/ row.status = "open" /\ row.lines = supply[o].lines
  BY <1>4
<1>6. \A a \in Restocks \ {o} : supply'[a] = supply[a]
  BY <1>1, <1>5 DEF StoreTyped
<1>7. ASSUME NEW v \in Variants \ loose', NEW r \in Clients
      PROVE  /\ Waiting(v, r)' \subseteq Waiting(v, r)
             /\ stock'[v].on + Ordered(v)'[o] >= stock[v].on + Ordered(v)[o]
  <2>1. supply'[o] = row
    BY <1>1, <1>3, <1>5 DEF StoreTyped
  <2>2. Ordered(v)'[o] = IF row.status = "open" THEN row.lines[v] ELSE 0
    BY <1>3, <2>1 DEF Ordered
  <2>3. Ordered(v)[o] = IF supply[o].status = "open" THEN supply[o].lines[v] ELSE 0
    BY <1>3 DEF Ordered
  <2>4. row.lines[v] \in Nat /\ supply[o].lines[v] \in Nat
    BY <1>3, <1>5 DEF SupplyRows
  <2>5. Ordered(v)'[o] >= Ordered(v)[o] /\ Ordered(v)'[o] \in Nat /\ Ordered(v)[o] \in Nat
    BY <1>5, <2>2, <2>3, <2>4
  <2>6. stock'[v] = stock[v] /\ stock[v].on \in Nat
    BY <1>1 DEF StoreTyped, StockRows
  <2> QED BY <1>1, <2>5, <2>6 DEF Waiting
<1>8. AllCovered'
  BY CodedIs, <1>1, <1>3, <1>4, <1>6, <1>7, OrderCovers DEF OneStore
<1> QED BY <1>1, <1>8, StoreEnds DEF OneStore, Store!StockIsBooked

(* What an open order brought is on hand instead. *)
LEMMA OneReceived ==
    ASSUME Store!SupplyAssumption, OneHandler, OneStore, NEW p \in Handlers, Store!POReceived(p)
    PROVE  OneStore'
<1>1. /\ StoreTyped /\ StoreTyped' /\ UNCHANGED loose /\ h' = [h EXCEPT ![p] = Store!Idle]
      /\ h[p] \in [op : {"book"}, id : Restocks, seen : SupplyRows, stock : [Variants -> StockRows],
                   items : SUBSET Items]
      /\ \A v \in Store!Came(h[p].seen) : /\ booked'[v] = booked[v] + h[p].seen.lines[v]
                                          /\ stock'[v].on = h[p].stock[v].on + h[p].seen.lines[v]
      /\ \A v \in Variants \ Store!Came(h[p].seen) : booked'[v] = booked[v] /\ stock'[v] = stock[v]
      /\ item' = [i \in Items |-> IF i \in h[p].items THEN [item[i] EXCEPT !.status = "stock_received"]
                                   ELSE item[i]]
  BY ReceivedTyped DEF OneStore
<1>2. PICK o, row : o = h[p].id /\ row = [h[p].seen EXCEPT !.status = "received"]
  OBVIOUS
<1>3. /\ o \in Restocks /\ supply[o] \in SupplyRows /\ h[p].seen = supply[o] /\ h[p].stock = stock
  BY <1>1, <1>2 DEF OneStore, StoreAsRead, StoreTyped
<1>4. row \in SupplyRows /\ row.status = "received"
  BY <1>2, <1>3 DEF SupplyRows, Store!POStatus
<1>5. supply' = [supply EXCEPT ![o] = row]
  <2>1. supply' = [supply EXCEPT ![o] = Store!Flushed(supply[o], h[p].seen, row)]
    BY <1>1, <1>2, ReceivedTyped
  <2> QED BY <1>3, <1>4, <2>1, SupplyFlushed
<1>6. \A a \in Restocks \ {o} : supply'[a] = supply[a]
  BY <1>1, <1>5 DEF StoreTyped
<1>7. ASSUME NEW v \in Variants
      PROVE  /\ supply[o].lines[v] \in Nat /\ stock[v].on \in Nat
             /\ \/ stock'[v].on = stock[v].on /\ booked'[v] = booked[v]
                \/ /\ stock'[v].on = stock[v].on + supply[o].lines[v]
                   /\ booked'[v] = booked[v] + supply[o].lines[v]
             /\ v \in Coded => stock'[v].on = stock[v].on + supply[o].lines[v]
  <2>1. supply[o].lines[v] \in Nat /\ stock[v].on \in Nat
    BY <1>1, <1>3 DEF SupplyRows, StoreTyped, StockRows
  <2>2. CASE v \in Store!Came(supply[o])
    BY <1>1, <1>3, <2>1, <2>2
  <2>3. CASE v \notin Store!Came(supply[o])
    <3>1. v \in Coded => supply[o].lines[v] = 0
      BY <2>1, <2>3 DEF Store!Came
    <3> QED BY <1>1, <1>3, <2>1, <2>3, <3>1
  <2> QED BY <2>2, <2>3
<1>8. Store!StockIsBooked'
  <2>1. \A v \in Variants : stock[v].on = booked[v]
    BY DEF OneStore, Store!StockIsBooked
  <2> QED BY <1>1, <1>3, <1>7, <2>1 DEF Store!StockIsBooked
<1>9. ASSUME NEW v \in Coded, NEW r \in Clients
      PROVE  /\ Waiting(v, r)' \subseteq Waiting(v, r)
             /\ stock'[v].on + Ordered(v)'[o] >= stock[v].on + Ordered(v)[o]
  <2>0. v \in Variants
    BY DEF Store!SupplyAssumption
  <2>1. supply'[o] = row
    BY <1>1, <1>3, <1>5 DEF StoreTyped
  <2>2. Ordered(v)'[o] = 0
    BY <1>3, <1>4, <2>1 DEF Ordered
  <2>3. Ordered(v)[o] = IF supply[o].status = "open" THEN supply[o].lines[v] ELSE 0
    BY <1>3 DEF Ordered
  <2>4. stock'[v].on + Ordered(v)'[o] >= stock[v].on + Ordered(v)[o]
    BY <1>7, <2>0, <2>2, <2>3
  <2>5. ASSUME NEW i \in Items, item'[i].status = "stock_ordered"
        PROVE  item'[i] = item[i]
    <3>1. item[i] \in ItemRows
      BY <1>1 DEF StoreTyped
    <3> QED BY <1>1, <2>5, <3>1 DEF ItemRows
  <2>6. Waiting(v, r)' \subseteq Waiting(v, r)
    BY <2>5 DEF Waiting
  <2> QED BY <2>4, <2>6
<1>10. AllCovered'
  BY <1>1, <1>3, <1>6, <1>9, OrderCovers DEF OneStore
<1> QED BY <1>1, <1>8, <1>10, StoreEnds DEF OneStore

(* The new purchase order covers every item of its order, with what is on hand; no more items of
   the others wait. *)
LEMMA OneGenerates ==
    ASSUME Store!SupplyAssumption, OneHandler, OneStore, NEW p \in Handlers, NEW o \in Restocks,
           Store!Generate(p, o)
    PROVE  OneStore'
<1>1. /\ StoreTyped /\ StoreTyped' /\ UNCHANGED <<stock, booked, most, loose>>
      /\ h' = [h EXCEPT ![p] = Store!Idle]
      /\ h[p] \in [op : {"generate"}, id : Clients, items : Rosters, stock : [Variants -> StockRows]]
      /\ supply[o].status = "unused"
      /\ item' = [i \in Items |->
            IF i \in {j \in DOMAIN h[p].items : h[p].items[j].status = "pending"}
            THEN [item[i] EXCEPT !.status = "stock_ordered"] ELSE item[i]]
  BY GenerateTyped DEF OneStore
<1>2. /\ h[p].stock = stock
      /\ \A i \in DOMAIN h[p].items : h[p].items[i] = item[i] /\ item[i].order = h[p].id
      /\ \A i \in Items : item[i].status = "stock_ordered" /\ item[i].order = h[p].id
                         => i \in DOMAIN h[p].items
  BY <1>1 DEF OneStore, StoreAsRead
<1>3. PICK wanted \in [Variants -> Nat] :
         /\ supply' = [supply EXCEPT ![o] = [status |-> "open", lines |-> wanted, related |-> {h[p].id}]]
         /\ \A v \in Variants : stock[v].on + wanted[v]
               >= Cardinality({i \in DOMAIN h[p].items : h[p].items[i].of = v})
  BY <1>1, <1>2, GenerateTyped
<1>4. PICK X \in SUBSET Items : h[p].items \in [X -> ItemRows]
  BY <1>1 DEF Rosters
<1>5. ASSUME NEW v \in Variants, v \in Coded \ loose, NEW r \in Clients
      PROVE  stock'[v].on + SumFunctionOnSet(Ordered(v)', Restocks) >= Cardinality(Waiting(v, r)')
  <2>1. PICK f, g, few, many, all : /\ f = Ordered(v) /\ g = Ordered(v)' /\ few = Waiting(v, r)'
                                    /\ many = Waiting(v, r)
                                    /\ all = {i \in X : h[p].items[i].of = v}
    OBVIOUS
  <2>2. /\ \A a \in Restocks : f[a] \in Nat
        /\ SumFunctionOnSet(f, Restocks) \in Nat /\ IsFiniteSet(Restocks) /\ stock[v].on \in Nat
    BY <1>1, <2>1, OrderedTyped
  <2>3. \A a \in Restocks : g[a] \in Nat
    <3> SUFFICES ASSUME NEW a \in Restocks PROVE Ordered(v)'[a] \in Nat
      BY <2>1
    <3>1. supply'[a] \in SupplyRows
      BY <1>1 DEF StoreTyped
    <3> QED BY <3>1 DEF Ordered, SupplyRows
  <2>4. f[o] = 0 /\ g[o] = wanted[v] /\ \A a \in Restocks \ {o} : g[a] = f[a]
    BY <1>1, <1>3, <2>1 DEF Ordered, StoreTyped
  <2>5. SumFunctionOnSet(g, Restocks) = (SumFunctionOnSet(f, Restocks) - f[o]) + g[o]
    BY <2>2, <2>3, <2>4, SumChange
  <2>6. /\ stock[v].on + wanted[v] >= Cardinality(all) /\ wanted[v] \in Nat
        /\ stock[v].on + SumFunctionOnSet(f, Restocks) >= Cardinality(many)
    BY <1>3, <1>4, <1>5, <2>1 DEF OneStore, AllCovered
  <2>7. ASSUME NEW i \in Items, item'[i].status = "stock_ordered", item'[i].of = v, item'[i].order = r
        PROVE  /\ r = h[p].id => i \in X /\ h[p].items[i].of = v
               /\ r # h[p].id => i \in many
    <3>1. item[i] \in ItemRows /\ DOMAIN h[p].items = X
      BY <1>1, <1>4 DEF StoreTyped
    <3>2. CASE i \in X /\ h[p].items[i].status = "pending"
      <4>1. item'[i] = [item[i] EXCEPT !.status = "stock_ordered"]
        BY <1>1, <3>1, <3>2
      <4>2. item'[i].of = item[i].of /\ item'[i].order = item[i].order
        BY <3>1, <4>1 DEF ItemRows
      <4>3. item[i].order = h[p].id
        BY <1>2, <3>1, <3>2
      <4> QED BY <1>2, <2>7, <3>1, <3>2, <4>2, <4>3
    <3>3. CASE ~(i \in X /\ h[p].items[i].status = "pending")
      <4>1. item'[i] = item[i]
        BY <1>1, <3>1, <3>3
      <4>2. i \in many
        BY <2>1, <2>7, <4>1 DEF Waiting
      <4>3. r = h[p].id => i \in X
        BY <1>2, <2>7, <3>1, <4>1
      <4> QED BY <1>2, <2>7, <3>1, <4>1, <4>2, <4>3
    <3> QED BY <3>2, <3>3
  <2>8. few \subseteq all \/ few \subseteq many
    BY <2>1, <2>7 DEF Waiting
  <2>9. IsFiniteSet(all) /\ IsFiniteSet(many)
    <3>1. IsFiniteSet(Items)
      BY StoreSizes DEF Store!SupplyAssumption
    <3>2. all \subseteq Items /\ many \subseteq Items
      BY <2>1 DEF Waiting
    <3> QED BY <3>1, <3>2, FS_Subset
  <2>10. /\ Cardinality(few) \in Nat /\ Cardinality(all) \in Nat /\ Cardinality(many) \in Nat
         /\ Cardinality(few) <= Cardinality(all) \/ Cardinality(few) <= Cardinality(many)
    BY <2>8, <2>9, FS_Subset, FS_CardinalityType
  <2>11. stock[v].on + SumFunctionOnSet(g, Restocks) >= Cardinality(few)
    BY <2>2, <2>4, <2>5, <2>6, <2>10
  <2> QED BY <1>1, <2>1, <2>11
<1>6. AllCovered'
  BY CodedIs, <1>1, <1>5 DEF AllCovered
<1> QED BY <1>1, <1>6, StoreEnds DEF OneStore, Store!StockIsBooked

LEMMA OneStoreBegins == ASSUME Store!SupplyAssumption, Store!Init PROVE OneStore
<1>1. StoreTyped
  BY StoreStart
<1>2. Store!StockIsBooked
  BY DEF Store!Init, Store!StockIsBooked, Store!NoStock
<1>3. \A p \in Handlers : StoreAsRead(p)
  BY DEF Store!Init, StoreAsRead, Store!Idle
<1>4. ASSUME NEW v \in Variants, NEW r \in Clients
      PROVE  stock[v].on + SumFunctionOnSet(Ordered(v), Restocks) >= Cardinality(Waiting(v, r))
  <2>1. Waiting(v, r) = {}
    BY DEF Store!Init, Waiting, Store!NoItem
  <2>2. Cardinality(Waiting(v, r)) = 0
    BY <2>1, FS_EmptySet
  <2>3. stock[v].on \in Nat /\ SumFunctionOnSet(Ordered(v), Restocks) \in Nat
    BY <1>1, OrderedTyped
  <2> QED BY <2>2, <2>3
<1> QED BY CodedIs, <1>1, <1>2, <1>3, <1>4 DEF OneStore, AllCovered

LEMMA OneStoreStays ==
    ASSUME Store!SupplyAssumption, OneHandler, OneStore, [Store!Next]_Store!vars
    PROVE  OneStore'
<1>1. CASE UNCHANGED Store!vars
  <2>1. StoreTyped' /\ Store!StockIsBooked'
    BY <1>1 DEF Store!vars, OneStore, StoreTyped, Store!StockIsBooked
  <2>2. AllCovered'
    BY <1>1 DEF Store!vars, OneStore, AllCovered, Ordered, Waiting
  <2>3. \A p \in Handlers : StoreAsRead(p)'
    BY <1>1 DEF Store!vars, OneStore, StoreAsRead, Store!Known
  <2> QED BY <2>1, <2>2, <2>3 DEF OneStore
<1>2. CASE StoreSteps
  BY <1>2, OneReads, OneCounts, OneReceives, OneAddsItems, OneWritesItem, OneCreates, OneWritesOrder,
     OneReceived, OneGenerates DEF StoreSteps
<1> QED BY <1>1, <1>2, StoreNext

LEMMA OneStoreShows == OneStore => Store!StockIsBooked /\ Store!WaitingIsCovered
BY CoveredIs DEF OneStore

(* One request at a time: what is on hand is what was booked, and the stock and the open purchase
   orders cover the items of each order that wait for a piece whose product has a code, unless
   somebody set them by hand.  (bulk_update_stock, receive_stock, update_po_status,
   generate_po_from_order.) *)
THEOREM StockIsBookedHolds ==
    ASSUME Store!SupplyAssumption, OneHandler
    PROVE  Store!Spec => [](Store!StockIsBooked /\ Store!WaitingIsCovered)
BY OneStoreBegins, OneStoreStays, OneStoreShows, PTL DEF Store!Spec
-----------------------------------------------------------------------------
(***************************************************************************)
(* The print shop.  What is paid on an invoice is taken off what is due,   *)
(* and a changed deposit starts again from the total, so that one handler  *)
(* never lets an invoice ask for less than what is missing.                *)
(***************************************************************************)
Press == INSTANCE PrintShop

PressOrders == [status : Press!OrderStatus \cup {"unused"}, price : 0 .. MaxTotal]
PressInvoices == [status : {"unused", "pending", "deposit_paid", "partial", "paid", "overdue"},
                  of : Orders, total : 0 .. MaxTotal, deposit : 0 .. MaxTotal,
                  due : -MaxTotal .. MaxTotal]
PressSums == [count : Nat, spend : Nat]

PressRequests ==
    {Press!Idle}
    \cup [op : {"update", "status", "approve", "complete", "invoice"}, id : Orders, seen : PressOrders]
    \cup [op : {"count"}, id : Orders, seen : PressOrders, was : PressSums]
    \cup [op : {"deposit", "payment"}, id : Invoices, seen : PressInvoices]

PressTyped ==
    /\ order \in [Orders -> PressOrders] /\ stats \in PressSums
    /\ invoice \in [Invoices -> PressInvoices] /\ received \in [Invoices -> Nat]
    /\ h \in [Handlers -> PressRequests]

LEMMA PressColumns ==
    /\ \A cur, seen, new \in PressOrders : Press!Flushed(cur, seen, new) \in PressOrders
    /\ \A cur, seen, new \in PressInvoices : Press!Flushed(cur, seen, new) \in PressInvoices
    /\ \A cur, seen, new \in PressSums : Press!Flushed(cur, seen, new) \in PressSums
BY DEF Press!Flushed, PressOrders, PressInvoices, PressSums

LEMMA PressOrderWritten ==
    ASSUME PressTyped, NEW p \in Handlers, h[p].id \in Orders, h[p].seen \in PressOrders,
           NEW new \in PressOrders, Press!SaveOrder(p, new)
    PROVE  order' \in [Orders -> PressOrders]
BY PressColumns DEF PressTyped, Press!SaveOrder

LEMMA InvoiceWritten ==
    ASSUME PressTyped, NEW p \in Handlers, h[p].id \in Invoices, h[p].seen \in PressInvoices,
           NEW new \in PressInvoices, Press!SaveInvoice(p, new)
    PROVE  /\ invoice' \in [Invoices -> PressInvoices]
           /\ invoice' = [invoice EXCEPT ![h[p].id] = Press!Flushed(@, h[p].seen, new)]
BY PressColumns DEF PressTyped, Press!SaveInvoice

LEMMA PressEnds ==
    ASSUME PressTyped, NEW p \in Handlers, NEW op, Press!Finish(p, op)
    PROVE  h[p].op = op /\ h' = [h EXCEPT ![p] = Press!Idle] /\ h' \in [Handlers -> PressRequests]
BY DEF PressTyped, Press!Finish, PressRequests

(* Who works on an order, and who on an invoice. *)
LEMMA PressWho ==
    ASSUME PressTyped, NEW p \in Handlers
    PROVE  /\ h[p].op \in {"update", "status", "approve", "complete", "invoice", "count"} =>
                 h[p].id \in Orders /\ h[p].seen \in PressOrders
           /\ h[p].op \in {"deposit", "payment"} => h[p].id \in Invoices /\ h[p].seen \in PressInvoices
           /\ h[p].op = "count" => h[p].was \in PressSums
BY DEF PressTyped, PressRequests, Press!Idle

LEMMA PressBegins == ASSUME Press!PrintShopAssumption, Press!Init PROVE PressTyped
<1>1. Press!NoOrder \in PressOrders
  BY DEF Press!PrintShopAssumption, Press!NoOrder, PressOrders
<1>2. Press!NoInvoice \in PressInvoices
  BY DEF Press!PrintShopAssumption, Press!NoInvoice, PressInvoices
<1> QED BY <1>1, <1>2 DEF Press!Init, PressTyped, PressRequests, PressSums

(* A handler reads an order or an invoice, or leaves. *)
LEMMA PressReads ==
    ASSUME PressTyped, NEW p \in Handlers, UNCHANGED <<order, stats, invoice, received>>,
           NEW new \in PressRequests, h' = [h EXCEPT ![p] = new]
    PROVE  PressTyped'
BY DEF PressTyped

LEMMA OrderReads ==
    ASSUME PressTyped, NEW p \in Handlers, NEW o \in Orders
    PROVE  /\ Press!UpdateLoad(p, o) => PressTyped'
           /\ Press!StatusLoad(p, o) => PressTyped'
           /\ Press!ApproveLoad(p, o) => PressTyped'
           /\ Press!CompleteLoad(p, o) => PressTyped'
           /\ Press!InvoiceLoad(p, o) => PressTyped'
<1>1. ASSUME NEW op \in {"update", "status", "approve", "complete", "invoice"}, NEW s,
             Press!LoadOrder(p, op, o, s)
      PROVE  PressTyped'
  <2>1. [op |-> op, id |-> o, seen |-> order[o]] \in PressRequests
    BY DEF PressTyped, PressRequests
  <2> QED BY <1>1, <2>1, PressReads DEF Press!LoadOrder
<1> QED BY <1>1 DEF Press!UpdateLoad, Press!StatusLoad, Press!ApproveLoad, Press!CompleteLoad,
                    Press!InvoiceLoad

LEMMA InvoiceReads ==
    ASSUME PressTyped, NEW p \in Handlers, NEW i \in Invoices
    PROVE  (Press!DepositLoad(p, i) => PressTyped') /\ (Press!PaymentLoad(p, i) => PressTyped')
<1>1. ASSUME NEW op \in {"deposit", "payment"}, Press!LoadInvoice(p, op, i) PROVE PressTyped'
  <2>1. [op |-> op, id |-> i, seen |-> invoice[i]] \in PressRequests
    BY DEF PressTyped, PressRequests
  <2> QED BY <1>1, <2>1, PressReads DEF Press!LoadInvoice
<1> QED BY <1>1 DEF Press!DepositLoad, Press!PaymentLoad

LEMMA OthersRead ==
    ASSUME PressTyped, NEW p \in Handlers
    PROVE  (Press!CustomerLoad(p) => PressTyped') /\ (Press!Abort(p) => PressTyped')
<1>1. ASSUME Press!CustomerLoad(p) PROVE PressTyped'
  <2>1. h[p].id \in Orders /\ h[p].seen \in PressOrders
    BY <1>1, PressWho DEF Press!CustomerLoad
  <2>2. [op |-> "count", id |-> h[p].id, seen |-> h[p].seen, was |-> stats] \in PressRequests
    BY <2>1 DEF PressTyped, PressRequests
  <2> QED BY <1>1, <2>2, PressReads DEF Press!CustomerLoad
<1>2. Press!Idle \in PressRequests
  BY DEF PressRequests
<1> QED BY <1>1, <1>2, PressReads DEF Press!Abort

LEMMA PressOrdersWritten ==
    ASSUME Press!PrintShopAssumption, PressTyped, NEW p \in Handlers
    PROVE  /\ \A n \in Press!Amounts : Press!UpdateCommit(p, n) => PressTyped'
           /\ \A s \in Press!OrderStatus : Press!StatusCommit(p, s) => PressTyped'
           /\ Press!ApproveCommit(p) => PressTyped'
           /\ Press!CompleteCommit(p) => PressTyped'
<1>1. ASSUME NEW n \in Press!Amounts, Press!UpdateCommit(p, n) PROVE PressTyped'
  <2>1. h[p].op = "update" /\ h' \in [Handlers -> PressRequests]
    BY <1>1, PressEnds DEF Press!UpdateCommit
  <2>2. [h[p].seen EXCEPT !.price = n] \in PressOrders
    BY <2>1, PressWho DEF PressOrders, Press!Amounts
  <2> QED BY <1>1, <2>1, <2>2, PressWho, PressOrderWritten DEF Press!UpdateCommit, PressTyped
<1>2. ASSUME NEW s \in Press!OrderStatus, Press!StatusCommit(p, s) PROVE PressTyped'
  <2>1. h[p].op = "status" /\ h' \in [Handlers -> PressRequests]
    BY <1>2, PressEnds DEF Press!StatusCommit
  <2>2. [h[p].seen EXCEPT !.status = s] \in PressOrders
    BY <2>1, PressWho DEF PressOrders
  <2> QED BY <1>2, <2>1, <2>2, PressWho, PressOrderWritten DEF Press!StatusCommit, PressTyped
<1>3. ASSUME Press!ApproveCommit(p) PROVE PressTyped'
  <2>1. h[p].op = "approve" /\ h' \in [Handlers -> PressRequests]
    BY <1>3, PressEnds DEF Press!ApproveCommit
  <2>2. [h[p].seen EXCEPT !.status = "approved"] \in PressOrders
    BY <2>1, PressWho DEF PressOrders, Press!OrderStatus
  <2> QED BY <1>3, <2>1, <2>2, PressWho, PressOrderWritten DEF Press!ApproveCommit, PressTyped
<1>4. ASSUME Press!CompleteCommit(p) PROVE PressTyped'
  <2>1. h[p].op = "count" /\ h' \in [Handlers -> PressRequests]
    BY <1>4, PressEnds DEF Press!CompleteCommit
  <2>2. [h[p].seen EXCEPT !.status = "ready"] \in PressOrders
    BY <2>1, PressWho DEF PressOrders, Press!OrderStatus
  <2>3. order' \in [Orders -> PressOrders]
    BY <1>4, <2>1, <2>2, PressWho, PressOrderWritten DEF Press!CompleteCommit
  <2>4. h[p].was \in PressSums /\ h[p].seen \in PressOrders
    BY <2>1, PressWho
  <2>5. [count |-> h[p].was.count + 1, spend |-> h[p].was.spend + h[p].seen.price] \in PressSums
    BY <2>4 DEF PressSums, PressOrders, Press!PrintShopAssumption
  <2>6. stats' \in PressSums
    BY <1>4, <2>4, <2>5, PressColumns DEF Press!CompleteCommit, PressTyped
  <2> QED BY <1>4, <2>1, <2>3, <2>6 DEF Press!CompleteCommit, PressTyped
<1> QED BY <1>1, <1>2, <1>3, <1>4

LEMMA PressMax == ASSUME NEW d \in Int PROVE Press!Max({0, d}) = IF d > 0 THEN d ELSE 0
BY DEF Press!Max

(* What a handler makes of the invoice it read: the row, and the money that came with it. *)
PressRow(p, new, n) ==
    /\ invoice' = [invoice EXCEPT ![h[p].id] = Press!Flushed(@, h[p].seen, new)]
    /\ received' = [received EXCEPT ![h[p].id] = @ + n]
    /\ h' = [h EXCEPT ![p] = Press!Idle]
    /\ UNCHANGED <<order, stats>>

(* No less is due than before, but for what was paid, or all that the total and the deposit ask. *)
Covering(seen, new, n) ==
    \/ new.due + n >= new.total - new.deposit
    \/ /\ new.due + n >= seen.due
       /\ new.total = seen.total /\ new.deposit = seen.deposit

LEMMA RowSteps ==
    ASSUME Press!PrintShopAssumption, PressTyped, NEW p \in Handlers
    PROVE  LET Row == /\ h[p].op \in {"deposit", "payment"}
                      /\ \E new \in PressInvoices, n \in Nat :
                            PressRow(p, new, n) /\ Covering(h[p].seen, new, n)
           IN /\ \A d \in Press!Amounts : Press!DepositCommit(p, d) => Row
              /\ \A s \in {"pending", "deposit_paid", "partial", "paid", "overdue"} :
                    Press!SetStatus(p, s) => Row
              /\ \A n \in Press!Amounts : Press!PayPart(p, n) => Row
              /\ \A n \in Press!Amounts : Press!PayAll(p, n) => Row
<1> DEFINE Row == /\ h[p].op \in {"deposit", "payment"}
                  /\ \E new \in PressInvoices, n \in Nat :
                        PressRow(p, new, n) /\ Covering(h[p].seen, new, n)
           i == h[p].id
           seen == h[p].seen
<1>0. MaxTotal \in Nat /\ received \in [Invoices -> Nat]
  BY DEF Press!PrintShopAssumption, PressTyped
<1>1. ASSUME h[p].op \in {"deposit", "payment"}
      PROVE  /\ i \in Invoices /\ seen \in PressInvoices
             /\ seen.due \in -MaxTotal .. MaxTotal /\ seen.total \in 0 .. MaxTotal
             /\ seen.deposit \in 0 .. MaxTotal
             /\ [received EXCEPT ![i] = @ + 0] = received
  <2>1. i \in Invoices /\ seen \in PressInvoices
    BY <1>1, PressWho
  <2> QED BY <1>0, <2>1 DEF PressInvoices
<1>2. ASSUME NEW d \in Press!Amounts, Press!DepositCommit(p, d) PROVE Row
  <2>0. PICK new : new = [seen EXCEPT !.deposit = d, !.due = seen.total - d]
    OBVIOUS
  <2>1. h[p].op = "deposit" /\ h' = [h EXCEPT ![p] = Press!Idle]
    BY <1>2, PressEnds DEF Press!DepositCommit
  <2>2. new \in PressInvoices /\ new.due = new.total - new.deposit
    <3>1. seen.total - d \in -MaxTotal .. MaxTotal /\ d \in 0 .. MaxTotal
      BY <1>0, <1>1, <2>1 DEF Press!Amounts
    <3>2. PICK due : due = seen.total - d
      OBVIOUS
    <3>3. new = [seen EXCEPT !.deposit = d, !.due = due] /\ due \in -MaxTotal .. MaxTotal
      BY <2>0, <3>1, <3>2
    <3>4. new \in PressInvoices /\ new.due = due /\ new.deposit = d /\ new.total = seen.total
      BY <1>1, <2>1, <3>1, <3>3 DEF PressInvoices
    <3> QED BY <3>2, <3>4
  <2>3. PressRow(p, new, 0)
    BY <1>1, <1>2, <2>1, <2>0 DEF Press!DepositCommit, Press!SaveInvoice, PressRow
  <2>4. Covering(seen, new, 0)
    <3>1. new.due \in Int /\ new.total \in Int /\ new.deposit \in Int
      BY <1>0, <2>2 DEF PressInvoices
    <3> QED BY <2>2, <3>1 DEF Covering
  <2> QED BY <2>1, <2>2, <2>3, <2>4
<1>3. ASSUME NEW s \in {"pending", "deposit_paid", "partial", "paid", "overdue"}, Press!SetStatus(p, s)
      PROVE  Row
  <2>0. PICK new : new = [seen EXCEPT !.status = s]
    OBVIOUS
  <2>1. h[p].op = "deposit" /\ h' = [h EXCEPT ![p] = Press!Idle]
    BY <1>3, PressEnds DEF Press!SetStatus
  <2>2. /\ new \in PressInvoices /\ new.due = seen.due
        /\ new.total = seen.total /\ new.deposit = seen.deposit
    BY <1>1, <2>0, <2>1 DEF PressInvoices
  <2>3. PressRow(p, new, 0)
    BY <1>1, <1>3, <2>1, <2>0 DEF Press!SetStatus, Press!SaveInvoice, PressRow
  <2>4. Covering(seen, new, 0)
    BY <1>0, <1>1, <2>1, <2>2 DEF Covering
  <2> QED BY <2>1, <2>2, <2>3, <2>4
<1>4. ASSUME NEW n \in Press!Amounts, Press!PayPart(p, n) PROVE Row
  <2>0. PICK new : new = [seen EXCEPT !.status = "partial", !.due = @ - n]
    OBVIOUS
  <2>1. h[p].op = "payment" /\ h' = [h EXCEPT ![p] = Press!Idle] /\ 0 < n /\ n < seen.due /\ n \in Nat
    BY <1>4, PressEnds DEF Press!PayPart, Press!Amounts
  <2>2. /\ new \in PressInvoices /\ new.due = seen.due - n
        /\ new.total = seen.total /\ new.deposit = seen.deposit
    <3>1. PICK due : due = seen.due - n
      OBVIOUS
    <3>2. due \in -MaxTotal .. MaxTotal
      BY <1>0, <1>1, <2>1, <3>1
    <3>3. new = [seen EXCEPT !.status = "partial", !.due = due]
      BY <1>1, <2>0, <2>1, <3>1 DEF PressInvoices
    <3>4. /\ new \in PressInvoices /\ new.due = due
          /\ new.total = seen.total /\ new.deposit = seen.deposit
      BY <1>1, <2>1, <3>2, <3>3 DEF PressInvoices
    <3> QED BY <3>1, <3>4
  <2>3. PressRow(p, new, n)
    BY <1>1, <1>4, <2>1, <2>0 DEF Press!PayPart, Press!SaveInvoice, Press!Receive, PressRow
  <2>4. Covering(seen, new, n)
    BY <1>0, <1>1, <2>1, <2>2 DEF Covering
  <2> QED BY <2>1, <2>2, <2>3, <2>4
<1>5. ASSUME NEW n \in Press!Amounts, Press!PayAll(p, n) PROVE Row
  <2>0. PICK new : new = [seen EXCEPT !.status = "paid", !.due = 0]
    OBVIOUS
  <2>1. /\ h[p].op = "payment" /\ h' = [h EXCEPT ![p] = Press!Idle]
        /\ n = 0 \/ n >= seen.due
        /\ n \in Nat
    BY <1>5, PressEnds DEF Press!PayAll, Press!Amounts
  <2>2. /\ new \in PressInvoices /\ new.due = 0
        /\ new.total = seen.total /\ new.deposit = seen.deposit
    <3>1. PICK due : due = 0
      OBVIOUS
    <3>2. due \in -MaxTotal .. MaxTotal
      BY <1>0, <3>1
    <3>3. new = [seen EXCEPT !.status = "paid", !.due = due]
      BY <2>0, <3>1
    <3>4. /\ new \in PressInvoices /\ new.due = due
          /\ new.total = seen.total /\ new.deposit = seen.deposit
      BY <1>1, <2>1, <3>2, <3>3 DEF PressInvoices
    <3> QED BY <3>1, <3>4
  <2>3. PICK paid : paid = IF n = 0 THEN Press!Max({0, seen.due}) ELSE n
    OBVIOUS
  <2>4. paid \in Nat /\ paid >= seen.due
    BY <1>1, <2>1, <2>3, PressMax
  <2>5. PressRow(p, new, paid)
    BY <1>1, <1>5, <2>1, <2>3, <2>0 DEF Press!PayAll, Press!SaveInvoice, Press!Receive, PressRow
  <2>6. Covering(seen, new, paid)
    BY <1>0, <1>1, <2>2, <2>4 DEF Covering
  <2> QED BY <2>1, <2>2, <2>4, <2>5, <2>6
<1> HIDE DEF Row
<1> QED BY <1>2, <1>3, <1>4, <1>5 DEF Row

LEMMA RowTyped ==
    ASSUME PressTyped, NEW p \in Handlers, h[p].op \in {"deposit", "payment"},
           NEW new \in PressInvoices, NEW n \in Nat, PressRow(p, new, n)
    PROVE  PressTyped'
<1>1. h[p].id \in Invoices /\ h[p].seen \in PressInvoices
  BY PressWho
<1>2. invoice' \in [Invoices -> PressInvoices]
  BY <1>1, PressColumns DEF PressRow, PressTyped
<1>3. h' \in [Handlers -> PressRequests]
  BY DEF PressRow, PressTyped, PressRequests
<1> QED BY <1>1, <1>2, <1>3 DEF PressRow, PressTyped

(* A new invoice asks for what the deposit leaves of the total. *)
LEMMA NewInvoice ==
    ASSUME Press!PrintShopAssumption, PressTyped, NEW p \in Handlers, NEW i \in Invoices,
           NEW n \in Press!Amounts, NEW d \in Press!Amounts, Press!InvoiceCommit(p, i, n, d)
    PROVE  /\ PressTyped' /\ h' = [h EXCEPT ![p] = Press!Idle] /\ received' = received
           /\ \A j \in Invoices : j # i => invoice'[j] = invoice[j]
           /\ invoice'[i].due = invoice'[i].total - invoice'[i].deposit
<1> DEFINE new == [status |-> "pending", of |-> h[p].id, total |-> n, deposit |-> d, due |-> n - d]
<1>1. h[p].op = "invoice" /\ h' = [h EXCEPT ![p] = Press!Idle] /\ h' \in [Handlers -> PressRequests]
  BY PressEnds DEF Press!InvoiceCommit
<1>2. h[p].id \in Orders /\ h[p].seen \in PressOrders
  BY <1>1, PressWho
<1>3. new \in PressInvoices
  BY <1>2 DEF Press!PrintShopAssumption, Press!Amounts, PressInvoices
<1>4. [h[p].seen EXCEPT !.status = "invoiced"] \in PressOrders
  BY <1>2 DEF PressOrders, Press!OrderStatus
<1>5. order' \in [Orders -> PressOrders]
  BY <1>2, <1>4, PressOrderWritten DEF Press!InvoiceCommit
<1>6. invoice' = [invoice EXCEPT ![i] = new] /\ UNCHANGED <<stats, received>>
  BY DEF Press!InvoiceCommit
<1>7. /\ invoice' \in [Invoices -> PressInvoices] /\ invoice'[i] = new
      /\ \A j \in Invoices : j # i => invoice'[j] = invoice[j]
  BY <1>3, <1>6 DEF PressTyped
<1> QED BY <1>1, <1>5, <1>6, <1>7 DEF PressTyped

LEMMA PressStays ==
    ASSUME Press!PrintShopAssumption, PressTyped, [Press!Next]_(Press!vars) PROVE PressTyped'
<1>1. CASE UNCHANGED Press!vars
  BY <1>1 DEF Press!vars, PressTyped
<1>2. ASSUME NEW p \in Handlers, NEW i \in Invoices, NEW n \in Press!Amounts, NEW d \in Press!Amounts,
             Press!InvoiceCommit(p, i, n, d)
      PROVE  PressTyped'
  BY <1>2, NewInvoice
<1>3. ASSUME NEW p \in Handlers, NEW o \in Orders, NEW n \in Press!Amounts, Press!CreateOrder(p, o, n)
      PROVE  PressTyped'
  <2>1. [status |-> "quoted", price |-> n] \in PressOrders
    BY DEF PressOrders, Press!OrderStatus, Press!Amounts
  <2> QED BY <1>3, <2>1 DEF Press!CreateOrder, PressTyped
<1>4. ASSUME NEW p \in Handlers,
             \/ \E n \in Press!Amounts : \/ Press!DepositCommit(p, n) \/ Press!PayPart(p, n)
                                         \/ Press!PayAll(p, n)
             \/ \E s \in {"pending", "deposit_paid", "partial", "paid", "overdue"} : Press!SetStatus(p, s)
      PROVE  PressTyped'
  BY <1>4, RowSteps, RowTyped
<1>5. ASSUME NEW p \in Handlers, NEW o \in Orders,
             \/ Press!UpdateLoad(p, o) \/ Press!StatusLoad(p, o) \/ Press!ApproveLoad(p, o)
             \/ Press!CompleteLoad(p, o) \/ Press!InvoiceLoad(p, o)
      PROVE  PressTyped'
  BY <1>5, OrderReads
<1>6. ASSUME NEW p \in Handlers,
             \/ \E n \in Press!Amounts : Press!UpdateCommit(p, n)
             \/ \E s \in Press!OrderStatus : Press!StatusCommit(p, s)
             \/ Press!ApproveCommit(p) \/ Press!CompleteCommit(p)
      PROVE  PressTyped'
  BY <1>6, PressOrdersWritten
<1> QED BY <1>1, <1>2, <1>3, <1>4, <1>5, <1>6, InvoiceReads, OthersRead DEF Press!Next

(* One request at a time: what is read of an invoice is what is in its row. *)
PressInv ==
    /\ PressTyped /\ Press!DueCoversRest
    /\ \A p \in Handlers : h[p].op \in {"deposit", "payment"} => h[p].seen = invoice[h[p].id]

LEMMA PressInvBegins == ASSUME Press!PrintShopAssumption, Press!Init PROVE PressInv
<1>1. PressTyped
  BY PressBegins
<1> QED BY <1>1 DEF Press!Init, PressInv, Press!DueCoversRest, Press!NoInvoice, Press!Idle

LEMMA RowCovers ==
    ASSUME OneHandler, PressInv, NEW p \in Handlers, h[p].op \in {"deposit", "payment"},
           NEW new \in PressInvoices, NEW n \in Nat, PressRow(p, new, n), Covering(h[p].seen, new, n)
    PROVE  PressInv'
<1> DEFINE i == h[p].id
<1>1. PressTyped /\ PressTyped'
  BY RowTyped DEF PressInv
<1>2. i \in Invoices /\ h[p].seen = invoice[i] /\ invoice[i] \in PressInvoices
  BY <1>1, PressWho DEF PressInv
<1>3. Press!Flushed(invoice[i], invoice[i], new) = new
  BY <1>2 DEF Press!Flushed, PressInvoices
<1>4. /\ invoice'[i] = new /\ received'[i] = received[i] + n
      /\ \A j \in Invoices : j # i => invoice'[j] = invoice[j] /\ received'[j] = received[j]
  BY <1>1, <1>2, <1>3 DEF PressRow, PressTyped
<1>5. ASSUME NEW j \in Invoices
      PROVE  invoice'[j].due >= invoice'[j].total - invoice'[j].deposit - received'[j]
  <2>1. invoice[j].due >= invoice[j].total - invoice[j].deposit - received[j]
    BY DEF PressInv, Press!DueCoversRest
  <2>2. CASE j = i
    <3>1. /\ new.due \in Int /\ new.total \in Int /\ new.deposit \in Int /\ received[i] \in Nat
          /\ invoice[i].due \in Int /\ invoice[i].total \in Int /\ invoice[i].deposit \in Int
      BY <1>1, <1>2 DEF PressTyped, PressInvoices
    <3>2. \/ new.due + n >= new.total - new.deposit
          \/ /\ new.due + n >= invoice[i].due
             /\ new.total = invoice[i].total /\ new.deposit = invoice[i].deposit
      BY <1>2 DEF Covering
    <3> QED BY <1>4, <2>1, <2>2, <3>1, <3>2
  <2>3. CASE j # i
    BY <1>4, <2>1, <2>3
  <2> QED BY <2>2, <2>3
<1>6. ASSUME NEW q \in Handlers PROVE h'[q].op = "none"
  BY <1>1 DEF OneHandler, PressRow, PressTyped, Press!Idle
<1> QED BY <1>1, <1>5, <1>6 DEF PressInv, Press!DueCoversRest

(* A step that leaves the invoices alone. *)
LEMMA CoveringKept ==
    ASSUME PressInv, PressTyped', UNCHANGED <<invoice, received>>,
           \A p \in Handlers : h'[p].op \in {"deposit", "payment"} =>
               h'[p] = h[p] \/ h'[p].seen = invoice[h'[p].id]
    PROVE  PressInv'
BY DEF PressInv, Press!DueCoversRest

LEMMA PressInvStays ==
    ASSUME Press!PrintShopAssumption, OneHandler, PressInv, [Press!Next]_(Press!vars)
    PROVE  PressInv'
<1>1. PressTyped /\ PressTyped' /\ h \in [Handlers -> PressRequests]
  BY PressStays DEF PressInv, PressTyped
<1>2. CASE UNCHANGED Press!vars
  BY <1>1, <1>2 DEF Press!vars, PressInv, Press!DueCoversRest
<1>3. ASSUME NEW p \in Handlers, NEW o \in Orders, NEW op \in {"update", "status", "approve", "complete", "invoice"},
             NEW s, Press!LoadOrder(p, op, o, s)
      PROVE  PressInv'
  BY <1>1, <1>3, CoveringKept DEF Press!LoadOrder
<1>4. ASSUME NEW p \in Handlers, NEW i \in Invoices, NEW op, Press!LoadInvoice(p, op, i) PROVE PressInv'
  BY <1>1, <1>4, CoveringKept DEF Press!LoadInvoice
<1>5. ASSUME NEW p \in Handlers, NEW op, Press!Finish(p, op), UNCHANGED <<invoice, received>> PROVE PressInv'
  BY <1>1, <1>5, CoveringKept DEF Press!Finish, Press!Idle
<1>6. ASSUME NEW p \in Handlers, Press!CustomerLoad(p) \/ Press!Abort(p) PROVE PressInv'
  BY <1>1, <1>6, CoveringKept DEF Press!CustomerLoad, Press!Abort, Press!Idle
<1>7. ASSUME NEW p \in Handlers, NEW o \in Orders, NEW n \in Press!Amounts, Press!CreateOrder(p, o, n)
      PROVE  PressInv'
  BY <1>1, <1>7, CoveringKept DEF Press!CreateOrder
<1>8. ASSUME NEW p \in Handlers, NEW i \in Invoices, NEW n \in Press!Amounts, NEW d \in Press!Amounts,
             Press!InvoiceCommit(p, i, n, d)
      PROVE  PressInv'
  <2>1. /\ h' = [h EXCEPT ![p] = Press!Idle] /\ received' = received
        /\ \A j \in Invoices : j # i => invoice'[j] = invoice[j]
        /\ invoice'[i].due = invoice'[i].total - invoice'[i].deposit
    BY <1>1, <1>8, NewInvoice
  <2>2. ASSUME NEW j \in Invoices
        PROVE  invoice'[j].due >= invoice'[j].total - invoice'[j].deposit - received'[j]
    <3>1. /\ invoice[j].due >= invoice[j].total - invoice[j].deposit - received[j]
          /\ received'[j] \in Nat /\ invoice'[j].total \in Int /\ invoice'[j].deposit \in Int
      BY <1>1 DEF PressInv, Press!DueCoversRest, PressTyped, PressInvoices
    <3> QED BY <2>1, <3>1
  <2>3. ASSUME NEW q \in Handlers PROVE h'[q].op = "none"
    BY <1>1, <2>1 DEF OneHandler, Press!Idle
  <2> QED BY <1>1, <2>2, <2>3 DEF PressInv, Press!DueCoversRest
<1>9. ASSUME NEW p \in Handlers,
             \/ \E n \in Press!Amounts : \/ Press!DepositCommit(p, n) \/ Press!PayPart(p, n)
                                         \/ Press!PayAll(p, n)
             \/ \E s \in {"pending", "deposit_paid", "partial", "paid", "overdue"} : Press!SetStatus(p, s)
      PROVE  PressInv'
  BY <1>1, <1>9, RowSteps, RowCovers
<1>10. ASSUME NEW p \in Handlers,
              \/ \E n \in Press!Amounts : Press!UpdateCommit(p, n)
              \/ \E s \in Press!OrderStatus : Press!StatusCommit(p, s)
              \/ Press!ApproveCommit(p) \/ Press!CompleteCommit(p)
       PROVE  PressInv'
  BY <1>5, <1>10 DEF Press!UpdateCommit, Press!StatusCommit, Press!ApproveCommit, Press!CompleteCommit
<1>11. ASSUME NEW p \in Handlers, NEW o \in Orders,
              \/ Press!UpdateLoad(p, o) \/ Press!StatusLoad(p, o) \/ Press!ApproveLoad(p, o)
              \/ Press!CompleteLoad(p, o) \/ Press!InvoiceLoad(p, o)
       PROVE  PressInv'
  BY <1>3, <1>11 DEF Press!UpdateLoad, Press!StatusLoad, Press!ApproveLoad, Press!CompleteLoad,
                     Press!InvoiceLoad
<1>12. ASSUME NEW p \in Handlers, NEW i \in Invoices, Press!DepositLoad(p, i) \/ Press!PaymentLoad(p, i)
       PROVE  PressInv'
  BY <1>4, <1>12 DEF Press!DepositLoad, Press!PaymentLoad
<1> QED BY <1>2, <1>6, <1>7, <1>8, <1>9, <1>10, <1>11, <1>12 DEF Press!Next

LEMMA PressShows == PressTyped => Press!TypeOK
BY DEF PressTyped, PressOrders, PressInvoices, PressSums, PressRequests, Press!TypeOK,
       Press!OrderRows, Press!InvoiceRows, Press!Sums, Press!HandlerStates, Press!Amounts

(* isotto_router.py: every column of an order, an invoice and the customer's totals holds what it
   may, however requests interleave. *)
THEOREM PressTypedHolds == ASSUME Press!PrintShopAssumption PROVE Press!Spec => []Press!TypeOK
<1>1. Press!Init => PressTyped
  BY PressBegins
<1>2. PressTyped /\ [Press!Next]_(Press!vars) => PressTyped'
  BY PressStays
<1> QED BY <1>1, <1>2, PressShows, PTL DEF Press!Spec

(* One request at a time: no sequence of payments and changed deposits lets an invoice ask for
   less than what is still missing.  (record_payment, update_invoice, create_invoice.) *)
THEOREM DueCoversRestHolds ==
    ASSUME Press!PrintShopAssumption, OneHandler PROVE Press!Spec => []Press!DueCoversRest
<1>1. Press!Init => PressInv
  BY PressInvBegins
<1>2. PressInv /\ [Press!Next]_(Press!vars) => PressInv'
  BY PressInvStays
<1>3. PressInv => Press!DueCoversRest
  BY DEF PressInv
<1> QED BY <1>1, <1>2, <1>3, PTL DEF Press!Spec
-----------------------------------------------------------------------------
(***************************************************************************)
(* The sheet of a day.  Every row of a sale keeps what was kept of it, and *)
(* as long as nothing was given back in part the columns of the sale are   *)
(* what its lines say (Entered, Whole): all that a report states is then a *)
(* sum over parts of one and the same finite set of sales, or of lines.    *)
(***************************************************************************)
Sheets == INSTANCE DaySheet WITH Baskets <- Filled

LEMMA SameFinite == \A S : Sheets!IsFiniteSet(S) <=> IsFiniteSet(S)
BY DEF IsFiniteSet, Sheets!IsFiniteSet

LEMMA SheetBounds ==
    ASSUME Sheets!DaySheetAssumption
    PROVE  /\ IsFiniteSet(Sales) /\ IsFiniteSet(Methods) /\ IsFiniteSet(Buttons)
           /\ IsFiniteSet(DOMAIN Category) /\ LastTick \in Nat /\ TicksPerDay \in Nat \ {0}
           /\ Ahead \in Nat /\ "cash" \in Methods /\ Step \in Nat
           /\ Standard \in Nat /\ Reduced \in Nat /\ Standard # Reduced
           /\ NoProduct \notin DOMAIN Category /\ NoCode \notin Buttons
           /\ \A off \in Discounts : off \in Nat /\ off <= 10000
           /\ \A n \in Refunds : n \in Nat
           /\ \A cart \in Filled : IsFiniteSet(DOMAIN cart)
           /\ \A cart \in Filled : \A i \in DOMAIN cart : Sheets!WellLine(cart[i])
<1>1. /\ LastTick \in Nat /\ TicksPerDay \in Nat \ {0} /\ "cash" \in Methods /\ Step \in Nat
      /\ Refunds \subseteq Nat /\ Standard # Reduced
      /\ NoProduct \notin DOMAIN Category /\ NoCode \notin Buttons
  BY SMT DEF Sheets!DaySheetAssumption
<1>2. /\ Sheets!IsFiniteSet(Sales) /\ Sheets!IsFiniteSet(Methods) /\ Sheets!IsFiniteSet(Buttons)
      /\ Sheets!IsFiniteSet(DOMAIN Category)
  BY SMT DEF Sheets!DaySheetAssumption
<1>3. \A cart \in Filled : Sheets!WellBasket(cart)
  BY SMT DEF Sheets!DaySheetAssumption
<1>4. Standard \in Nat /\ Reduced \in Nat
  BY SMT DEF Sheets!DaySheetAssumption
<1>5. Ahead \in Nat
  BY SMT DEF Sheets!DaySheetAssumption
<1>6. Discounts \subseteq 0 .. 10000
  BY SMT DEF Sheets!DaySheetAssumption
<1>7. \A off \in Discounts : off \in Nat /\ off <= 10000
  BY <1>6, SMT
<1>8. ASSUME NEW cart \in Filled
      PROVE  /\ IsFiniteSet(DOMAIN cart)
             /\ \A i \in DOMAIN cart : Sheets!WellLine(cart[i])
  BY <1>3, SameFinite, Zenon DEF Sheets!WellBasket
<1>9. \A n \in Refunds : n \in Nat
  BY <1>1
<1> QED BY <1>1, <1>2, <1>4, <1>5, <1>7, <1>8, <1>9, SameFinite

LEMMA Quotient ==
    ASSUME NEW n \in Nat, NEW d \in Nat \ {0}
    PROVE  /\ n \div d \in Nat /\ d * (n \div d) <= n /\ n < d * (n \div d) + d
OBVIOUS

(* Half up is within half of what is divided. *)
LEMMA Halves ==
    ASSUME NEW n \in Nat, NEW d \in Nat \ {0}
    PROVE  /\ Sheets!HalfUp(n, d) \in Nat
           /\ 2 * (d * Sheets!HalfUp(n, d)) <= 2 * n + d
           /\ 2 * n < 2 * (d * Sheets!HalfUp(n, d)) + d
<1>1. PICK w : w = (2 * n + d) \div (2 * d)
  OBVIOUS
<1>2. w \in Nat /\ (2 * d) * w <= 2 * n + d /\ 2 * n + d < (2 * d) * w + 2 * d
  <2>1. 2 * n + d \in Nat /\ 2 * d \in Nat \ {0}
    OBVIOUS
  <2> QED BY <1>1, <2>1, Quotient
<1>3. (2 * d) * w = 2 * (d * w)
  BY <1>2
<1> QED BY <1>1, <1>2, <1>3 DEF Sheets!HalfUp

LEMMA Below == ASSUME NEW a \in Int, NEW b \in Int, NEW d \in Nat \ {0}, d * a < d * b + d PROVE a <= b
<1>1. CASE a >= b + 1
  <2>1. d * a >= d * (b + 1)
    BY <1>1
  <2>2. d * (b + 1) = d * b + d
    OBVIOUS
  <2> QED BY <2>1, <2>2
<1> QED BY <1>1

LEMMA HalvesWithin ==
    ASSUME NEW n \in Nat, NEW d \in Nat \ {0}, NEW m \in Nat, n <= d * m
    PROVE  Sheets!HalfUp(n, d) <= m
<1>1. PICK w : w = Sheets!HalfUp(n, d)
  OBVIOUS
<1>2. w \in Nat /\ 2 * (d * w) <= 2 * n + d
  BY <1>1, Halves
<1>3. d * w \in Int /\ d * m \in Int
  BY <1>2
<1>4. d * w < d * m + d
  BY <1>2, <1>3
<1> QED BY <1>1, <1>2, <1>4, Below

(* Two shares of a total, each half up, are the total to one cent. *)
LEMMA SharesMeet ==
    ASSUME NEW a \in Nat, NEW b \in Nat, a + b # 0, NEW t \in Nat
    PROVE  LET sum == Sheets!HalfUp(a * t, a + b) + Sheets!HalfUp(b * t, a + b)
           IN sum \in Nat /\ sum <= t + 1 /\ t <= sum + 1
<1>1. PICK d, g, w : d = a + b /\ g = Sheets!HalfUp(a * t, d) /\ w = Sheets!HalfUp(b * t, d)
  OBVIOUS
<1>2. d \in Nat \ {0} /\ a * t \in Nat /\ b * t \in Nat /\ a * t + b * t = d * t /\ d * t \in Nat
  BY <1>1
<1>3. /\ g \in Nat /\ 2 * (d * g) <= 2 * (a * t) + d /\ 2 * (a * t) < 2 * (d * g) + d
      /\ w \in Nat /\ 2 * (d * w) <= 2 * (b * t) + d /\ 2 * (b * t) < 2 * (d * w) + d
  BY <1>1, <1>2, Halves
<1>4. d * g \in Nat /\ d * w \in Nat
  BY <1>2, <1>3
<1>5. d * g + d * w = d * (g + w) /\ d * (t + 1) = d * t + d /\ d * (g + w + 1) = d * g + d * w + d
  BY <1>2, <1>3
<1>6. d * (g + w) < d * (t + 1) + d /\ d * t < d * (g + w + 1)  + d
  BY <1>2, <1>3, <1>4, <1>5
<1>7. g + w <= t + 1 /\ t <= g + w + 1
  <2>1. g + w \in Int /\ t + 1 \in Int /\ g + w + 1 \in Int
    BY <1>3
  <2> QED BY <1>2, <1>6, <2>1, Below
<1> QED BY <1>1, <1>3, <1>7

LEMMA DayWindow ==
    ASSUME Sheets!DaySheetAssumption, NEW t \in Nat, NEW from \in Int, NEW to \in Int
    PROVE  /\ Sheets!ShopDay(t) \in Nat
           /\ t \in Sheets!Window(from, to) <=> Sheets!ShopDay(t) \in from .. to
<1>1. PICK n, d, q : n = t + Ahead /\ d = TicksPerDay /\ q = n \div d
  OBVIOUS
<1>2. d \in Nat \ {0} /\ Ahead \in Nat /\ n \in Nat
  BY <1>1, SheetBounds
<1>3. q \in Nat /\ d * q <= n /\ n < d * q + d
  BY <1>1, <1>2, Quotient
<1>4. from <= q <=> from * d <= n
  <2>1. ASSUME from <= q PROVE from * d <= n
    <3>1. d * from <= d * q /\ from * d = d * from
      BY <1>2, <1>3, <2>1
    <3> QED BY <1>2, <1>3, <3>1
  <2>2. ASSUME from * d <= n PROVE from <= q
    <3>1. from * d = d * from /\ d * from < d * q + d
      BY <1>2, <1>3, <2>2
    <3> QED BY <1>2, <1>3, <3>1, Below
  <2> QED BY <2>1, <2>2
<1>5. q <= to <=> n < (to + 1) * d
  <2>1. ASSUME q <= to PROVE n < (to + 1) * d
    <3>1. d * q <= d * to /\ (to + 1) * d = d * to + d
      BY <1>2, <1>3, <2>1
    <3> QED BY <1>2, <1>3, <3>1
  <2>2. ASSUME n < (to + 1) * d PROVE q <= to
    <3>1. (to + 1) * d = d * to + d /\ d * q < d * to + d
      BY <1>2, <1>3, <2>2
    <3> QED BY <1>2, <1>3, <3>1, Below
  <2> QED BY <2>1, <2>2
<1>6. from * d \in Int /\ (to + 1) * d \in Int
  BY <1>2
<1>7. t \in from * d - Ahead .. (to + 1) * d - Ahead - 1 <=> from * d <= n /\ n < (to + 1) * d
  <2>1. PICK lo, hi : lo = from * d /\ hi = (to + 1) * d
    OBVIOUS
  <2>2. lo \in Int /\ hi \in Int
    BY <1>6, <2>1
  <2>3. t \in lo - Ahead .. hi - Ahead - 1 <=> lo <= n /\ n < hi
    BY <1>1, <1>2, <2>2
  <2> QED BY <2>1, <2>3
<1> QED BY <1>1, <1>3, <1>4, <1>5, <1>7 DEF Sheets!ShopDay, Sheets!Window

VatRows == UNION {[DOMAIN cart -> Nat] : cart \in Filled}
RungRows == [status : {"completed", "refunded"}, at : Nat, method : Methods, lines : Filled,
             vats : VatRows, subtotal : Nat, total : Nat, adj : Int, tax : Nat, whole : BOOLEAN]

(* As long as nothing was given back in part, the columns of a sale are what its cart says. *)
Whole(r) ==
    /\ r.subtotal = Sheets!SumFunction([i \in DOMAIN r.lines |-> r.lines[i].total])
    /\ \A i \in DOMAIN r.lines : r.vats[i] = Sheets!VatIn(r.lines, i, r.total, r.subtotal)
    /\ r.tax = Sheets!SumFunction(r.vats)
    /\ r.subtotal = 0 => r.total = 0

Entered(r, k, t) ==
    /\ r \in RungRows /\ r.at <= t
    /\ r.vats \in [DOMAIN r.lines -> Nat]
    /\ \A i \in DOMAIN r.lines : r.lines[i].treat => r.vats[i] = 0
    /\ k \in Nat /\ k = IF r.status = "completed" THEN r.total ELSE 0
    /\ r.whole => Whole(r)

SheetInv ==
    /\ now \in 0 .. LastTick
    /\ DOMAIN rung = Sales /\ kept \in [Sales -> Nat]
    /\ \A s \in Sales : \/ rung[s] = Sheets!NoSale /\ kept[s] = 0
                        \/ Entered(rung[s], kept[s], now)

LEMMA SheetBegins == Sheets!DaySheetAssumption /\ Sheets!Init => SheetInv
BY DEF Sheets!DaySheetAssumption, Sheets!Init, SheetInv

LEMMA SheetSums ==
    /\ \A f, S : Sheets!SumFunctionOnSet(f, S) = SumFunctionOnSet(f, S)
    /\ \A f : Sheets!SumFunction(f) = SumFunctionOnSet(f, DOMAIN f)
<1>1. ASSUME NEW f, NEW S PROVE Sheets!SumFunctionOnSet(f, S) = SumFunctionOnSet(f, S)
  BY DEF SumFunctionOnSet, FoldFunctionOnSet, MapThenFoldSet, Sheets!SumFunctionOnSet,
         Sheets!FoldFunctionOnSet, Sheets!MapThenFoldSet
<1> QED BY <1>1 DEF Sheets!SumFunction

(* What a rate contains is less than the money. *)
LEMMA VatTyped ==
    ASSUME NEW n \in Nat, NEW d \in Nat \ {0}, NEW r \in Nat
    PROVE  /\ Sheets!ContainedVat(n, d, r) \in Nat
           /\ Sheets!ContainedVat(n, 1, r) <= n
           /\ Sheets!ContainedVat(0, d, r) = 0
<1>1. n * r \in Nat /\ d * (1000 + r) \in Nat \ {0} /\ 1000 + r \in Nat \ {0}
  OBVIOUS
<1>2. Sheets!HalfUp(n * r, d * (1000 + r)) \in Nat
  BY <1>1, Halves
<1>3. Sheets!HalfUp(n * r, 1000 + r) <= n
  <2>1. n * r <= (1000 + r) * n
    OBVIOUS
  <2> QED BY <1>1, <2>1, HalvesWithin
<1>4. Sheets!HalfUp(0, d * (1000 + r)) = 0
  <2>1. PICK e : e = d * (1000 + r)
    OBVIOUS
  <2>2. Sheets!HalfUp(0, e) \in Nat /\ Sheets!HalfUp(0, e) <= 0
    BY <1>1, <2>1, Halves, HalvesWithin
  <2> QED BY <2>1, <2>2
<1>5. 1 * (1000 + r) = 1000 + r /\ 0 * r = 0
  OBVIOUS
<1> QED BY <1>2, <1>3, <1>4, <1>5 DEF Sheets!ContainedVat

LEMMA VatLess ==
    ASSUME NEW n \in Nat, NEW r \in Nat
    PROVE  Sheets!ContainedVat(n, 1, r) \in Nat /\ Sheets!ContainedVat(n, 1, r) <= n
<1>1. 1 \in Nat \ {0}
  OBVIOUS
<1> QED BY <1>1, VatTyped

LEMMA VatInTyped ==
    ASSUME Sheets!DaySheetAssumption, NEW cart \in Filled, NEW i \in DOMAIN cart,
           NEW total \in Nat, NEW sub \in Nat
    PROVE  /\ Sheets!VatIn(cart, i, total, sub) \in Nat
           /\ cart[i].treat => Sheets!VatIn(cart, i, total, sub) = 0
<1>1. /\ cart[i].total \in Nat /\ cart[i].rate \in Nat
      /\ cart[i].treat => cart[i].total = 0
  <2>1. Sheets!WellLine(cart[i])
    BY SheetBounds
  <2>2. PICK l : l = cart[i]
    OBVIOUS
  <2>3. {l.total, l.rate, l.cost, l.qty} \subseteq Nat /\ (l.treat => l.total = 0)
    BY <2>1, <2>2 DEF Sheets!WellLine
  <2>4. l.total \in Nat /\ l.rate \in Nat
    BY <2>3
  <2> QED BY <2>2, <2>3, <2>4
<1>2. cart[i].total * total \in Nat /\ (cart[i].total = 0 => cart[i].total * total = 0)
  BY <1>1
<1>3. CASE sub > 0
  <2>1. PICK n, d, r : n = cart[i].total * total /\ d = sub /\ r = cart[i].rate
    OBVIOUS
  <2>2. n \in Nat /\ d \in Nat \ {0} /\ r \in Nat /\ (cart[i].treat => n = 0)
    BY <1>1, <1>2, <1>3, <2>1
  <2>3. Sheets!ContainedVat(n, d, r) \in Nat /\ Sheets!ContainedVat(0, d, r) = 0
    BY <2>2, VatTyped
  <2>4. Sheets!VatIn(cart, i, total, sub) = Sheets!ContainedVat(n, d, r)
    BY <1>3, <2>1 DEF Sheets!VatIn
  <2> QED BY <2>2, <2>3, <2>4
<1>4. CASE ~(sub > 0)
  BY <1>1, <1>4, VatTyped DEF Sheets!VatIn
<1> QED BY <1>3, <1>4

LEMMA RoundTyped ==
    ASSUME Step \in Nat, NEW n \in Nat
    PROVE  /\ Sheets!RoundTotal(n, Step, "nearest") \in Nat
           /\ n = 0 => Sheets!RoundTotal(n, Step, "nearest") = 0
<1>1. CASE Step = 0
  BY <1>1 DEF Sheets!RoundTotal
<1>2. CASE Step # 0
  <2>1. Sheets!HalfUp(n, Step) \in Nat
    BY <1>2, Halves
  <2>2. n = 0 => Sheets!HalfUp(n, Step) = 0
    <3>1. n = 0 => Sheets!HalfUp(n, Step) <= 0
      BY <1>2, HalvesWithin
    <3> QED BY <2>1, <3>1
  <2>3. Sheets!HalfUp(n, Step) * Step \in Nat /\ (n = 0 => Sheets!HalfUp(n, Step) * Step = 0)
    BY <2>1, <2>2
  <2> QED BY <1>2, <2>3 DEF Sheets!RoundTotal
<1> QED BY <1>1, <1>2

LEMMA LineTyped ==
    ASSUME Sheets!DaySheetAssumption, NEW cart \in Filled, NEW i \in DOMAIN cart
    PROVE  /\ IsFiniteSet(DOMAIN cart)
           /\ cart[i].total \in Nat /\ cart[i].cost * cart[i].qty \in Nat
           /\ cart[i].treat \in BOOLEAN /\ (cart[i].treat => cart[i].total = 0)
           /\ cart[i].product \in DOMAIN Category \cup {NoProduct}
<1>1. Sheets!WellLine(cart[i]) /\ IsFiniteSet(DOMAIN cart)
  BY SheetBounds
<1>2. PICK l : l = cart[i]
  OBVIOUS
<1>3. /\ {l.total, l.rate, l.cost, l.qty} \subseteq Nat /\ (l.treat => l.total = 0)
      /\ l.treat \in BOOLEAN /\ l.product \in DOMAIN Category \cup {NoProduct}
  BY <1>1, <1>2 DEF Sheets!WellLine
<1>4. l.total \in Nat /\ l.cost \in Nat /\ l.qty \in Nat
  BY <1>3
<1>5. l.cost * l.qty \in Nat
  BY <1>4
<1> QED BY <1>1, <1>2, <1>3, <1>4, <1>5

VatsIn(cart, total, sub) == [i \in DOMAIN cart |-> Sheets!VatIn(cart, i, total, sub)]

Untaxed(cart, vats) ==
    /\ vats \in [DOMAIN cart -> Nat]
    /\ \A i \in DOMAIN cart : cart[i].treat => vats[i] = 0

LEMMA VatsTyped ==
    ASSUME Sheets!DaySheetAssumption, NEW cart \in Filled, NEW total \in Nat, NEW sub \in Nat
    PROVE  Untaxed(cart, VatsIn(cart, total, sub))
<1>1. ASSUME NEW i \in DOMAIN cart
      PROVE  /\ Sheets!VatIn(cart, i, total, sub) \in Nat
             /\ cart[i].treat => Sheets!VatIn(cart, i, total, sub) = 0
  BY VatInTyped
<1> QED BY <1>1 DEF VatsIn, Untaxed

LEMMA SaleRung ==
    ASSUME Sheets!DaySheetAssumption, now \in Nat,
           NEW cart \in Filled, NEW off \in Discounts, NEW method \in Methods,
           NEW sub, sub = Sheets!SumFunction([i \in DOMAIN cart |-> cart[i].total]),
           NEW bill, bill = sub - Sheets!HalfUp(sub * off, 10000),
           NEW total, total = IF method = "cash" THEN Sheets!RoundTotal(bill, Step, "nearest") ELSE bill,
           NEW vats, vats = [i \in DOMAIN cart |-> Sheets!VatIn(cart, i, total, sub)],
           NEW tax, tax = Sheets!SumFunction(vats),
           NEW r, r = [status |-> "completed", at |-> now, method |-> method, lines |-> cart,
                       vats |-> vats, subtotal |-> sub, total |-> total, adj |-> total - bill,
                       tax |-> tax, whole |-> TRUE]
    PROVE  Entered(r, total, now)
<1>1. IsFiniteSet(DOMAIN cart)
  BY SheetBounds
<1>2. sub \in Nat
  <2> DEFINE f == [i \in DOMAIN cart |-> cart[i].total]
  <2>1. DOMAIN f = DOMAIN cart /\ \A i \in DOMAIN f : f[i] \in Nat
    BY LineTyped
  <2>2. sub = SumFunctionOnSet(f, DOMAIN f)
    BY SheetSums
  <2> HIDE DEF f
  <2> QED BY <1>1, <2>1, <2>2, SumNat
<1>3. bill \in Nat /\ (sub = 0 => bill = 0)
  <2>1. off \in Nat /\ off <= 10000
    BY SheetBounds
  <2>2. sub * off \in Nat /\ sub * off <= 10000 * sub
    BY <1>2, <2>1
  <2>3. Sheets!HalfUp(sub * off, 10000) \in Nat /\ Sheets!HalfUp(sub * off, 10000) <= sub
    BY <1>2, <2>2, Halves, HalvesWithin
  <2> QED BY <1>2, <2>3
<1>4. total \in Nat /\ (sub = 0 => total = 0)
  BY <1>3, RoundTyped, SheetBounds
<1>5. /\ vats \in [DOMAIN cart -> Nat]
      /\ \A i \in DOMAIN cart : cart[i].treat => vats[i] = 0
  <2>1. vats = VatsIn(cart, total, sub)
    BY DEF VatsIn
  <2>2. Untaxed(cart, VatsIn(cart, total, sub))
    BY <1>2, <1>4, VatsTyped
  <2> QED BY <2>1, <2>2 DEF Untaxed
<1>6. tax \in Nat
  <2>1. tax = SumFunctionOnSet(vats, DOMAIN vats)
    BY SheetSums
  <2> QED BY <1>1, <1>5, <2>1, SumNat
<1>7. vats \in VatRows
  BY <1>5 DEF VatRows
<1>8. r \in RungRows
  BY <1>2, <1>3, <1>4, <1>6, <1>7 DEF RungRows
<1>9. Whole(r)
  BY <1>4, <1>5 DEF Whole
<1> QED BY <1>4, <1>5, <1>8, <1>9 DEF Entered

LEMMA SaleReversed ==
    ASSUME Sheets!DaySheetAssumption, now \in Nat, NEW s \in Sales, NEW k,
           Entered(rung[s], k, now), rung[s].status = "completed",
           NEW n \in Nat, n <= rung[s].total, n = 0 => rung[s].total = 0
    PROVE  Entered(Sheets!Reversed(s, n), k - n, now)
<1>1. PICK r : r = rung[s]
  OBVIOUS
<1>2. r \in RungRows /\ k = r.total /\ r.total \in Nat /\ r.status = "completed"
  BY <1>1 DEF Entered, RungRows
<1>3. CASE n \in 1 .. r.total - 1
  <2>1. PICK net, tax : net = r.total - n /\ tax = Sheets!ContainedVat(net, 1, Standard)
    OBVIOUS
  <2>2. PICK q : q = [r EXCEPT !.total = net, !.tax = tax, !.subtotal = net - tax, !.whole = FALSE]
    OBVIOUS
  <2>3. Sheets!Reversed(s, n) = q
    BY <1>1, <1>3, <2>1, <2>2 DEF Sheets!Reversed
  <2>4. net \in Nat /\ tax \in Nat /\ net - tax \in Nat
    <3>1. net \in Nat /\ Standard \in Nat
      BY <1>2, <1>3, <2>1, SheetBounds
    <3>2. tax \in Nat /\ tax <= net
      <4>1. Sheets!ContainedVat(net, 1, Standard) \in Nat /\ Sheets!ContainedVat(net, 1, Standard) <= net
        BY <3>1, VatLess
      <4> QED BY <2>1, <4>1
    <3> QED BY <3>1, <3>2
  <2>5. /\ q \in RungRows /\ q.at = r.at /\ q.vats = r.vats /\ q.lines = r.lines
        /\ q.status = "completed" /\ q.total = net /\ q.whole = FALSE
    BY <1>2, <2>2, <2>4 DEF RungRows
  <2>6. k - n = net
    BY <1>2, <2>1
  <2> QED BY <1>1, <2>3, <2>5, <2>6 DEF Entered
<1>4. CASE n \notin 1 .. r.total - 1
  <2>1. PICK q : q = [r EXCEPT !.status = "refunded"]
    OBVIOUS
  <2>2. Sheets!Reversed(s, n) = q
    BY <1>1, <1>4, <2>1 DEF Sheets!Reversed
  <2>3. /\ q \in RungRows /\ q.at = r.at /\ q.vats = r.vats /\ q.lines = r.lines /\ q.whole = r.whole
        /\ q.status = "refunded" /\ q.total = r.total /\ q.subtotal = r.subtotal /\ q.tax = r.tax
    BY <1>2, <2>1 DEF RungRows
  <2>4. k - n = 0
    BY <1>1, <1>2, <1>4
  <2>5. Whole(r) => Whole(q)
    BY <2>3 DEF Whole
  <2> QED BY <1>1, <2>2, <2>3, <2>4, <2>5 DEF Entered
<1> QED BY <1>3, <1>4

LEMMA SheetStays ==
    ASSUME Sheets!DaySheetAssumption, SheetInv, [Sheets!Next]_(Sheets!vars)
    PROVE  SheetInv'
<1>1. now \in Nat /\ LastTick \in Nat
  BY SheetBounds DEF SheetInv
<1>2. ASSUME Sheets!Tick PROVE SheetInv'
  <2>1. now' \in 0 .. LastTick /\ now <= now' /\ rung' = rung /\ kept' = kept
    BY <1>1, <1>2 DEF Sheets!Tick, SheetInv
  <2>2. ASSUME NEW r, NEW k, Entered(r, k, now) PROVE Entered(r, k, now')
    <3>1. r.at \in Nat
      BY <2>2 DEF Entered, RungRows
    <3> QED BY <1>1, <2>1, <2>2, <3>1 DEF Entered
  <2> QED BY <2>1, <2>2 DEF SheetInv
<1>3. ASSUME NEW s \in Sales, NEW r, NEW k, Entered(r, k, now),
             now' = now, rung' = [rung EXCEPT ![s] = r], kept' = [kept EXCEPT ![s] = k]
      PROVE  SheetInv'
  <2>1. k \in Nat
    BY <1>3, Zenon DEF Entered
  <2>2. /\ kept' \in [Sales -> Nat] /\ DOMAIN rung' = Sales /\ now' \in 0 .. LastTick
        /\ rung'[s] = r /\ kept'[s] = k
        /\ \A t \in Sales \ {s} : rung'[t] = rung[t] /\ kept'[t] = kept[t]
    BY <1>3, <2>1 DEF SheetInv
  <2>3. ASSUME NEW t \in Sales
        PROVE  (rung'[t] = Sheets!NoSale /\ kept'[t] = 0) \/ Entered(rung'[t], kept'[t], now')
    <3>1. CASE t = s
      BY <1>3, <2>2, <3>1
    <3>2. CASE t # s
      BY <1>3, <2>2, <3>2 DEF SheetInv
    <3> QED BY <3>1, <3>2
  <2> QED BY <2>2, <2>3 DEF SheetInv
<1>4. ASSUME NEW s \in Sales, NEW cart \in Filled, NEW off \in Discounts, NEW method \in Methods,
             Sheets!Ring(s, cart, off, method)
      PROVE  SheetInv'
  <2> DEFINE sub == Sheets!SumFunction([i \in DOMAIN cart |-> cart[i].total])
             bill == sub - Sheets!HalfUp(sub * off, 10000)
             total == IF method = "cash" THEN Sheets!RoundTotal(bill, Step, "nearest") ELSE bill
             vats == [i \in DOMAIN cart |-> Sheets!VatIn(cart, i, total, sub)]
             tax == Sheets!SumFunction(vats)
             r == [status |-> "completed", at |-> now, method |-> method, lines |-> cart,
                   vats |-> vats, subtotal |-> sub, total |-> total, adj |-> total - bill,
                   tax |-> tax, whole |-> TRUE]
  <2>7. now' = now /\ rung' = [rung EXCEPT ![s] = r] /\ kept' = [kept EXCEPT ![s] = total]
    BY <1>4 DEF Sheets!Ring
  <2>8. Entered(r, total, now)
    BY <1>1, SaleRung
  <2> HIDE DEF r, tax, vats, total, bill, sub
  <2> QED BY <1>3, <2>7, <2>8
<1>5. ASSUME NEW s \in Sales, NEW asked \in Refunds, Sheets!Refund(s, asked) PROVE SheetInv'
  <2>1. PICK n : n = IF asked = 0 THEN rung[s].total ELSE asked
    OBVIOUS
  <2>2. /\ rung[s].status = "completed" /\ asked <= rung[s].total /\ now' = now
        /\ rung' = [rung EXCEPT ![s] = Sheets!Reversed(s, n)] /\ kept' = [kept EXCEPT ![s] = kept[s] - n]
    BY <1>5, <2>1 DEF Sheets!Refund
  <2>3. Entered(rung[s], kept[s], now)
    <3>1. rung[s] # Sheets!NoSale
      BY <2>2 DEF Sheets!NoSale
    <3> QED BY <3>1 DEF SheetInv
  <2>4. n \in Nat /\ n <= rung[s].total /\ (n = 0 => rung[s].total = 0)
    <3>1. rung[s].total \in Nat /\ asked \in Nat
      BY <2>3, SheetBounds DEF Entered, RungRows
    <3> QED BY <2>1, <2>2, <3>1
  <2>5. Entered(Sheets!Reversed(s, n), kept[s] - n, now)
    BY <1>1, <2>2, <2>3, <2>4, SaleReversed
  <2> QED BY <1>3, <2>2, <2>5
<1>6. CASE UNCHANGED Sheets!vars
  BY <1>6 DEF Sheets!vars, SheetInv
<1> QED BY <1>2, <1>4, <1>5, <1>6 DEF Sheets!Next

LEMMA SheetMost ==
    /\ \A a, b \in Int : Sheets!Max({a, b}) = IF a >= b THEN a ELSE b
    /\ \A n \in Int : Sheets!AtLeast0(n) = IF n >= 0 THEN n ELSE 0
<1>1. ASSUME NEW a \in Int, NEW b \in Int PROVE Sheets!Max({a, b}) = IF a >= b THEN a ELSE b
  <2>1. PICK m : m = (IF a >= b THEN a ELSE b)
    OBVIOUS
  <2>2. m \in {a, b} /\ (\A y \in {a, b} : m >= y) /\ m \in Int
    BY <2>1
  <2>3. \A z \in {a, b} : (\A y \in {a, b} : z >= y) => z = m
    BY <2>2
  <2> QED BY <2>1, <2>2, <2>3 DEF Sheets!Max
<1> QED BY <1>1 DEF Sheets!AtLeast0

(* The sales a report is about, by day. *)
LEMMA SheetRows ==
    ASSUME Sheets!DaySheetAssumption, SheetInv, NEW from \in Int, NEW to \in Int
    PROVE  /\ IsFiniteSet(Sheets!Reported(from, to)) /\ Sheets!Reported(from, to) \subseteq Sales
           /\ \A s \in Sales : s \in Sheets!Reported(from, to) <=>
                 rung[s].status = "completed" /\ Sheets!ShopDay(rung[s].at) \in from .. to
           /\ \A s \in Sheets!Reported(from, to) :
                 /\ rung[s].status = "completed" /\ Entered(rung[s], kept[s], now)
                 /\ kept[s] = rung[s].total /\ Sheets!ShopDay(rung[s].at) \in Nat
<1>1. ASSUME NEW s \in Sales, rung[s].status = "completed"
      PROVE  /\ Entered(rung[s], kept[s], now) /\ kept[s] = rung[s].total
             /\ Sheets!ShopDay(rung[s].at) \in Nat
             /\ rung[s].at \in Sheets!Window(from, to) <=> Sheets!ShopDay(rung[s].at) \in from .. to
  <2>1. Entered(rung[s], kept[s], now)
    <3>1. rung[s] # Sheets!NoSale
      BY <1>1 DEF Sheets!NoSale
    <3> QED BY <3>1 DEF SheetInv
  <2>2. kept[s] = rung[s].total /\ rung[s].at \in Nat
    BY <1>1, <2>1 DEF Entered, RungRows
  <2> QED BY <2>1, <2>2, DayWindow
<1>2. IsFiniteSet(Sales)
  BY SheetBounds
<1>3. Sheets!Reported(from, to) \subseteq Sales
  BY DEF Sheets!Reported
<1> QED BY <1>1, <1>2, <1>3, FS_Subset DEF Sheets!Reported

LEMMA SheetOf == \A d : Sheets!Sheet(d) = Sheets!Reported(d, d)
BY DEF Sheets!Sheet

LEMMA ReceiptTyped ==
    ASSUME NEW s, Entered(rung[s], kept[s], now)
    PROVE  /\ rung[s].total \in Nat /\ rung[s].tax \in Nat /\ rung[s].adj \in Int
           /\ rung[s].subtotal \in Nat /\ rung[s].method \in Methods /\ rung[s].lines \in Filled
           /\ rung[s].at \in Nat /\ rung[s].at <= now /\ rung[s].status \in {"completed", "refunded"}
           /\ rung[s].vats \in [DOMAIN rung[s].lines -> Nat]
           /\ \A i \in DOMAIN rung[s].lines : rung[s].lines[i].treat => rung[s].vats[i] = 0
BY DEF Entered, RungRows

(* The sheet states what was kept. *)
LEMMA KeptStated ==
    ASSUME Sheets!DaySheetAssumption, SheetInv, NEW d \in Nat
    PROVE  Sheets!TotalSales(d) =
              Sheets!SumFunctionOnSet(kept, {s \in Sales : rung[s] # Sheets!NoSale /\ Sheets!ShopDay(rung[s].at) = d})
<1> DEFINE A == Sheets!Sheet(d)
           T == {s \in Sales : rung[s] # Sheets!NoSale /\ Sheets!ShopDay(rung[s].at) = d}
           total == [s \in A |-> rung[s].total]
<1>1. /\ IsFiniteSet(A) /\ A \subseteq Sales
      /\ \A s \in Sales : s \in A <=> rung[s].status = "completed" /\ Sheets!ShopDay(rung[s].at) \in d .. d
      /\ \A s \in A : rung[s].status = "completed" /\ kept[s] = rung[s].total /\ rung[s].total \in Nat
                      /\ Sheets!ShopDay(rung[s].at) \in Nat
  BY SheetRows, SheetOf, ReceiptTyped
<1>2. A \subseteq T
  <2>1. ASSUME NEW s \in A PROVE s \in T
    <3>1. rung[s].status = "completed" /\ Sheets!ShopDay(rung[s].at) \in d .. d /\ Sheets!ShopDay(rung[s].at) \in Nat /\ s \in Sales
      BY <1>1
    <3>2. rung[s] # Sheets!NoSale
      BY <3>1 DEF Sheets!NoSale
    <3> QED BY <3>1, <3>2
  <2> QED BY <2>1
<1>3. IsFiniteSet(T) /\ IsFiniteSet(T \ A)
  BY SheetBounds, FS_Subset
<1>4. \A s \in T \ A : kept[s] = 0
  <2>1. ASSUME NEW s \in T \ A PROVE kept[s] = 0
    <3>1. s \in Sales /\ rung[s] # Sheets!NoSale /\ Sheets!ShopDay(rung[s].at) = d
      OBVIOUS
    <3>2. rung[s].status # "completed"
      BY <1>1, <3>1
    <3>3. Entered(rung[s], kept[s], now)
      BY <3>1 DEF SheetInv
    <3> QED BY <3>2, <3>3 DEF Entered
  <2> QED BY <2>1
<1> HIDE DEF A, T
<1>5. SumFunctionOnSet(kept, T \ A) = 0
  BY <1>3, <1>4, SumZero
<1>6. SumFunctionOnSet(kept, T) = SumFunctionOnSet(kept, A) + SumFunctionOnSet(kept, T \ A)
  <2>1. A \cup (T \ A) = T /\ A \cap (T \ A) = {} /\ \A s \in A \cup (T \ A) : kept[s] \in Int
    BY <1>1, <1>2, <1>4
  <2>2. SumFunctionOnSet(kept, A \cup (T \ A)) = SumFunctionOnSet(kept, A) + SumFunctionOnSet(kept, T \ A)
    BY <1>1, <1>3, <2>1, SumUnion
  <2> QED BY <2>1, <2>2
<1>7. SumFunctionOnSet(kept, A) = SumFunctionOnSet(total, A)
  BY <1>1, SumSame
<1>8. Sheets!TotalSales(d) = SumFunctionOnSet(total, A)
  <2>1. Sheets!TotalSales(d) = Sheets!SumFunction(total)
    BY DEF Sheets!TotalSales, A
  <2> QED BY <2>1, SheetSums
<1>9. SumFunctionOnSet(kept, A) \in Int
  BY <1>1, SumType
<1> QED BY <1>5, <1>6, <1>7, <1>8, <1>9, SheetSums DEF T

TotalOn(d) == [s \in Sheets!Sheet(d) |-> rung[s].total]
PaidBy(d, m) == {s \in Sheets!Sheet(d) : rung[s].method = m}
ByMethod(d) == [m \in Methods |-> Sheets!MethodTotal(d, m)]

LEMMA SheetTyped ==
    ASSUME Sheets!DaySheetAssumption, SheetInv, NEW d \in Nat
    PROVE  /\ IsFiniteSet(Sheets!Sheet(d)) /\ Sheets!Sheet(d) \subseteq Sales
           /\ \A s \in Sheets!Sheet(d) :
                 /\ rung[s].total \in Nat /\ rung[s].tax \in Nat /\ rung[s].adj \in Int
                 /\ rung[s].method \in Methods
           /\ Sheets!TotalSales(d) = SumFunctionOnSet(TotalOn(d), Sheets!Sheet(d))
           /\ Sheets!TotalSales(d) \in Nat /\ Sheets!RoundingTotal(d) \in Int
<1> DEFINE A == Sheets!Sheet(d)
           adj == [s \in A |-> rung[s].adj]
<1>1. /\ IsFiniteSet(A) /\ A \subseteq Sales
      /\ \A s \in A : /\ rung[s].total \in Nat /\ rung[s].tax \in Nat /\ rung[s].adj \in Int
                      /\ rung[s].method \in Methods
  BY SheetRows, SheetOf, ReceiptTyped
<1>2. DOMAIN TotalOn(d) = A /\ \A s \in A : TotalOn(d)[s] \in Nat
  BY <1>1 DEF TotalOn
<1>3. Sheets!TotalSales(d) = SumFunctionOnSet(TotalOn(d), A)
  BY <1>2, SheetSums DEF Sheets!TotalSales, TotalOn
<1>4. SumFunctionOnSet(TotalOn(d), A) \in Nat
  BY <1>1, <1>2, SumNat
<1>5. Sheets!RoundingTotal(d) = SumFunctionOnSet(adj, A)
  <2>1. Sheets!RoundingTotal(d) = Sheets!SumFunction(adj)
    BY DEF Sheets!RoundingTotal
  <2> QED BY <2>1, SheetSums
<1>6. SumFunctionOnSet(adj, A) \in Int
  <2>1. \A s \in A : adj[s] \in Int
    BY <1>1
  <2> HIDE DEF adj, A
  <2> QED BY <1>1, <2>1, SumType
<1> QED BY <1>1, <1>3, <1>4, <1>5, <1>6

(* What was taken is what was taken by each method. *)
LEMMA MethodsAddUp ==
    ASSUME Sheets!DaySheetAssumption, SheetInv, NEW d \in Nat
    PROVE  /\ \A m \in Methods : Sheets!MethodTotal(d, m) \in Nat
           /\ Sheets!TotalSales(d) = SumFunctionOnSet(ByMethod(d), Methods)
<1> DEFINE A == Sheets!Sheet(d)
           f == TotalOn(d)
           part == [m \in Methods |-> PaidBy(d, m)]
           g == ByMethod(d)
<1>1. /\ IsFiniteSet(A) /\ \A s \in A : f[s] \in Nat /\ rung[s].method \in Methods
  BY SheetTyped DEF TotalOn
<1>2. IsFiniteSet(Methods)
  BY SheetBounds
<1>3. ASSUME NEW m \in Methods
      PROVE  /\ g[m] = SumFunctionOnSet(f, part[m]) /\ g[m] = Sheets!MethodTotal(d, m)
             /\ SumFunctionOnSet(f, part[m]) \in Nat
  <2> DEFINE P == PaidBy(d, m)
             e == [s \in P |-> rung[s].total]
  <2>1. P \subseteq A /\ IsFiniteSet(P) /\ (\A s \in P : e[s] = f[s] /\ f[s] \in Nat) /\ part[m] = P
    BY <1>1, FS_Subset DEF PaidBy, TotalOn
  <2>2. g[m] = SumFunctionOnSet(e, P)
    <3>1. g[m] = Sheets!SumFunction(e)
      BY DEF ByMethod, Sheets!MethodTotal, PaidBy
    <3> QED BY <3>1, SheetSums
  <2>3. SumFunctionOnSet(e, P) = SumFunctionOnSet(f, P)
    <3> HIDE DEF e, P, f
    <3> QED BY <2>1, SumSame
  <2>4. SumFunctionOnSet(f, P) \in Nat
    <3> HIDE DEF P, f
    <3> QED BY <2>1, SumNat
  <2> HIDE DEF e, P, f, part
  <2> QED BY <2>1, <2>2, <2>3, <2>4 DEF ByMethod
<1>4. part \in [Methods -> SUBSET A] /\ (\A j, k \in Methods : j # k => part[j] \cap part[k] = {})
  BY DEF PaidBy
<1>5. \A s \in A : \E m \in Methods : s \in part[m]
  BY <1>1 DEF PaidBy
<1> HIDE DEF part, f, g, A
<1>6. SumFunctionOnSet(f, A) = SumFunctionOnSet(g, Methods)
  <2>1. (\A s \in A : f[s] \in Int) /\ \A m \in Methods : g[m] = SumFunctionOnSet(f, part[m])
    BY <1>1, <1>3
  <2> QED BY <1>1, <1>2, <1>4, <1>5, <2>1, SumParts
<1> QED BY <1>3, <1>6, SheetTyped DEF f, g, A

(* The file states the takings less the treats, the rounding named once. *)
LEMMA FileStated ==
    ASSUME Sheets!DaySheetAssumption, SheetInv, NEW d \in Nat, Sheets!GiveawayCost(d) \in Int,
           Sheets!MethodTotal(d, "cash") >= Sheets!RoundingTotal(d)
    PROVE  Sheets!CsvIncome(d) - Sheets!CsvExpenses(d) = Sheets!TotalSales(d) - Sheets!GiveawayCost(d)
<1> DEFINE g == ByMethod(d)
           w == [m \in Methods |-> Sheets!AtLeast0(Sheets!CsvLine(d, m))]
<1>1. PICK R, G, T : R = Sheets!RoundingTotal(d) /\ G = Sheets!GiveawayCost(d) /\ T = Sheets!TotalSales(d)
  OBVIOUS
<1>2. R \in Int /\ G \in Int /\ T \in Nat /\ "cash" \in Methods /\ IsFiniteSet(Methods)
  BY <1>1, SheetTyped, SheetBounds
<1>3. (\A m \in Methods : g[m] \in Nat /\ g[m] = Sheets!MethodTotal(d, m)) /\ T = SumFunctionOnSet(g, Methods)
  BY <1>1, MethodsAddUp DEF ByMethod
<1>4. \A m \in Methods : w[m] \in Int /\ w[m] = IF m = "cash" THEN g["cash"] - R ELSE g[m]
  <2>1. ASSUME NEW m \in Methods PROVE w[m] \in Int /\ w[m] = IF m = "cash" THEN g["cash"] - R ELSE g[m]
    <3>1. PICK c : c = Sheets!CsvLine(d, m)
      OBVIOUS
    <3>2. c = g[m] - (IF m = "cash" THEN R ELSE 0)
      BY <1>1, <1>3, <3>1 DEF Sheets!CsvLine
    <3>3. c \in Int /\ c >= 0
      BY <1>1, <1>2, <1>3, <3>2
    <3>4. Sheets!AtLeast0(c) = c
      BY <3>3, SheetMost
    <3>5. w[m] = c
      BY <3>1, <3>4
    <3>6. CASE m = "cash"
      BY <3>2, <3>3, <3>5, <3>6
    <3>7. CASE m # "cash"
      <4>1. c = g[m]
        BY <1>3, <3>2, <3>7
      <4> QED BY <3>3, <3>5, <3>7, <4>1
    <3> QED BY <3>6, <3>7
  <2> QED BY <2>1
<1>5. Sheets!CsvIncome(d) = SumFunctionOnSet(w, Methods) + Sheets!AtLeast0(R)
  <2>1. Sheets!CsvIncome(d) = Sheets!SumFunction(w) + Sheets!AtLeast0(R)
    BY <1>1 DEF Sheets!CsvIncome
  <2> QED BY <2>1, SheetSums
<1>6. Sheets!CsvExpenses(d) = Sheets!AtLeast0(-R) + G
  BY <1>1 DEF Sheets!CsvExpenses
<1> HIDE DEF g, w
<1>7. SumFunctionOnSet(w, Methods) = (SumFunctionOnSet(g, Methods) - g["cash"]) + w["cash"]
  <2>1. /\ \A m \in Methods : g[m] \in Int /\ w[m] \in Int
        /\ \A m \in Methods \ {"cash"} : w[m] = g[m]
    BY <1>3, <1>4
  <2> QED BY <1>2, <2>1, SumChange
<1>8. w["cash"] = g["cash"] - R /\ g["cash"] \in Int
  BY <1>2, <1>3, <1>4
<1>9. Sheets!AtLeast0(R) - Sheets!AtLeast0(-R) = R /\ Sheets!AtLeast0(R) \in Int /\ Sheets!AtLeast0(-R) \in Int
  <2>1. -R \in Int
    BY <1>2
  <2> QED BY <1>2, <2>1, SheetMost
<1>10. SumFunctionOnSet(w, Methods) = T - R
  BY <1>2, <1>3, <1>7, <1>8
<1> QED BY <1>1, <1>2, <1>5, <1>6, <1>9, <1>10

LEMMA SheetCount == \A S : Sheets!Cardinality(S) = Cardinality(S)
BY DEF Cardinality, Sheets!Cardinality

(* The two streams of a sale are its cart. *)
LEMMA StreamsMeet ==
    ASSUME Sheets!DaySheetAssumption, NEW s, NEW cart, cart = rung[s].lines, cart \in Filled,
           NEW f, \A i \in DOMAIN cart : f[i] \in Nat
    PROVE  SumFunctionOnSet(f, DOMAIN cart) =
              SumFunctionOnSet(f, Sheets!InStream(s, Standard)) + SumFunctionOnSet(f, Sheets!InStream(s, Reduced))
<1>1. PICK A, B : A = Sheets!InStream(s, Standard) /\ B = Sheets!InStream(s, Reduced)
  OBVIOUS
<1>2. IsFiniteSet(DOMAIN cart) /\ Standard # Reduced
  BY SheetBounds
<1>3. A \cup B = DOMAIN cart /\ A \cap B = {}
  BY <1>1, <1>2 DEF Sheets!InStream
<1>4. IsFiniteSet(A) /\ IsFiniteSet(B)
  BY <1>2, <1>3, FS_Subset
<1>5. \A i \in A \cup B : f[i] \in Int
  BY <1>3
<1> QED BY <1>1, <1>3, <1>4, <1>5, SumUnion

(* A stream sums a function of the cart. *)
LEMMA StreamSums ==
    ASSUME Sheets!DaySheetAssumption, NEW s, NEW r, rung[s].lines \in Filled,
           NEW f, \A i \in DOMAIN rung[s].lines : f[i] \in Nat,
           NEW g, DOMAIN g = Sheets!InStream(s, r), \A i \in Sheets!InStream(s, r) : g[i] = f[i]
    PROVE  /\ Sheets!SumFunction(g) = SumFunctionOnSet(f, Sheets!InStream(s, r))
           /\ SumFunctionOnSet(f, Sheets!InStream(s, r)) \in Nat
<1>1. PICK A : A = Sheets!InStream(s, r)
  OBVIOUS
<1>2. A \subseteq DOMAIN rung[s].lines
  BY <1>1 DEF Sheets!InStream
<1>3. IsFiniteSet(A)
  BY <1>2, SheetBounds, FS_Subset
<1>4. SumFunctionOnSet(g, A) = SumFunctionOnSet(f, A)
  BY <1>1, <1>3, SumSame
<1>5. \A i \in A : f[i] \in Nat
  BY <1>2
<1>6. SumFunctionOnSet(f, A) \in Nat
  BY <1>3, <1>5, SumNat
<1> QED BY <1>1, <1>4, <1>6, SheetSums

(* The VAT of the streams of a whole sale is the VAT on its receipt. *)
LEMMA StreamVats ==
    ASSUME Sheets!DaySheetAssumption, NEW s, Entered(rung[s], kept[s], now), rung[s].whole
    PROVE  /\ Sheets!StreamVat(s, Standard) \in Nat /\ Sheets!StreamVat(s, Reduced) \in Nat
           /\ rung[s].tax = Sheets!StreamVat(s, Standard) + Sheets!StreamVat(s, Reduced)
<1>1. PICK cart, vats : cart = rung[s].lines /\ vats = rung[s].vats
  OBVIOUS
<1>2. /\ cart \in Filled /\ vats \in [DOMAIN cart -> Nat] /\ Whole(rung[s])
      /\ \A i \in DOMAIN cart : vats[i] \in Nat
  BY <1>1, ReceiptTyped DEF Entered
<1>3. ASSUME NEW r PROVE /\ Sheets!StreamVat(s, r) = SumFunctionOnSet(vats, Sheets!InStream(s, r))
                         /\ Sheets!StreamVat(s, r) \in Nat
  <2> DEFINE g == [i \in Sheets!InStream(s, r) |-> Sheets!VatIn(rung[s].lines, i, rung[s].total, rung[s].subtotal)]
  <2>1. Sheets!StreamVat(s, r) = Sheets!SumFunction(g)
    BY DEF Sheets!StreamVat
  <2>2. DOMAIN g = Sheets!InStream(s, r) /\ Sheets!InStream(s, r) \subseteq DOMAIN cart
    BY <1>1 DEF Sheets!InStream
  <2>3. \A i \in Sheets!InStream(s, r) : g[i] = vats[i]
    BY <1>1, <1>2, <2>2 DEF Whole
  <2> HIDE DEF g
  <2> QED BY <1>1, <1>2, <2>1, <2>2, <2>3, StreamSums
<1>4. rung[s].tax = SumFunctionOnSet(vats, DOMAIN cart)
  BY <1>1, <1>2, SheetSums DEF Whole
<1> QED BY <1>1, <1>2, <1>3, <1>4, StreamsMeet

(* The turnover of the streams of a whole sale is what was paid, to one cent. *)
LEMMA StreamTurnovers ==
    ASSUME Sheets!DaySheetAssumption, NEW s, Entered(rung[s], kept[s], now), rung[s].whole
    PROVE  /\ Sheets!StreamTurnover(s, Standard) \in Nat /\ Sheets!StreamTurnover(s, Reduced) \in Nat
           /\ LET both == Sheets!StreamTurnover(s, Standard) + Sheets!StreamTurnover(s, Reduced)
              IN both <= rung[s].total + 1 /\ rung[s].total <= both + 1
<1>1. PICK cart, f : cart = rung[s].lines /\ f = [i \in DOMAIN cart |-> cart[i].total]
  OBVIOUS
<1>2. /\ cart \in Filled /\ Whole(rung[s]) /\ rung[s].total \in Nat /\ rung[s].subtotal \in Nat
  BY <1>1, ReceiptTyped DEF Entered
<1>3. \A i \in DOMAIN cart : f[i] \in Nat
  BY <1>1, <1>2, LineTyped
<1>4. PICK a, b, t : /\ a = SumFunctionOnSet(f, Sheets!InStream(s, Standard))
                     /\ b = SumFunctionOnSet(f, Sheets!InStream(s, Reduced)) /\ t = rung[s].total
  OBVIOUS
<1>5. ASSUME NEW r
      PROVE  LET n == SumFunctionOnSet(f, Sheets!InStream(s, r))
             IN /\ n \in Nat
                /\ Sheets!StreamTurnover(s, r) =
                      IF rung[s].subtotal > 0 THEN Sheets!HalfUp(n * t, rung[s].subtotal) ELSE n
  <2> DEFINE g == [i \in Sheets!InStream(s, r) |-> rung[s].lines[i].total]
  <2>1. DOMAIN g = Sheets!InStream(s, r) /\ \A i \in Sheets!InStream(s, r) : g[i] = f[i]
    BY <1>1 DEF Sheets!InStream
  <2>2. /\ Sheets!SumFunction(g) = SumFunctionOnSet(f, Sheets!InStream(s, r))
        /\ SumFunctionOnSet(f, Sheets!InStream(s, r)) \in Nat
    <3> HIDE DEF g
    <3> QED BY <1>1, <1>2, <1>3, <2>1, StreamSums
  <2> QED BY <1>4, <2>2 DEF Sheets!StreamTurnover
<1>6. a \in Nat /\ b \in Nat
  BY <1>4, <1>5
<1>7. rung[s].subtotal = a + b
  <2>1. rung[s].subtotal = SumFunctionOnSet(f, DOMAIN f)
    BY <1>1, <1>2, SheetSums DEF Whole
  <2>2. DOMAIN f = DOMAIN cart
    BY <1>1
  <2> QED BY <1>1, <1>2, <1>3, <1>4, <2>1, <2>2, StreamsMeet
<1>8. CASE a + b = 0
  <2>1. rung[s].subtotal = 0 => rung[s].total = 0
    BY <1>2, Zenon DEF Whole
  <2>3. t = 0 /\ a = 0 /\ b = 0
    BY <1>4, <1>6, <1>7, <1>8, <2>1
  <2>2. Sheets!StreamTurnover(s, Standard) = a /\ Sheets!StreamTurnover(s, Reduced) = b
    BY <1>4, <1>5, <1>7, <1>8
  <2> QED BY <1>4, <2>2, <2>3
<1>9. CASE a + b # 0
  <2>1. a + b \in Nat \ {0} /\ a * t \in Nat /\ b * t \in Nat /\ t \in Nat
    BY <1>2, <1>4, <1>6, <1>9
  <2>2. PICK g, w : g = Sheets!HalfUp(a * t, a + b) /\ w = Sheets!HalfUp(b * t, a + b)
    OBVIOUS
  <2>3. Sheets!StreamTurnover(s, Standard) = g /\ Sheets!StreamTurnover(s, Reduced) = w
    BY <1>4, <1>5, <1>7, <2>1, <2>2
  <2>4. g \in Nat /\ w \in Nat
    BY <2>1, <2>2, Halves
  <2>5. g + w <= t + 1 /\ t <= g + w + 1
    BY <1>6, <1>9, <2>1, <2>2, SharesMeet
  <2> QED BY <1>4, <2>3, <2>4, <2>5
<1> QED BY <1>6, <1>8, <1>9

(* The sheet of a day on which nothing was given back in part. *)
LEMMA StreamsStated ==
    ASSUME Sheets!DaySheetAssumption, SheetInv, NEW d \in Nat,
           \A s \in Sheets!Sheet(d) : rung[s].whole
    PROVE  /\ Sheets!VatOf(d, Standard) + Sheets!VatOf(d, Reduced) = Sheets!VatTotal(d)
           /\ Sheets!Apart(Sheets!Turnover(d, Standard) + Sheets!Turnover(d, Reduced), Sheets!TotalSales(d))
                 <= Sheets!Cardinality(Sheets!Sheet(d))
<1>1. PICK A : A = Sheets!Sheet(d)
  OBVIOUS
<1>2. IsFiniteSet(A) /\ \A s \in A : Entered(rung[s], kept[s], now) /\ rung[s].whole
  BY <1>1, SheetRows, SheetOf
<1> DEFINE tax == [s \in A |-> rung[s].tax]
           total == [s \in A |-> rung[s].total]
           v(r) == [s \in A |-> Sheets!StreamVat(s, r)]
           t(r) == [s \in A |-> Sheets!StreamTurnover(s, r)]
           both == [s \in A |-> Sheets!StreamTurnover(s, Standard) + Sheets!StreamTurnover(s, Reduced)]
<1>3. \A s \in A : /\ v(Standard)[s] \in Int /\ v(Reduced)[s] \in Int
                   /\ tax[s] = v(Standard)[s] + v(Reduced)[s]
  BY <1>2, StreamVats
<1>4. \A s \in A : /\ t(Standard)[s] \in Int /\ t(Reduced)[s] \in Int
                   /\ both[s] = t(Standard)[s] + t(Reduced)[s]
                   /\ both[s] \in Int /\ total[s] \in Int
                   /\ both[s] <= total[s] + 1 /\ total[s] <= both[s] + 1
  <2>1. ASSUME NEW s \in A
        PROVE  /\ t(Standard)[s] \in Int /\ t(Reduced)[s] \in Int
               /\ both[s] = t(Standard)[s] + t(Reduced)[s]
               /\ both[s] \in Int /\ total[s] \in Int
               /\ both[s] <= total[s] + 1 /\ total[s] <= both[s] + 1
    <3>1. PICK g, w, n : /\ g = Sheets!StreamTurnover(s, Standard) /\ w = Sheets!StreamTurnover(s, Reduced)
                         /\ n = rung[s].total
      OBVIOUS
    <3>2. g \in Nat /\ w \in Nat /\ n \in Nat /\ g + w <= n + 1 /\ n <= g + w + 1
      BY <1>2, <3>1, StreamTurnovers, ReceiptTyped
    <3>3. t(Standard)[s] = g /\ t(Reduced)[s] = w /\ both[s] = g + w /\ total[s] = n
      BY <3>1
    <3> HIDE DEF t, both, total
    <3> QED BY <3>2, <3>3
  <2> QED BY <2>1
<1>5. \A r : /\ Sheets!VatOf(d, r) = SumFunctionOnSet(v(r), A)
             /\ Sheets!Turnover(d, r) = SumFunctionOnSet(t(r), A)
  <2>1. \A r : Sheets!VatOf(d, r) = Sheets!SumFunction(v(r)) /\ Sheets!Turnover(d, r) = Sheets!SumFunction(t(r))
    BY <1>1 DEF Sheets!VatOf, Sheets!Turnover
  <2>2. \A r : DOMAIN v(r) = A /\ DOMAIN t(r) = A
    OBVIOUS
  <2> HIDE DEF v, t
  <2> QED BY <2>1, <2>2, SheetSums
<1>6. Sheets!VatTotal(d) = SumFunctionOnSet(tax, A) /\ Sheets!TotalSales(d) = SumFunctionOnSet(total, A)
  <2>1. Sheets!VatTotal(d) = Sheets!SumFunction(tax) /\ Sheets!TotalSales(d) = Sheets!SumFunction(total)
    BY <1>1 DEF Sheets!VatTotal, Sheets!TotalSales
  <2> QED BY <2>1, SheetSums
<1> HIDE DEF v, t, tax, total, both
<1>7. SumFunctionOnSet(tax, A) = SumFunctionOnSet(v(Standard), A) + SumFunctionOnSet(v(Reduced), A)
  BY <1>2, <1>3, SumTwo
<1>8. SumFunctionOnSet(both, A) = SumFunctionOnSet(t(Standard), A) + SumFunctionOnSet(t(Reduced), A)
  BY <1>2, <1>4, SumTwo
<1>9. /\ SumFunctionOnSet(both, A) <= SumFunctionOnSet(total, A) + Cardinality(A)
      /\ SumFunctionOnSet(total, A) <= SumFunctionOnSet(both, A) + Cardinality(A)
  BY <1>2, <1>4, SumApart
<1>10. SumFunctionOnSet(both, A) \in Int /\ SumFunctionOnSet(total, A) \in Int /\ Cardinality(A) \in Nat
  BY <1>2, <1>4, SumType, FS_CardinalityType
<1>11. Sheets!Apart(SumFunctionOnSet(both, A), SumFunctionOnSet(total, A)) <= Cardinality(A)
  <2>1. PICK m, n, k : m = SumFunctionOnSet(both, A) /\ n = SumFunctionOnSet(total, A) /\ k = Cardinality(A)
    OBVIOUS
  <2>2. /\ m \in Int /\ n \in Int /\ k \in Nat /\ m - n \in Int /\ n - m \in Int
        /\ m - n <= k /\ n - m <= k
    BY <1>9, <1>10, <2>1
  <2>3. Sheets!Max({m - n, n - m}) = IF m - n >= n - m THEN m - n ELSE n - m
    BY <2>2, SheetMost
  <2> QED BY <2>1, <2>2, <2>3 DEF Sheets!Apart
<1> QED BY <1>1, <1>5, <1>6, <1>7, <1>8, <1>11, SheetCount

Rung == {s \in Sales : rung[s] # Sheets!NoSale}
Money == [x \in Sheets!LinesOf(Rung) |-> Sheets!Line(x).total]

LEMMA LinesIn ==
    \A S : \A x : x \in Sheets!LinesOf(S) <=>
       x = <<x[1], x[2]>> /\ x[1] \in S /\ x[2] \in DOMAIN rung[x[1]].lines
<1> TAKE S
<1> TAKE x
<1>1. ASSUME x \in Sheets!LinesOf(S)
      PROVE  x = <<x[1], x[2]>> /\ x[1] \in S /\ x[2] \in DOMAIN rung[x[1]].lines
  <2>1. PICK s \in S : x \in {s} \X DOMAIN rung[s].lines
    BY <1>1 DEF Sheets!LinesOf
  <2> QED BY <2>1
<1>2. ASSUME x = <<x[1], x[2]>>, x[1] \in S, x[2] \in DOMAIN rung[x[1]].lines
      PROVE  x \in Sheets!LinesOf(S)
  <2>1. x \in {x[1]} \X DOMAIN rung[x[1]].lines
    BY <1>2
  <2> QED BY <1>2, <2>1 DEF Sheets!LinesOf
<1> QED BY <1>1, <1>2

LEMMA LinesTyped ==
    ASSUME Sheets!DaySheetAssumption, SheetInv
    PROVE  /\ IsFiniteSet(Sheets!LinesOf(Rung))
           /\ \A x \in Sheets!LinesOf(Rung) :
                 /\ Sheets!Line(x).total \in Nat /\ Sheets!Line(x).cost * Sheets!Line(x).qty \in Nat
                 /\ Sheets!Line(x).treat \in BOOLEAN
                 /\ Sheets!Line(x).product \in DOMAIN Category \cup {NoProduct}
                 /\ Money[x] = Sheets!Line(x).total
<1>1. IsFiniteSet(Rung) /\ \A s \in Rung : rung[s].lines \in Filled
  <2>1. \A s \in Rung : Entered(rung[s], kept[s], now)
    BY DEF Rung, SheetInv
  <2>2. Rung \subseteq Sales
    BY DEF Rung
  <2> QED BY <2>1, <2>2, SheetBounds, FS_Subset, ReceiptTyped
<1>2. IsFiniteSet(Sheets!LinesOf(Rung))
  <2> DEFINE I == [s \in Rung |-> DOMAIN rung[s].lines]
  <2>1. \A s \in Rung : IsFiniteSet(I[s])
    BY <1>1, SheetBounds
  <2>2. UNION {{s} \X I[s] : s \in Rung} = Sheets!LinesOf(Rung)
    BY DEF Sheets!LinesOf
  <2> HIDE DEF I
  <2> QED BY <1>1, <2>1, <2>2, PairsFinite
<1>3. ASSUME NEW x \in Sheets!LinesOf(Rung)
      PROVE  /\ Sheets!Line(x).total \in Nat /\ Sheets!Line(x).cost * Sheets!Line(x).qty \in Nat
             /\ Sheets!Line(x).treat \in BOOLEAN
             /\ Sheets!Line(x).product \in DOMAIN Category \cup {NoProduct}
  <2>1. x[1] \in Rung /\ x[2] \in DOMAIN rung[x[1]].lines
    BY <1>3, LinesIn
  <2> QED BY <1>1, <2>1, LineTyped DEF Sheets!Line
<1> QED BY <1>2, <1>3 DEF Money

(* What cart bring in. *)
LEMMA RevenueIs ==
    ASSUME Sheets!DaySheetAssumption, SheetInv, NEW X, X \subseteq Sheets!LinesOf(Rung)
    PROVE  /\ IsFiniteSet(X) /\ (\A x \in X : Money[x] \in Int)
           /\ Sheets!Revenue(X) = SumFunctionOnSet(Money, X) /\ Sheets!Revenue(X) \in Int
<1> DEFINE e == [x \in X |-> Sheets!Line(x).total]
<1>1. IsFiniteSet(X) /\ \A x \in X : Money[x] \in Int /\ e[x] = Money[x]
  BY LinesTyped, FS_Subset
<1>2. Sheets!Revenue(X) = SumFunctionOnSet(e, X)
  <2>1. Sheets!Revenue(X) = Sheets!SumFunction(e)
    BY DEF Sheets!Revenue
  <2> QED BY <2>1, SheetSums
<1> HIDE DEF e
<1>3. SumFunctionOnSet(e, X) = SumFunctionOnSet(Money, X)
  BY <1>1, SumSame
<1>4. SumFunctionOnSet(Money, X) \in Int
  BY <1>1, SumType
<1> QED BY <1>1, <1>2, <1>3, <1>4

(* What the parts of some cart bring in is what the cart bring in. *)
LEMMA RevenueParts ==
    ASSUME Sheets!DaySheetAssumption, SheetInv, NEW X, X \subseteq Sheets!LinesOf(Rung),
           NEW K, IsFiniteSet(K), NEW part \in [K -> SUBSET X],
           \A x \in X : \E k \in K : x \in part[k],
           \A j, k \in K : j # k => part[j] \cap part[k] = {},
           NEW g, \A k \in K : g[k] = Sheets!Revenue(part[k])
    PROVE  Sheets!Revenue(X) = SumFunctionOnSet(g, K)
<1>1. /\ IsFiniteSet(X) /\ (\A x \in X : Money[x] \in Int)
      /\ Sheets!Revenue(X) = SumFunctionOnSet(Money, X)
  BY RevenueIs
<1>2. \A k \in K : g[k] = SumFunctionOnSet(Money, part[k])
  BY RevenueIs
<1> QED BY <1>1, <1>2, SumParts

(* What was sold in some days. *)
LEMMA ItemsIn ==
    ASSUME Sheets!DaySheetAssumption, SheetInv, NEW from \in Int, NEW to \in Int
    PROVE  /\ Sheets!ItemsSold(from, to) \subseteq Sheets!LinesOf(Rung)
           /\ \A x \in Sheets!LinesOf(Rung) : x \in Sheets!ItemsSold(from, to) <=>
                 ~Sheets!Line(x).treat /\ x[1] \in Sheets!Reported(from, to)
<1>1. Sheets!Reported(from, to) \subseteq Rung
  <2>1. \A s \in Sheets!Reported(from, to) : s \in Sales /\ rung[s].status = "completed"
    BY SheetRows
  <2> QED BY <2>1 DEF Rung, Sheets!NoSale
<1>2. \A x : x \in Sheets!LinesOf(Sheets!Reported(from, to)) <=>
         x \in Sheets!LinesOf(Rung) /\ x[1] \in Sheets!Reported(from, to)
  BY <1>1, LinesIn
<1> QED BY <1>2 DEF Sheets!ItemsSold, Sheets!SoldOf

(* The days of a report are its parts. *)
LEMMA DaysAddUp ==
    ASSUME Sheets!DaySheetAssumption, SheetInv, NEW from \in Nat, NEW to \in Nat
    PROVE  Sheets!Revenue(Sheets!ItemsSold(from, to)) =
              Sheets!SumFunction([f \in from .. to |-> Sheets!Revenue(Sheets!ItemsSold(f, f))])
<1> DEFINE X == Sheets!ItemsSold(from, to)
           part == [f \in from .. to |-> Sheets!ItemsSold(f, f)]
           g == [f \in from .. to |-> Sheets!Revenue(Sheets!ItemsSold(f, f))]
           day(x) == Sheets!ShopDay(rung[x[1]].at)
<1>1. X \subseteq Sheets!LinesOf(Rung) /\ IsFiniteSet(from .. to)
  BY ItemsIn, FS_Interval
<1>2. ASSUME NEW x \in Sheets!LinesOf(Rung), NEW a \in Int, NEW b \in Int
      PROVE  x \in Sheets!ItemsSold(a, b) <=>
                /\ ~Sheets!Line(x).treat /\ x[1] \in Sales /\ rung[x[1]].status = "completed"
                /\ day(x) \in a .. b
  <2>1. x[1] \in Sales
    BY LinesIn DEF Rung
  <2> QED BY <2>1, ItemsIn, SheetRows
<1>3. ASSUME NEW f \in from .. to
      PROVE  part[f] \in SUBSET X /\ \A x \in X : x \in part[f] <=> day(x) = f
  <2>1. f \in Int /\ Sheets!ItemsSold(f, f) \subseteq Sheets!LinesOf(Rung)
    BY ItemsIn
  <2>2. ASSUME NEW x \in Sheets!LinesOf(Rung)
        PROVE  x \in Sheets!ItemsSold(f, f) <=> x \in X /\ day(x) = f
    <3>1. day(x) \in f .. f <=> day(x) = f
      BY <2>1
    <3>2. day(x) = f => day(x) \in from .. to
      OBVIOUS
    <3> HIDE DEF day
    <3>3. x \in Sheets!ItemsSold(f, f) <=>
             /\ ~Sheets!Line(x).treat /\ x[1] \in Sales /\ rung[x[1]].status = "completed" /\ day(x) \in f .. f
      BY <1>2, <2>1
    <3>4. x \in X <=>
             /\ ~Sheets!Line(x).treat /\ x[1] \in Sales /\ rung[x[1]].status = "completed" /\ day(x) \in from .. to
      BY <1>2
    <3> QED BY <3>1, <3>2, <3>3, <3>4
  <2> HIDE DEF X, day
  <2> QED BY <1>1, <2>1, <2>2
<1>4. ASSUME NEW x \in X PROVE day(x) \in from .. to
  BY <1>1, <1>2
<1>5. (\A f \in from .. to : g[f] = Sheets!Revenue(part[f])) /\ DOMAIN part = from .. to /\ DOMAIN g = from .. to
  OBVIOUS
<1>6. part \in [from .. to -> SUBSET X]
  <2> HIDE DEF X
  <2> QED BY <1>3
<1> HIDE DEF X, part, g, day
<1>7. Sheets!Revenue(X) = SumFunctionOnSet(g, from .. to)
  <2>1. \A x \in X : \E f \in from .. to : x \in part[f]
    BY <1>3, <1>4
  <2>2. \A j, k \in from .. to : j # k => part[j] \cap part[k] = {}
    BY <1>3
  <2> QED BY <1>1, <1>5, <1>6, <2>1, <2>2, RevenueParts
<1> QED BY <1>5, <1>7, SheetSums DEF X, g

(* Every line that was sold is in the row of its code, or has none. *)
LEMMA DepartmentsStated ==
    ASSUME Sheets!DaySheetAssumption, SheetInv, NEW d \in Nat
    PROVE  Sheets!DepartmentRevenue(d) + Sheets!Revenue(Sheets!WithCode(d, NoCode)) =
              Sheets!Revenue(Sheets!ItemsSold(d, d))
<1> DEFINE X == Sheets!ItemsSold(d, d)
           R == Sheets!DepartmentRows(d)
           codes == [x \in X |-> Sheets!Line(x).code]
           K == R \cup {NoCode}
           part == [c \in K |-> Sheets!WithCode(d, c)]
           g == [c \in K |-> Sheets!Revenue(Sheets!WithCode(d, c))]
           w == [c \in R |-> Sheets!Revenue(Sheets!WithCode(d, c))]
<1>1. X = Sheets!SoldOf(Sheets!Sheet(d))
  BY SheetOf DEF Sheets!ItemsSold
<1>2. X \subseteq Sheets!LinesOf(Rung) /\ IsFiniteSet(X)
  <2>1. X \subseteq Sheets!LinesOf(Rung)
    BY ItemsIn
  <2> QED BY <2>1, RevenueIs
<1>3. \A c : Sheets!WithCode(d, c) = {x \in X : Sheets!Line(x).code = c}
  BY <1>1 DEF Sheets!WithCode
<1>4. R = Buttons \cup ({codes[x] : x \in X} \ {NoCode})
  <2>1. {codes[x] : x \in X} = {Sheets!Line(x).code : x \in X}
    OBVIOUS
  <2>2. R = Buttons \cup ({Sheets!Line(x).code : x \in X} \ {NoCode})
    BY <1>1 DEF Sheets!DepartmentRows
  <2> QED BY <2>1, <2>2
<1>5. IsFiniteSet(R) /\ NoCode \notin R
  <2>1. IsFiniteSet({codes[x] : x \in X})
    <3> HIDE DEF codes, X
    <3> QED BY <1>2, ImageFinite
  <2>2. IsFiniteSet(Buttons) /\ NoCode \notin Buttons
    BY SheetBounds
  <2>3. IsFiniteSet({codes[x] : x \in X} \ {NoCode})
    BY <2>1, FS_Subset
  <2> HIDE DEF R, codes, X
  <2> QED BY <1>4, <2>2, <2>3, FS_Union
<1>6. \A x \in X : Sheets!Line(x).code \in K
  BY <1>4
<1>7. IsFiniteSet(K)
  BY <1>5, FS_AddElement
<1>8. /\ part \in [K -> SUBSET X] /\ \A x \in X : \E c \in K : x \in part[c]
      /\ \A b, c \in K : b # c => part[b] \cap part[c] = {}
      /\ \A c \in K : g[c] = Sheets!Revenue(part[c])
  <2> HIDE DEF X, K
  <2>1. \A c \in K : part[c] = {x \in X : Sheets!Line(x).code = c}
    BY <1>3
  <2>2. \A c \in K : g[c] = Sheets!Revenue(part[c])
    OBVIOUS
  <2>3. part \in [K -> SUBSET X]
    BY <2>1
  <2> HIDE DEF part, g
  <2> QED BY <1>6, <2>1, <2>2, <2>3
<1>9. /\ \A c \in K : g[c] \in Int
      /\ g[NoCode] = Sheets!Revenue(Sheets!WithCode(d, NoCode))
      /\ \A c \in R : w[c] = g[c]
  <2>1. ASSUME NEW c \in K PROVE g[c] \in Int
    <3>1. part[c] \subseteq Sheets!LinesOf(Rung)
      BY <1>2, <1>8
    <3>2. Sheets!Revenue(part[c]) \in Int
      BY <3>1, RevenueIs
    <3> QED BY <1>8, <3>2
  <2> QED BY <2>1
<1>10. Sheets!DepartmentRevenue(d) = SumFunctionOnSet(w, R)
  <2>1. Sheets!DepartmentRevenue(d) = Sheets!SumFunction(w)
    BY DEF Sheets!DepartmentRevenue
  <2> QED BY <2>1, SheetSums
<1>11. K = R \cup {NoCode}
  OBVIOUS
<1> HIDE DEF part, g, w, R, X, K, codes
<1>12. Sheets!Revenue(X) = SumFunctionOnSet(g, K)
  BY <1>2, <1>7, <1>8, RevenueParts
<1>13. SumFunctionOnSet(g, K) = g[NoCode] + SumFunctionOnSet(g, R)
  BY <1>5, <1>9, <1>11, SumAdd
<1>14. SumFunctionOnSet(w, R) = SumFunctionOnSet(g, R) /\ SumFunctionOnSet(g, R) \in Int /\ g[NoCode] \in Int
  <2>1. \A c \in R : g[c] \in Int
    BY <1>9, <1>11
  <2> QED BY <1>5, <1>9, <1>11, <2>1, SumSame, SumType
<1> QED BY <1>9, <1>10, <1>12, <1>13, <1>14 DEF X

(* A drill-down shows what its row states, and its products are it. *)
LEMMA DrillsStated ==
    ASSUME Sheets!DaySheetAssumption, SheetInv, NEW from \in Nat, NEW to \in Nat,
           NEW c, c # NoCategory
    PROVE  /\ Sheets!CategoryDrill(from, to, c) = Sheets!CategoryRevenue(from, to, c)
           /\ Sheets!CategoryDrill(from, to, c) =
                 Sheets!SumFunction([p \in {q \in DOMAIN Category : Category[q] = c} |->
                                        Sheets!ProductDrill(from, to, p)])
<1> DEFINE X == Sheets!ItemsSold(from, to)
           K == {q \in DOMAIN Category : Category[q] = c}
           Y == {x \in X : /\ Sheets!Line(x).product # NoProduct
                           /\ Category[Sheets!Line(x).product] = c /\ c # NoCategory}
           Z == {x \in X : Sheets!CategoryOf(Sheets!Line(x)) = c}
           sold(p) == {x \in X : Sheets!Line(x).product = p}
           part == [p \in K |-> sold(p)]
           g == [p \in K |-> Sheets!ProductDrill(from, to, p)]
<1>1. X \subseteq Sheets!LinesOf(Rung)
  BY ItemsIn
<1>2. Y = Z
  BY DEF Sheets!CategoryOf
<1>3. Sheets!CategoryDrill(from, to, c) = Sheets!Revenue(Y) /\ Sheets!CategoryRevenue(from, to, c) = Sheets!Revenue(Z)
  BY DEF Sheets!CategoryDrill, Sheets!CategoryRevenue
<1>4. \A x \in X : Sheets!Line(x).product \in DOMAIN Category \cup {NoProduct}
  <2> HIDE DEF X
  <2> QED BY <1>1, LinesTyped
<1>5. IsFiniteSet(K) /\ NoProduct \notin K
  BY SheetBounds, FS_Subset
<1>6. ASSUME NEW p \in K PROVE part[p] \in SUBSET Y /\ g[p] = Sheets!Revenue(part[p])
  <2>1. p # NoProduct /\ Category[p] = c
    BY <1>5
  <2>2. sold(p) \subseteq Y
    BY <2>1
  <2>3. Sheets!ProductDrill(from, to, p) = Sheets!Revenue(sold(p))
    BY DEF Sheets!ProductDrill
  <2> HIDE DEF sold, Y, X
  <2> QED BY <2>2, <2>3
<1>7. \A x \in Y : \E p \in K : x \in part[p]
  <2>1. ASSUME NEW x \in Y PROVE \E p \in K : x \in part[p]
    <3>1. Sheets!Line(x).product \in K /\ x \in X
      BY <1>4
    <3>2. x \in sold(Sheets!Line(x).product)
      BY <3>1
    <3> HIDE DEF sold, Y, X, K
    <3> QED BY <3>1, <3>2
  <2> QED BY <2>1
<1>8. \A j, k \in K : j # k => part[j] \cap part[k] = {}
  OBVIOUS
<1>9. part \in [K -> SUBSET Y]
  <2>1. DOMAIN part = K /\ part = [p \in DOMAIN part |-> part[p]]
    OBVIOUS
  <2> HIDE DEF part, Y, K
  <2> QED BY <1>6, <2>1
<1>10. Sheets!Revenue(Y) = SumFunctionOnSet(g, K)
  <2>1. Y \subseteq Sheets!LinesOf(Rung)
    BY <1>1
  <2> HIDE DEF part, Y, K, g
  <2> QED BY <1>5, <1>6, <1>7, <1>8, <1>9, <2>1, RevenueParts
<1>11. Sheets!SumFunction(g) = SumFunctionOnSet(g, K)
  BY SheetSums
<1> QED BY <1>2, <1>3, <1>10, <1>11

(* The VAT of the cart that were sold is that of the receipts. *)
LEMMA ItemsVatStated ==
    ASSUME Sheets!DaySheetAssumption, SheetInv, NEW d \in Nat,
           \A s \in Sheets!Sheet(d) : rung[s].whole
    PROVE  Sheets!ItemsVat(d, d) = Sheets!VatTotal(d)
<1> DEFINE A == Sheets!Sheet(d)
           X == Sheets!ItemsSold(d, d)
           L == Sheets!LinesOf(A)
           I == [s \in A |-> DOMAIN rung[s].lines]
           f == [x \in L |-> rung[x[1]].vats[x[2]]]
           e == [x \in X |-> rung[x[1]].vats[x[2]]]
           tax == [s \in A |-> rung[s].tax]
<1>1. IsFiniteSet(A) /\ \A s \in A : Entered(rung[s], kept[s], now) /\ rung[s].whole
  BY SheetRows, SheetOf
<1>2. ASSUME NEW s \in A
      PROVE  /\ I[s] = DOMAIN rung[s].lines /\ IsFiniteSet(I[s]) /\ rung[s].vats \in [I[s] -> Nat]
             /\ \A i \in I[s] : rung[s].lines[i].treat => rung[s].vats[i] = 0
             /\ rung[s].tax = SumFunctionOnSet(rung[s].vats, I[s])
  <2>1. /\ rung[s].lines \in Filled /\ rung[s].vats \in [DOMAIN rung[s].lines -> Nat]
        /\ \A i \in DOMAIN rung[s].lines : rung[s].lines[i].treat => rung[s].vats[i] = 0
    BY <1>1, ReceiptTyped
  <2>2. rung[s].tax = Sheets!SumFunction(rung[s].vats)
    BY <1>1 DEF Entered, Whole
  <2>3. rung[s].tax = SumFunctionOnSet(rung[s].vats, DOMAIN rung[s].lines)
    BY <2>1, <2>2, SheetSums
  <2> QED BY <2>1, <2>3, SheetBounds
<1>3. ASSUME NEW x \in L
      PROVE  /\ x = <<x[1], x[2]>> /\ x[1] \in A /\ x[2] \in I[x[1]]
             /\ f[x] \in Nat /\ (Sheets!Line(x).treat => f[x] = 0)
  <2>1. x = <<x[1], x[2]>> /\ x[1] \in A /\ x[2] \in DOMAIN rung[x[1]].lines
    BY <1>3, LinesIn
  <2>2. I[x[1]] = DOMAIN rung[x[1]].lines /\ f[x] = rung[x[1]].vats[x[2]]
    BY <2>1
  <2> HIDE DEF f, I, A, L
  <2> QED BY <1>2, <2>1, <2>2 DEF Sheets!Line
<1>4. X = {x \in L : ~Sheets!Line(x).treat}
  BY SheetOf DEF Sheets!ItemsSold, Sheets!SoldOf
<1>5. UNION {{s} \X I[s] : s \in A} = L
  BY DEF Sheets!LinesOf
<1>6. IsFiniteSet(L) /\ IsFiniteSet(X) /\ IsFiniteSet(L \ X)
  <2>1. IsFiniteSet(UNION {{s} \X I[s] : s \in A})
    <3> HIDE DEF I, A
    <3> QED BY <1>1, <1>2, PairsFinite
  <2>2. IsFiniteSet(L)
    BY <1>5, <2>1
  <2> HIDE DEF L, X
  <2> QED BY <1>4, <2>2, FS_Subset
<1>7. \A x \in L : x[1] \in A /\ f[x] = rung[x[1]].vats[x[2]]
  BY <1>3
<1>8. Sheets!ItemsVat(d, d) = SumFunctionOnSet(e, X) /\ Sheets!VatTotal(d) = SumFunctionOnSet(tax, A)
  <2>1. Sheets!ItemsVat(d, d) = Sheets!SumFunction(e) /\ Sheets!VatTotal(d) = Sheets!SumFunction(tax)
    BY DEF Sheets!ItemsVat, Sheets!VatTotal
  <2> QED BY <2>1, SheetSums
<1>9. \A x \in X : e[x] = f[x]
  BY <1>4
<1>10. \A s \in A : tax[s] = rung[s].tax
  OBVIOUS
<1> HIDE DEF A, X, L, I, f, e, tax
<1>11. SumFunctionOnSet(e, X) = SumFunctionOnSet(f, X)
  BY <1>6, <1>9, SumSame
<1>12. SumFunctionOnSet(f, L) = SumFunctionOnSet(f, X) + SumFunctionOnSet(f, L \ X)
  <2>1. X \cup (L \ X) = L /\ X \cap (L \ X) = {} /\ \A x \in X \cup (L \ X) : f[x] \in Int
    BY <1>3, <1>4
  <2>2. SumFunctionOnSet(f, X \cup (L \ X)) = SumFunctionOnSet(f, X) + SumFunctionOnSet(f, L \ X)
    BY <1>6, <2>1, SumUnion
  <2> QED BY <2>1, <2>2
<1>13. SumFunctionOnSet(f, L \ X) = 0
  <2>1. \A x \in L \ X : f[x] = 0
    BY <1>3, <1>4
  <2> QED BY <1>6, <2>1, SumZero
<1>14. SumFunctionOnSet(f, X) \in Int
  <2>1. \A x \in X : f[x] \in Int
    BY <1>3, <1>4
  <2> QED BY <1>6, <2>1, SumType
<1>15. SumFunctionOnSet(f, L) = SumFunctionOnSet(tax, A)
  <2> DEFINE vats == [s \in A |-> rung[s].vats]
  <2>1. \A s \in A : vats[s] = rung[s].vats
    OBVIOUS
  <2> HIDE DEF vats
  <2>2. \A s \in A : tax[s] = SumFunctionOnSet(vats[s], I[s])
    BY <1>2, <1>10, <2>1
  <2>3. /\ \A s \in A : \A i \in I[s] : vats[s][i] \in Int
        /\ \A x \in L : f[x] = vats[x[1]][x[2]]
    BY <1>2, <1>7, <2>1
  <2>4. \A s \in A : IsFiniteSet(I[s])
    BY <1>2
  <2>5. SumFunctionOnSet(f, UNION {{s} \X I[s] : s \in A}) = SumFunctionOnSet(tax, A)
    <3>1. IsFiniteSet(A)
      BY <1>1
    <3> QED BY <1>5, <3>1, <2>2, <2>3, <2>4, SumPairs
  <2> QED BY <1>5, <2>5
<1> QED BY <1>8, <1>11, <1>12, <1>13, <1>14, <1>15

(* What treats cost is an amount. *)
LEMMA TreatsTyped ==
    ASSUME Sheets!DaySheetAssumption, SheetInv, NEW d \in Nat
    PROVE  Sheets!GiveawayCost(d) \in Int
<1> DEFINE X == {y \in Sheets!LinesOf(Sheets!Sheet(d)) : Sheets!Line(y).treat}
           e == [x \in X |-> Sheets!Line(x).cost * Sheets!Line(x).qty]
<1>1. Sheets!Sheet(d) \subseteq Rung
  <2>1. \A s \in Sheets!Sheet(d) : s \in Sales /\ rung[s].status = "completed"
    BY SheetRows, SheetOf
  <2> QED BY <2>1 DEF Rung, Sheets!NoSale
<1>2. X \subseteq Sheets!LinesOf(Rung)
  BY <1>1, LinesIn
<1>3. IsFiniteSet(X) /\ \A x \in X : e[x] \in Int
  <2>1. IsFiniteSet(X)
    <3> HIDE DEF X
    <3> QED BY <1>2, LinesTyped, FS_Subset
  <2>2. ASSUME NEW x \in X PROVE e[x] \in Int
    <3>1. Sheets!Line(x).cost * Sheets!Line(x).qty \in Nat
      <4> HIDE DEF X
      <4> QED BY <1>2, LinesTyped
    <3> QED BY <3>1
  <2> QED BY <2>1, <2>2
<1>4. Sheets!GiveawayCost(d) = SumFunctionOnSet(e, X)
  <2>1. Sheets!GiveawayCost(d) = Sheets!SumFunction(e)
    BY DEF Sheets!GiveawayCost
  <2> QED BY <2>1, SheetSums
<1> HIDE DEF e, X
<1>5. SumFunctionOnSet(e, X) \in Int
  BY <1>3, SumType
<1> QED BY <1>4, <1>5

LEMMA SheetShows ==
    ASSUME Sheets!DaySheetAssumption, SheetInv
    PROVE  Sheets!TypeOK /\ Sheets!SheetAddsUp
<1>1. Sheets!TypeOK
  <2>1. ASSUME NEW s \in Sales, rung[s] # Sheets!NoSale
        PROVE  /\ rung[s].status \in {"completed", "refunded"} /\ rung[s].at \in 0 .. now
               /\ {rung[s].total, rung[s].tax, rung[s].subtotal} \subseteq Nat
    <3>1. Entered(rung[s], kept[s], now)
      BY <2>1 DEF SheetInv
    <3>2. now \in Nat
      BY SheetBounds DEF SheetInv
    <3> QED BY <3>1, <3>2, ReceiptTyped
  <2> QED BY <2>1 DEF Sheets!TypeOK, SheetInv
<1>2. ASSUME NEW d \in Sheets!Days
      PROVE  d \in Nat /\ \A e \in d .. Sheets!ShopDay(LastTick) : e \in Nat
  <2>1. 0 \in Nat /\ LastTick \in Nat
    BY SheetBounds
  <2>2. Sheets!ShopDay(0) \in Nat /\ Sheets!ShopDay(LastTick) \in Nat
    BY <2>1, DayWindow
  <2>3. d \in Nat
    BY <1>2, <2>2 DEF Sheets!Days
  <2> QED BY <2>2, <2>3
<1>3. ASSUME NEW d \in Sheets!Days PROVE Sheets!FileAddsUp(d)
  BY <1>2, KeptStated, TreatsTyped, FileStated DEF Sheets!FileAddsUp
<1>4. ASSUME NEW d \in Sheets!Days, \A s \in Sheets!Sheet(d) : rung[s].whole
      PROVE  Sheets!StreamsAddUp(d)
  BY <1>2, <1>4, StreamsStated, ItemsVatStated DEF Sheets!StreamsAddUp
<1>5. ASSUME NEW d \in Sheets!Days PROVE Sheets!DepartmentsAddUp(d)
  BY <1>2, DepartmentsStated DEF Sheets!DepartmentsAddUp
<1>6. ASSUME NEW d \in Sheets!Days, NEW e \in d .. Sheets!ShopDay(LastTick)
      PROVE  Sheets!PeriodAddsUp(d, e)
  <2>1. d \in Nat /\ e \in Nat
    BY <1>2
  <2>2. ASSUME NEW c \in {Category[p] : p \in DOMAIN Category} \ {NoCategory}
        PROVE  /\ Sheets!CategoryDrill(d, e, c) = Sheets!CategoryRevenue(d, e, c)
               /\ Sheets!CategoryDrill(d, e, c) =
                     Sheets!SumFunction([p \in {q \in DOMAIN Category : Category[q] = c} |->
                                            Sheets!ProductDrill(d, e, p)])
    <3>1. c # NoCategory
      OBVIOUS
    <3> QED BY <2>1, <3>1, DrillsStated
  <2>3. Sheets!Revenue(Sheets!ItemsSold(d, e)) =
           Sheets!SumFunction([f \in d .. e |-> Sheets!Revenue(Sheets!ItemsSold(f, f))])
    BY <2>1, DaysAddUp
  <2> QED BY <2>2, <2>3 DEF Sheets!PeriodAddsUp
<1>7. Sheets!SheetAddsUp
  BY <1>3, <1>4, <1>5, <1>6 DEF Sheets!SheetAddsUp
<1> QED BY <1>1, <1>7

(* get_daily_summary: the columns of a sale hold what they may hold, over sales that are rung,
   given back in part and reversed. *)
THEOREM SheetTypedHolds == ASSUME Sheets!DaySheetAssumption PROVE Sheets!Spec => []Sheets!TypeOK
<1>1. Sheets!Init => SheetInv
  BY SheetBegins
<1>2. SheetInv /\ [Sheets!Next]_(Sheets!vars) => SheetInv'
  BY SheetStays
<1> QED BY <1>1, <1>2, SheetShows, PTL DEF Sheets!Spec

(* get_daily_summary, get_daily_summary_csv and get_product_sales: whatever was given back, and
   when, the sheet of a day states what was kept of its sales, by method, in the file, by stream
   of VAT, by department and product, and over days. *)
THEOREM SheetAddsUpHolds == ASSUME Sheets!DaySheetAssumption PROVE Sheets!Spec => []Sheets!SheetAddsUp
<1>1. Sheets!Init => SheetInv
  BY SheetBegins
<1>2. SheetInv /\ [Sheets!Next]_(Sheets!vars) => SheetInv'
  BY SheetStays
<1> QED BY <1>1, <1>2, SheetShows, PTL DEF Sheets!Spec
-----------------------------------------------------------------------------
(***************************************************************************)
(* The invariants together, as EachDesk_proofs has them of its desks.      *)
(***************************************************************************)
LEMMA InvsBegin ==
    /\ Till!CartAssumption /\ Till!Init => TillInv /\ FilledInv
    /\ Cards!Init => TakenInv
    /\ Club!Init => ClubInv /\ BookedInv
    /\ Door!Init => DoorInv /\ CountedInv
    /\ Wages!PayrollAssumption /\ Wages!Init => WagesInv /\ WagesSoloInv
    /\ Store!SupplyAssumption /\ Store!Init => LessHeld /\ OneStore
    /\ Press!PrintShopAssumption /\ Press!Init => PressInv
    /\ Sheets!DaySheetAssumption /\ Sheets!Init => SheetInv
BY SheetBegins, TillBegins, FilledBegins, TakenInit, ClubBegins, BookedBegins, DoorBegins, CountedBegins,
   WagesStart, WagesSoloStart, LessBegins, OneStoreBegins, PressInvBegins

LEMMA InvsStay ==
    /\ Till!CartAssumption /\ TillInv /\ [Till!Next]_(Till!vars) => TillInv'
    /\ OneHandler /\ Till!CartAssumption /\ FilledInv /\ [Till!Next]_(Till!vars) => FilledInv'
    /\ TakenInv /\ [Cards!Next]_(Cards!vars) => TakenInv'
    /\ Club!MembersAssumption /\ ClubInv /\ [Club!Next]_(Club!vars) => ClubInv'
    /\ OneHandler /\ Club!MembersAssumption /\ BookedInv /\ [Club!Next]_(Club!vars) => BookedInv'
    /\ Door!ReceivingAssumption /\ DoorInv /\ [Door!Next]_(Door!vars) => DoorInv'
    /\ OneHandler /\ Door!ReceivingAssumption /\ CountedInv /\ [Door!Next]_(Door!vars) => CountedInv'
    /\ Wages!PayrollAssumption /\ WagesInv /\ [Wages!Next]_(Wages!vars) => WagesInv'
    /\ OneHandler /\ Wages!PayrollAssumption /\ WagesSoloInv /\ [Wages!Next]_(Wages!vars)
       => WagesSoloInv'
    /\ Store!SupplyAssumption /\ LessHeld /\ [Store!Next]_(Store!vars) => LessHeld'
    /\ OneHandler /\ Store!SupplyAssumption /\ OneStore /\ [Store!Next]_(Store!vars) => OneStore'
    /\ OneHandler /\ Press!PrintShopAssumption /\ PressInv /\ [Press!Next]_(Press!vars) => PressInv'
    /\ Sheets!DaySheetAssumption /\ SheetInv /\ [Sheets!Next]_(Sheets!vars) => SheetInv'
BY SheetStays, TillStays, FilledStays, TakenNext, ClubStays, BookedStays, DoorStays, CountedStays, WagesStep,
   WagesSoloStep, LessStep, OneStoreStays, PressInvStays

LEMMA InvsShow ==
    /\ Till!CartAssumption /\ TillInv => Till!NeverOvercharged
    /\ FilledInv => Till!SoldAsFilled
    /\ TakenInv => Cards!PaidOnce
    /\ ClubInv => Club!NeverBelowZero
    /\ BookedInv => Club!LedgerIsBalance
    /\ DoorInv => Door!NeverUncounted
    /\ CountedInv => Door!StockIsMoves
    /\ WagesInv => Wages!TotalsWithinPayslips /\ Wages!PaidIsOnPayslip
    /\ WagesSoloInv => Wages!PaidOnce /\ Wages!PaidAsSigned
    /\ LessHeld => Store!NeverOverstocked
    /\ OneStore => Store!StockIsBooked /\ Store!WaitingIsCovered
    /\ PressInv => Press!DueCoversRest
    /\ Sheets!DaySheetAssumption /\ SheetInv => Sheets!SheetAddsUp
BY FairShows, SheetShows, TakenOnce, ClubShows, BookedShows, DoorShows, WagesSoloShows, LessShows,
   OneStoreShows DEF TillInv, FilledInv, CountedInv, WagesInv, PressInv
=============================================================================
