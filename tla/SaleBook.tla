------------------------------ MODULE SaleBook ------------------------------
(***************************************************************************)
(* What the point of sale promises about its sales, with nothing of how it *)
(* keeps the promise: every trading day has one book, an entry is only     *)
(* ever appended, an idempotency key is entered at most once in the whole  *)
(* history, and what a till is told about its key is the entry's place in  *)
(* the book.  SaleRing (the handlers of src/routes/pos_router.py) is shown *)
(* to implement this module.                                               *)
(***************************************************************************)
EXTENDS Integers, Sequences

CONSTANTS Keys,     \* idempotency keys (client_uuid) a till may draw
          Keyless,  \* the entry of a sale opened without a key
          LastDay   \* trading days are 1 .. LastDay

VARIABLES book,     \* book[d]: the entries of day d, in the order of their numbers
          answered  \* <<key, day, number>> a till was told

vars == <<book, answered>>

Days == 1 .. LastDay

Entered == UNION {{book[d][n] : n \in DOMAIN book[d]} : d \in Days}

Init == /\ book = [d \in Days |-> << >>]
        /\ answered = {}

(* A sale is rung: appended to its day's book, once per key. *)
Ring(d, k) == /\ k \in Keys => k \notin Entered
              /\ book' = [book EXCEPT ![d] = Append(@, k)]
              /\ UNCHANGED answered

(* A till is told the number of the entry that carries its key. *)
Answer(k) == \E d \in Days : \E n \in DOMAIN book[d] :
                /\ book[d][n] = k
                /\ answered' = answered \cup {<<k, d, n>>}
                /\ UNCHANGED book

Next == \/ \E d \in Days, k \in Keys \cup {Keyless} : Ring(d, k)
        \/ \E k \in Keys : Answer(k)

Spec == Init /\ [][Next]_vars
=============================================================================
