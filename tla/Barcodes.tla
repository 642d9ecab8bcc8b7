------------------------------ MODULE Barcodes ------------------------------
(***************************************************************************)
(* The codes a product scans under: products.barcode and the aliases of    *)
(* product_barcodes (routes/pos_router.py, db/models/product_model.py).    *)
(*                                                                         *)
(* Each handler is one step.  The spellings a gun may make of a code, and  *)
(* the SKU a scan falls back to, are left out: a code is a value.  So are  *)
(* what an alias says of itself, and barcode_is_internal: a row with a     *)
(* real code may or may not be flagged.  Whether a product ever sold is    *)
(* left out too: any may be deleted for good.                              *)
(***************************************************************************)
EXTENDS Integers, FiniteSets

CONSTANTS Products, \* bound: rows of products
          Codes,    \* bound: barcodes
          Minted,   \* the ones the shop made up: 2 and twelve digits
          NoCode, NoProduct

(* What the bounds have to satisfy: Desks assumes it of its instances. *)
BarcodesAssumption == Minted \subseteq Codes /\ NoCode \notin Codes /\ NoProduct \notin Products

VARIABLES product, \* products: their state and primary code
          alias    \* product_barcodes: whose alias a code is; the code is unique

vars == <<product, alias>>

NoRow == [state |-> "none", primary |-> NoCode]
Retired == [state |-> "inactive", primary |-> NoCode]

Init == product = [p \in Products |-> NoRow] /\ alias = [c \in Codes |-> NoProduct]

Exists(p) == product[p].state # "none"

(* products.barcode is unique as well. *)
Owners(c) == {p \in Products : product[p].primary = c}
Unused(c) == c = NoCode \/ Owners(c) = {}

(* _find_product_by_any_barcode: primary codes first. *)
Scans(c) == IF Owners(c) # {} THEN CHOOSE p \in Owners(c) : TRUE ELSE alias[c]

Aliases(p) == {c \in Codes : alias[c] = p}
-----------------------------------------------------------------------------
(* create_product, quick_create_product *)
Create(p, c) ==
    /\ ~Exists(p) /\ Unused(c)
    /\ product' = [product EXCEPT ![p] = [state |-> "active", primary |-> c]]
    /\ UNCHANGED alias

(* clone_product: only a code that does not scan. *)
Clone(p, c) == c # NoCode /\ Scans(c) = NoProduct /\ Create(p, c)

(* adopt_reference_product: a code that scans is answered with its product. *)
Adopt(p, c) == Clone(p, c)

(* add_product_barcode: a code from two photos that look alike is only an alias... *)
BindGuess(p, c) ==
    /\ Exists(p) /\ Scans(c) = NoProduct
    /\ alias' = [alias EXCEPT ![c] = p]
    /\ UNCHANGED product

(* ...a scanned one the primary of a product without... *)
BindFirst(p, c) ==
    /\ Exists(p) /\ Scans(c) = NoProduct
    /\ product[p].primary = NoCode
    /\ product' = [product EXCEPT ![p].primary = c]
    /\ UNCHANGED alias

(* Mutant: the code made up goes. *)
PromoteOver(p, c) ==
    /\ Exists(p) /\ Scans(c) = NoProduct
    /\ product[p].primary # NoCode /\ c \notin Minted
    /\ product' = [product EXCEPT ![p].primary = c]
    /\ UNCHANGED alias

(* ...a real one takes the place of one that was made up, or is flagged so, which stays as
   an alias; if there is such an alias, the commit fails... *)
Promote(p, c) ==
    /\ Exists(p) /\ Scans(c) = NoProduct
    /\ product[p].primary # NoCode /\ c \notin Minted
    /\ alias[product[p].primary] = NoProduct
    /\ product' = [product EXCEPT ![p].primary = c]
    /\ alias' = [alias EXCEPT ![product[p].primary] = p]

(* ...and any other is an alias. *)
BindNext(p, c) ==
    /\ product[p].primary # NoCode
    /\ product[p].primary \notin Minted \/ c \in Minted
    /\ BindGuess(p, c)

(* import_catalog_worklist: two rows of a sheet, or one.  Every code is looked up before any is
   written; then it is the primary of a product without, or an alias.  A code on two rows
   ends as the one of one product and the other of another, or fails the commit. *)
Import(p, c, q, d) ==
    LET given(rows, x, code) == IF rows[x].primary = NoCode THEN [rows EXCEPT ![x].primary = code] ELSE rows
    IN /\ Exists(p) /\ Scans(c) = NoProduct
       /\ Exists(q) /\ Scans(d) = NoProduct
       /\ product' = given(given(product, p, c), q, d)
       /\ c = d => p = q \/ (product'[p].primary = c) # (product'[q].primary = c)
       /\ alias' = [x \in Codes |-> IF x = c /\ product'[p].primary # c THEN p
                                    ELSE IF x = d /\ product'[q].primary # d THEN q ELSE alias[x]]
-----------------------------------------------------------------------------
(* update_product: another primary code, or none. *)
Rewrite(p, c) ==
    /\ Exists(p) /\ (Unused(c) \/ product[p].primary = c)
    /\ product' = [product EXCEPT ![p].primary = c]
    /\ UNCHANGED alias

(* delete_product, update_product, bulk_delete_products: inactive, and active again. *)
SetActive(p, state) ==
    /\ Exists(p)
    /\ product' = [product EXCEPT ![p].state = state]
    /\ UNCHANGED alias

(* hard_delete_product, _purge_product_children *)
Purge(p) ==
    /\ Exists(p)
    /\ product' = [product EXCEPT ![p] = NoRow]
    /\ alias' = [c \in Codes |-> IF alias[c] = p THEN NoProduct ELSE alias[c]]

(* catalog_merge_products: all codes of the duplicate become the survivor's, the first real
   one its primary; its own stays as an alias.  A code that is there twice, as an alias of
   the same or of a third product, fails the commit. *)
Moving(retire) == (Aliases(retire) \cup {product[retire].primary}) \ {NoCode}

NewPrimaries(keep, retire) ==
    LET real == Moving(retire) \ Minted
    IN IF real = {} THEN {product[keep].primary}
       ELSE IF product[retire].primary \in real THEN {product[retire].primary}
       ELSE real

Merge(keep, retire, code) ==
    /\ keep # retire /\ Exists(keep) /\ Exists(retire)
    /\ code \in NewPrimaries(keep, retire)
    /\ \A p \in Products \ {keep, retire} : code # NoCode => product[p].primary # code
    /\ LET demoted == (Moving(retire) \cup {product[keep].primary}) \ {code, NoCode}
       IN /\ \A c \in demoted :
                IF c \in {product[keep].primary, product[retire].primary}
                THEN alias[c] = NoProduct ELSE alias[c] = retire
          /\ alias' = [c \in Codes |-> IF c \in demoted THEN keep
                                       ELSE IF alias[c] = retire THEN NoProduct ELSE alias[c]]
    /\ product' = [product EXCEPT ![keep].primary = code,
                                  ![retire] = Retired]

(* What a till or a sheet does to the codes, and what a manager does... *)
Captured ==
    \/ \E p \in Products, c \in Codes :
          \/ Clone(p, c) \/ Adopt(p, c) \/ BindGuess(p, c) \/ BindFirst(p, c) \/ Promote(p, c) \/ BindNext(p, c)
    \/ \E p, q \in Products : \/ \E c \in Codes \cup {NoCode} : Merge(p, q, c)
                              \/ \E c, d \in Codes : Import(p, c, q, d)
    \/ \E p \in Products : SetActive(p, "active") \/ SetActive(p, "inactive")

(* ...and what takes a code from a product. *)
Edited ==
    \E p \in Products : \/ \E c \in Codes \cup {NoCode} : Create(p, c) \/ Rewrite(p, c)
                        \/ Purge(p)

Next == Captured \/ Edited

Spec == Init /\ [][Next]_vars
-----------------------------------------------------------------------------
(* Every column holds what it may hold. *)
TypeOK ==
    /\ product \in [Products -> [state : {"none", "active", "inactive"}, primary : Codes \cup {NoCode}]]
    /\ \A c \in Codes : /\ Cardinality(Owners(c)) <= 1
                        /\ alias[c] # NoProduct => Exists(alias[c])

MergedInto(p, q) == product'[p] = Retired /\ \E c \in Codes \cup {NoCode} : Merge(q, p, c)

(* "scan once, known forever": whatever is bound, promoted and merged, a code that scans to
   a product goes on to, or scans to the product it was merged into.
   (_find_product_by_any_barcode, add_product_barcode, catalog_merge_products.) *)
KeepsScanning ==
    /\ \/ \A c \in Codes : \/ Scans(c) = NoProduct
                           \/ Scans(c)' = Scans(c)
                           \/ Scans(c)' # NoProduct /\ MergedInto(Scans(c), Scans(c)')
       \/ ~Captured
    /\ \A p \in Products : \/ \A c \in Codes : Scans(c)' # p
                           \/ \A q \in Products : ~MergedInto(p, q)
=============================================================================
