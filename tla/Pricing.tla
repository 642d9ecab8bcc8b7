------------------------------- MODULE Pricing -------------------------------
(***************************************************************************)
(* What a basket costs: quantity breaks, mix and match, VAT, coins         *)
(* (services/pricing.py, vat_resolver.py, total_rounding.py, and their     *)
(* copies on the pages of the till, templates/pos/base.html).              *)
(*                                                                         *)
(* Money is whole cents, rates are per mille.  A product is                *)
(* [id, price, tiers, mode, class], a tier [min, up]; the class is plain,  *)
(* promo (tobacco, alcohol: never discounted) or cafe.  The floats of the  *)
(* pages are taken as exact.                                               *)
(***************************************************************************)
EXTENDS Integers, Sequences, FiniteSets, FiniteSetsExt, SequencesExt

Lesser(m, n) == IF m < n THEN m ELSE n

(* n / d to the nearest whole, half up. *)
HalfUp(n, d) == (2 * n + d) \div (2 * d)

(* Adds up f over the indexes in S. *)
SumOver(f(_), S) == MapThenSumSet(f, S)
-----------------------------------------------------------------------------
Reached(tiers, q) == {t \in tiers : t.min <= q}
Top(tiers) == CHOOSE t \in tiers : \A u \in tiers : u.min <= t.min

(* _bundle_total: whole packs, the largest first, then the deal starts again. *)
BundleTotal(tiers, base, q) ==
    LET cost[n \in 0 .. q] ==
            IF Reached(tiers, n) = {} THEN base * n
            ELSE Top(Reached(tiers, n)).up + cost[n - Top(Reached(tiers, n)).min]
    IN cost[q]

(* ...and never more than without a deal. *)
Packs(tiers, base, q) == Lesser(BundleTotal(tiers, base, q), base * q)

(* A tier of a per-unit ladder above the price is read as the price of a pack, if that is
   not less than half of what the pack costs without. *)
Misread(t, base) == t.up > base
Plausible(t, base) == t.up <= base * t.min /\ 2 * t.up >= base * t.min

(* tier_unit_price times q, and whether a break of two or more set it. *)
Tiered(p, q) ==
    IF Reached(p.tiers, q) = {} THEN [total |-> p.price * q, final |-> FALSE]
    ELSE LET t == Top(Reached(p.tiers, q))
         IN CASE p.mode = "bundle" ->
                    [total |-> Packs(p.tiers, p.price, q), final |-> t.min >= 2]
              [] p.mode = "per_unit" /\ ~Misread(t, p.price) ->
                    [total |-> t.up * q, final |-> t.min >= 2]
              [] p.mode = "per_unit" /\ Misread(t, p.price) /\ Plausible(t, p.price) ->
                    [total |-> Packs(p.tiers, p.price, q), final |-> t.min >= 2]
              [] OTHER -> [total |-> p.price * q, final |-> FALSE]

Poolable(p) == p.mode = "bundle" /\ p.tiers # {}

(* pool_key: what makes two lines one deal, the terms and the price without. *)
PoolKey(p) == <<p.tiers, p.price>>

(* The lines that are priced with line i: same deal, no treats. *)
PoolOf(cart, i) ==
    IF cart[i].treat \/ ~Poolable(cart[i].product) THEN {}
    ELSE {j \in DOMAIN cart : /\ ~cart[j].treat /\ Poolable(cart[j].product)
                              /\ PoolKey(cart[j].product) = PoolKey(cart[i].product)}

Pieces(cart, S) == SumOver(LAMBDA i : cart[i].qty, S)

(* _pool_bundle_prices, cartPools: at least two lines, and a deal that saves something. *)
Pooled(cart, i) ==
    LET S == PoolOf(cart, i)
        p == cart[i].product
    IN /\ Cardinality(S) >= 2
       /\ Packs(p.tiers, p.price, Pieces(cart, S)) < p.price * Pieces(cart, S)

(* Mutant: the cents left over are dropped. *)
PooledShareWhole(cart, i) ==
    LET S == PoolOf(cart, i)
        all == Pieces(cart, S)
    IN (Packs(cart[i].product.tiers, cart[i].product.price, all) * cart[i].qty) \div all

(* allocate_pool: what line i pays of what the pool costs, in proportion to its pieces; the
   cents left over go to the largest remainders, of equal ones to the earlier line. *)
PooledShare(cart, i) ==
    LET S == PoolOf(cart, i)
        all == Pieces(cart, S)
        cost == Packs(cart[i].product.tiers, cart[i].product.price, all)
        rest(j) == (cost * cart[j].qty) % all
        left == cost - SumOver(LAMBDA j : (cost * cart[j].qty) \div all, S)
        before == {j \in S : rest(j) > rest(i) \/ (rest(j) = rest(i) /\ j < i)}
    IN (cost * cart[i].qty) \div all + (IF Cardinality(before) < left THEN 1 ELSE 0)
-----------------------------------------------------------------------------
(* contained_vat, of money / d. *)
ContainedVat(money, d, rate) == HalfUp(money * rate, d * (1000 + rate))

(* round_total: to the nearest coin, or down to one. *)
RoundTotal(total, step, mode) ==
    IF step = 0 THEN total
    ELSE IF mode = "down" THEN (total \div step) * step
    ELSE HalfUp(total, step) * step
=============================================================================
