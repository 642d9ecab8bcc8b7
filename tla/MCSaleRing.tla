----------------------------- MODULE MCSaleRing -----------------------------
(* Small instances of SaleRing.  Handler slots and tills are interchangeable. *)
EXTENDS SaleRing, TLC

Interchangeable == Permutations(Reqs) \cup Permutations(Tills)
=============================================================================
