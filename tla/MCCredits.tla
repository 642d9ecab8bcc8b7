------------------------------ MODULE MCCredits ------------------------------
(* Small instances of Credits.  Users and handler slots are interchangeable. *)
EXTENDS Credits, TLC

Interchangeable == Permutations(Reqs) \cup Permutations(Users)
=============================================================================
