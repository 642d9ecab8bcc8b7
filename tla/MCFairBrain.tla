----------------------------- MODULE MCFairBrain -----------------------------
(* Three users on a pool: one with enough jobs to fill it, one with two. *)
EXTENDS FairBrain

MCUsers == {"ralph", "pam", "felix"}
MCCalls == {<<"ralph", n>> : n \in 1 .. 3} \cup {<<"pam", n>> : n \in 1 .. 2}
           \cup {<<"felix", 1>>}
=============================================================================
