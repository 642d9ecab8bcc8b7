------------------------------ MODULE FairBrain ------------------------------
(***************************************************************************)
(* compute/fairness.py: max-min fairness over a fixed pool of brain slots. *)
(* One asyncio event loop; no code path awaits while it holds the          *)
(* condition's lock, so what a task does between two awaits is one step.   *)
(***************************************************************************)
EXTENDS Integers, FiniteSets

CONSTANTS Users,      \* owners of jobs
          Calls,      \* calls of slot(): <<owner, n>>, each used again and again
          Total,      \* LPCX_BRAIN_CAP
          MinPerUser  \* LPCX_MIN_PER_USER

ASSUME CallsAssumption == /\ Calls \subseteq Users \X Nat
                          /\ IsFiniteSet(Calls) /\ IsFiniteSet(Users)
ASSUME PoolAssumption == Total \in Nat \ {0} /\ MinPerUser \in Nat \ {0}

VARIABLE pc  \* of each call: outside slot(), asleep in cond.wait(), notified and
             \* about to look again, or running its job

Owner(c) == c[1]
In(states) == {c \in Calls : pc[c] \in states}
Inside == In({"asleep", "notified", "running"})

(* running[u] and sum(running.values()). *)
Running(u) == Cardinality({c \in In({"running"}) : Owner(c) = u})
TotalRunning == Cardinality(In({"running"}))

(* _active_users and _cap, of the calls that run or wait. *)
ActiveUsers(calls) == LET n == Cardinality({Owner(c) : c \in calls})
                      IN IF n = 0 THEN 1 ELSE n

Cap(calls) == LET share == Total \div ActiveUsers(calls)
              IN IF share < MinPerUser THEN MinPerUser ELSE share

(* Mutants: the pool's size is not checked; nor is the user's share. *)
CanRunByShare(c) == Running(Owner(c)) < Cap(Inside \cup {c})
CanRunByPool(c) == TotalRunning < Total

(* _can_run: the caller has already counted itself among the waiting. *)
CanRun(c) == /\ TotalRunning < Total
             /\ Running(Owner(c)) < Cap(Inside \cup {c})

PoolInit == pc = [c \in Calls |-> "outside"]

Look(c) == pc' = [pc EXCEPT ![c] = IF CanRun(c) THEN "running" ELSE "asleep"]

Enter(c) == /\ pc[c] = "outside"
            /\ Look(c)

Wake(c) == /\ pc[c] = "notified"
           /\ Look(c)

(* Mutants: notify() instead of notify_all(); the entry is popped for good. *)
ExitNotifiesOne(c) ==
    /\ pc[c] = "running"
    /\ \/ In({"asleep"}) = {} /\ pc' = [pc EXCEPT ![c] = "outside"]
       \/ \E x \in In({"asleep"}) : pc' = [pc EXCEPT ![c] = "outside", ![x] = "notified"]
ExitForGood(c) ==
    /\ pc[c] = "running"
    /\ pc' = [x \in Calls \ {c} |-> IF pc[x] = "asleep" THEN "notified" ELSE pc[x]]

(* The job ends, well or badly: the slot goes back and notify_all. *)
Exit(c) == /\ pc[c] = "running"
           /\ pc' = [x \in Calls |-> IF x = c THEN "outside"
                                     ELSE IF pc[x] = "asleep" THEN "notified"
                                     ELSE pc[x]]

PoolNext == \E c \in Calls : Enter(c) \/ Wake(c) \/ Exit(c)

(* The event loop runs what is ready; a job ends, each of its brain steps has
   a timeout.  Nobody has to submit a job. *)
PoolFairness == \A c \in Calls : WF_pc(Wake(c)) /\ WF_pc(Exit(c))

PoolSpec == PoolInit /\ [][PoolNext]_pc /\ PoolFairness
-----------------------------------------------------------------------------
PoolTypeOK == pc \in [Calls -> {"outside", "asleep", "notified", "running"}]

(* Never more jobs on the brain than it has slots, whatever the minimum per
   user adds up to.  (slot: the check and the increment.) *)
WithinCapacity == TotalRunning <= Total

(* No wakeup is lost: a call asleep in cond.wait() could not run if it looked.
   Nothing but the end of a job makes a waiting call runnable, so notifying
   there is enough.  (slot: cond.wait, notify_all.) *)
NoLostWakeup == \A c \in In({"asleep"}) : ~CanRun(c)

(* Somebody over the cap, because others came, gets back to it however many
   jobs they have left.  (_can_run: the cap counts the users of the moment.) *)
SharesConverge == \A u \in Users : Running(u) > Cap(Inside) ~> Running(u) <= Cap(Inside)

(* With no more users than slots, a user who waits gets a slot sooner or later,
   although freed slots go to whoever looks first and the others never stop
   submitting.  (slot, with the dynamic cap.) *)
WaitsIn(u) == \E c \in In({"asleep", "notified"}) : Owner(c) = u
NoUserStarves == \A u \in Users : WaitsIn(u) ~> Running(u) > 0
=============================================================================
