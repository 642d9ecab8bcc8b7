----------------------------- MODULE ComputeJobs -----------------------------
(***************************************************************************)
(* The life of a compute job: submitted by the web process, handed to the  *)
(* consumer over a durable queue (at-least-once) or pulled by a remote     *)
(* worker, executed in short database sessions, killed by a flag, settled  *)
(* in the credit ledger.                                                   *)
(*                                                                         *)
(* Every session is a step: nothing is locked between two of them.  The    *)
(* wait for a brain slot (FairBrain) lies before a task's first session    *)
(* and shows here only as the delay before Load.                           *)
(***************************************************************************)
EXTENDS Integers, FiniteSets

CONSTANTS Jobs,
          Pulled,     \* jobs for a node of LPCX_PULL_NODES; the others are queued
          Tasks,      \* slots for message handlers in the consumer
          Handlers,   \* slots for worker_next and worker_result in the web process
          Steps,      \* brain calls per job (6 in the code)
          MaxCrashes, \* bound: crashes of the consumer
          MaxDrops,   \* bound: losses of the connection to the broker
          MaxPosts    \* bound: results posted by workers
None == "none"

ASSUME JobsAssumption == Pulled \subseteq Jobs /\ None \notin Jobs
ASSUME TasksAssumption == IsFiniteSet(Tasks)
ASSUME StepsAssumption == Steps \in Nat \ {0} /\ {MaxCrashes, MaxDrops, MaxPosts} \subseteq Nat

VARIABLES status,   \* compute_jobs.status, "absent" before the insert
          kill,     \* compute_jobs.kill_requested
          message,  \* the job's message: none, unsent (committed, not yet
                    \* published), ready in the queue, or unacked at the consumer
          task,     \* the consumer's handlers
          handler,  \* the web process's handlers for remote workers
          handed,   \* pulled jobs some worker was given
          charged,  \* SPEND/EARN pairs in the ledger per job
          crashes, drops, posts,
          early     \* history: jobs whose kill was requested before they started

record == <<status, kill, charged, early>>
vars == <<record, message, task, handler, handed, crashes, drops, posts>>

NoTask == [pc |-> "idle", job |-> None, step |-> 0, owns |-> FALSE]
NoHandler == [pc |-> "idle", job |-> None, error |-> FALSE, seen |-> "absent"]

Init == /\ status = [j \in Jobs |-> "absent"]
        /\ kill = [j \in Jobs |-> FALSE]
        /\ message = [j \in Jobs |-> "none"]
        /\ task = [t \in Tasks |-> NoTask]
        /\ handler = [h \in Handlers |-> NoHandler]
        /\ handed = {}
        /\ charged = [j \in Jobs |-> 0]
        /\ crashes = 0 /\ drops = 0 /\ posts = 0
        /\ early = {}
-----------------------------------------------------------------------------
(* submit_job: the row is committed first, the message published after. *)
Submit(j) ==
    /\ status[j] = "absent"
    /\ \/ status' = [status EXCEPT ![j] = "rejected"] /\ UNCHANGED message
       \/ /\ status' = [status EXCEPT ![j] = "queued"]
          /\ message' = [message EXCEPT ![j] = IF j \in Pulled THEN "none" ELSE "unsent"]
    /\ UNCHANGED <<kill, charged, early, task, handler, handed, crashes, drops, posts>>

(* publish_job; when it raises, or the process dies, the row stays queued. *)
Publish(j) ==
    /\ message[j] = "unsent"
    /\ \E to \in {"ready", "none"} : message' = [message EXCEPT ![j] = to]
    /\ UNCHANGED <<record, task, handler, handed, crashes, drops, posts>>

(* Mutant: a queued job is killed in its row, without the flag. *)
KillQueuedDirectly(j) ==
    /\ status[j] \in {"queued", "running"}
    /\ ~kill[j]
    /\ IF status[j] = "queued"
       THEN status' = [status EXCEPT ![j] = "killed"] /\ UNCHANGED kill
       ELSE kill' = [kill EXCEPT ![j] = TRUE] /\ UNCHANGED status
    /\ early' = IF status[j] = "queued" THEN early \cup {j} ELSE early
    /\ UNCHANGED <<charged, message, task, handler, handed, crashes, drops, posts>>

(* kill_job. *)
KillJob(j) ==
    /\ status[j] \in {"queued", "running"}
    /\ ~kill[j]
    /\ kill' = [kill EXCEPT ![j] = TRUE]
    /\ early' = IF status[j] = "queued" THEN early \cup {j} ELSE early
    /\ UNCHANGED <<status, charged, message, task, handler, handed, crashes, drops, posts>>
-----------------------------------------------------------------------------
(* The consumer: one task per message, up to the prefetch. *)
Deliver(t, j) ==
    /\ message[j] = "ready"
    /\ task[t].pc = "idle"
    /\ message' = [message EXCEPT ![j] = "unacked"]
    /\ task' = [task EXCEPT ![t] = [pc |-> "load", job |-> j, step |-> 1, owns |-> TRUE]]
    /\ UNCHANGED <<record, handler, handed, crashes, drops, posts>>

Goto(t, pc) == task' = [task EXCEPT ![t].pc = pc]

(* execute_job, one step per session.  Its try encloses them all: each may raise,
   with nothing written, and leave the job to be marked as failed. *)
Raises(t, pc) ==
    /\ task[t].pc = pc
    /\ Goto(t, "fail")
    /\ UNCHANGED <<record, message, handler, handed, crashes, drops, posts>>

(* The sessions that only look. *)
Read(t, from, to) ==
    /\ task[t].pc = from
    /\ Goto(t, to)
    /\ UNCHANGED <<record, message, handler, handed, crashes, drops, posts>>

(* The sessions that only write the status: _patch(status=...). *)
Patch(t, from, new, to) ==
    /\ task[t].pc = from
    /\ status' = [status EXCEPT ![task[t].job] = new]
    /\ Goto(t, to)
    /\ UNCHANGED <<kill, charged, early, message, handler, handed, crashes, drops, posts>>

(* Mutant: what is already done is not skipped. *)
LoadUnlessKilled(t) ==
    \/ Read(t, "load", IF status[task[t].job] = "killed" THEN "ack" ELSE "begin")
    \/ Raises(t, "load")

Load(t) ==
    \/ Read(t, "load", IF status[task[t].job] \in {"done", "killed"} THEN "ack" ELSE "begin")
    \/ Raises(t, "load")

Begin(t) == Patch(t, "begin", "running", "poll") \/ Raises(t, "begin")
Poll(t) == Read(t, "poll", IF kill[task[t].job] THEN "kill" ELSE "brain") \/ Raises(t, "poll")
MarkKilled(t) == Patch(t, "kill", "killed", "ack") \/ Raises(t, "kill")

(* The handler of the exception; an outage that fails this too is left out. *)
MarkFailed(t) == Patch(t, "fail", "failed", "ack")

(* Mutant: the loop runs once too often. *)
BrainOneMore(t) ==
    /\ task[t].pc = "brain"
    /\ task' = [task EXCEPT ![t] = [task[t] EXCEPT
          !.step = @ + 1, !.pc = IF task[t].step > Steps THEN "settle" ELSE "poll"]]
    /\ UNCHANGED <<record, message, handler, handed, crashes, drops, posts>>

(* One brain call and the patch of its tokens; it may fail. *)
Brain(t) ==
    /\ task[t].pc = "brain"
    /\ \/ task' = [task EXCEPT ![t] = [task[t] EXCEPT
             !.step = @ + 1, !.pc = IF task[t].step = Steps THEN "settle" ELSE "poll"]]
       \/ Goto(t, "fail")
    /\ UNCHANGED <<record, message, handler, handed, crashes, drops, posts>>

(* DONE and the two ledger rows in one commit; it looks at nothing first. *)
Settle(t) ==
    LET j == task[t].job IN
    /\ task[t].pc = "settle"
    /\ \/ /\ status' = [status EXCEPT ![j] = "done"]
          /\ charged' = [charged EXCEPT ![j] = @ + 1]
          /\ Goto(t, "ack")
       \/ Goto(t, "fail") /\ UNCHANGED <<status, charged>>
    /\ UNCHANGED <<kill, early, message, handler, handed, crashes, drops, posts>>

(* message.process() acks after the handler, if the delivery is still valid. *)
Ack(t) ==
    /\ task[t].pc = "ack"
    /\ task' = [task EXCEPT ![t] = NoTask]
    /\ message' = IF task[t].owns THEN [message EXCEPT ![task[t].job] = "none"] ELSE message
    /\ UNCHANGED <<record, handler, handed, crashes, drops, posts>>

(* Mutant: messages are acknowledged when they are received. *)
Forgotten == [j \in Jobs |-> IF message[j] = "unacked" THEN "none" ELSE message[j]]

Requeued == [j \in Jobs |-> IF message[j] = "unacked" THEN "ready" ELSE message[j]]

(* The consumer dies: its tasks are gone, the broker redelivers. *)
Crash ==
    /\ crashes < MaxCrashes
    /\ \E t \in Tasks : task[t].pc # "idle"
    /\ crashes' = crashes + 1
    /\ task' = [t \in Tasks |-> NoTask]
    /\ message' = Requeued
    /\ UNCHANGED <<record, handler, handed, drops, posts>>

(* connect_robust reconnects: the broker redelivers, the tasks run on. *)
Drop ==
    /\ drops < MaxDrops
    /\ \E j \in Jobs : message[j] = "unacked"
    /\ drops' = drops + 1
    /\ task' = [t \in Tasks |-> [task[t] EXCEPT !.owns = FALSE]]
    /\ message' = Requeued
    /\ UNCHANGED <<record, handler, handed, crashes, posts>>
-----------------------------------------------------------------------------
(* worker_next: read a queued job of the node, then mark it running. *)
PullRead(h, j) ==
    /\ handler[h].pc = "idle"
    /\ j \in Pulled /\ status[j] = "queued"
    /\ handler' = [handler EXCEPT ![h] = [NoHandler EXCEPT !.pc = "pull", !.job = j]]
    /\ UNCHANGED <<record, message, task, handed, crashes, drops, posts>>

(* No recipe or bad inputs: failed, and the worker gets nothing. *)
PullCommit(h) ==
    LET j == handler[h].job IN
    /\ handler[h].pc = "pull"
    /\ \/ status' = [status EXCEPT ![j] = "running"] /\ handed' = handed \cup {j}
       \/ status' = [status EXCEPT ![j] = "failed"] /\ UNCHANGED handed
    /\ handler' = [handler EXCEPT ![h] = NoHandler]
    /\ UNCHANGED <<kill, charged, early, message, task, crashes, drops, posts>>

(* worker_result: a worker posts, and posts again when it got no answer. *)
PostRead(h, j, e) ==
    /\ handler[h].pc = "idle"
    /\ j \in handed
    /\ posts < MaxPosts
    /\ posts' = posts + 1
    /\ handler' = IF status[j] \in {"done", "killed"} THEN handler
                  ELSE [handler EXCEPT ![h] = [pc |-> "post", job |-> j, error |-> e,
                                               seen |-> status[j]]]
    /\ UNCHANGED <<record, message, task, handed, crashes, drops>>

(* The status is written only where it differs from the one loaded. *)
PostCommit(h) ==
    LET j == handler[h].job
        e == handler[h].error
        new == IF e THEN "failed" ELSE "done"
    IN /\ handler[h].pc = "post"
       /\ status' = IF new = handler[h].seen THEN status ELSE [status EXCEPT ![j] = new]
       /\ charged' = IF e THEN charged ELSE [charged EXCEPT ![j] = @ + 1]
       /\ handler' = [handler EXCEPT ![h] = NoHandler]
       /\ UNCHANGED <<kill, early, message, task, handed, crashes, drops, posts>>
-----------------------------------------------------------------------------
TaskStep(t) == \/ Load(t) \/ Begin(t) \/ Poll(t) \/ Brain(t) \/ Settle(t)
               \/ MarkKilled(t) \/ MarkFailed(t) \/ Ack(t)

Next ==
    \/ \E j \in Jobs : Submit(j) \/ Publish(j) \/ KillJob(j)
    \/ \E t \in Tasks, j \in Jobs : Deliver(t, j)
    \/ \E t \in Tasks : TaskStep(t)
    \/ \E h \in Handlers, j \in Jobs : PullRead(h, j) \/ \E e \in BOOLEAN : PostRead(h, j, e)
    \/ \E h \in Handlers : PullCommit(h) \/ PostCommit(h)
    \/ Crash \/ Drop

(* The broker delivers while a task is free, and tasks run on. *)
Fairness == /\ \A j \in Jobs : WF_vars(\E t \in Tasks : Deliver(t, j))
            /\ \A t \in Tasks : WF_vars(TaskStep(t))

Spec == Init /\ [][Next]_vars /\ Fairness
-----------------------------------------------------------------------------
Ended == {"done", "killed", "failed", "rejected"}

Statuses == Ended \cup {"absent", "queued", "running"}

(* Every column, message and handler holds what it may hold. *)
TypeOK ==
    /\ status \in [Jobs -> Statuses]
    /\ kill \in [Jobs -> BOOLEAN]
    /\ message \in [Jobs -> {"none", "unsent", "ready", "unacked"}]
    /\ task \in [Tasks -> [pc : {"idle", "load", "begin", "poll", "brain", "settle", "kill",
                                 "fail", "ack"},
                           job : Jobs \cup {None}, step : 0 .. Steps + 1, owns : BOOLEAN]]
    /\ handler \in [Handlers -> [pc : {"idle", "pull", "post"}, job : Jobs \cup {None},
                                 error : BOOLEAN, seen : Statuses]]
    /\ handed \subseteq Pulled
    /\ charged \in [Jobs -> Nat]
    /\ early \subseteq Jobs

(* A task settles without looking, so a lost connection may charge a job once more.
   One crash does not: what is done is not run again.  But when the redelivered job
   cannot be loaded it is marked as failed, paid or not, and a second crash
   before the ack runs it again: two crashes may charge it once more.  Nothing else
   does, whatever raises, and no job is done for free; as long as neither the connection
   nor the consumer is lost, no job is charged and then reported as killed, failed
   or running.  (execute_job, worker_result: DONE is checked, then settled.) *)
ChargedPerDelivery ==
    \A j \in Jobs : /\ 2 * charged[j] <= 2 + 2 * drops + crashes
                    /\ status[j] = "done" => charged[j] > 0
                    /\ drops + crashes = 0 => (charged[j] > 0) = (status[j] = "done")

(* A kill requested before a queued job starts is heard by the first poll: the
   job is never charged, not even after redeliveries or by a second task. *)
EarlyKillIsFree == \A j \in early \ Pulled : charged[j] = 0

(* A published job comes to an end: it is done, killed or failed, and its message
   is gone.  Only a lost connection and a crash together can leave it behind. *)
PublishedEnds ==
    \A j \in Jobs :
        message[j] = "ready" ~> \/ status[j] \in Ended /\ message[j] = "none"
                                \/ drops > 0 /\ crashes > 0
-----------------------------------------------------------------------------
(* "Idempotent -- a re-post of a settled job is a no-op": a job is charged at
   most once.  Two posts at once are not one after the other. *)
ChargedOnce == \A j \in Jobs : charged[j] <= 1
=============================================================================
