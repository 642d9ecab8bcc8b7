---------------------------- MODULE Compute_proofs ----------------------------
(***************************************************************************)
(* For any number of jobs, task slots, brain calls and posts: the tables   *)
(* stay well-typed, a job that is killed before it starts is never         *)
(* charged, and, with one web handler at a time, a job is charged at most  *)
(* once more for every loss of the connection and every two crashes.  And  *)
(* for any number of users, calls and slots: the pool their brain calls    *)
(* wait for is never overdrawn and no wakeup is lost.                      *)
(***************************************************************************)
EXTENDS ComputeJobs, FairBrain, FiniteSetTheorems, TLAPS

TaskPcs == {"idle", "load", "begin", "poll", "brain", "settle", "kill", "fail", "ack"}
TaskStates == [pc : TaskPcs, job : Jobs \cup {None}, step : 0 .. Steps + 1, owns : BOOLEAN]
HandlerStates == [pc : {"idle", "pull", "post"}, job : Jobs \cup {None},
                  error : BOOLEAN, seen : Statuses]

(* Only a queued job has a message, only one with a message gets a task, only a
   pulled one a web handler. *)
TaskOk(h) == /\ h.pc # "idle" => h.job \in Jobs \ Pulled
             /\ h.pc \in {"load", "begin", "poll", "brain"} => h.step \in 1 .. Steps

Typed == /\ TypeOK /\ drops \in Nat /\ crashes \in Nat
         /\ \A t \in Tasks : TaskOk(task[t])
         /\ \A j \in Pulled : message[j] = "none"
         /\ \A h \in Handlers : handler[h].pc # "idle" => handler[h].job \in Pulled

USE DEF None

LEMMA IdleTyped == NoTask \in TaskStates /\ NoHandler \in HandlerStates
BY StepsAssumption DEF NoTask, NoHandler, TaskStates, TaskPcs, HandlerStates, Statuses, Ended

LEMMA TypedInit == Init => Typed
<1> SUFFICES ASSUME Init PROVE Typed
  OBVIOUS
<1>1. TypeOK
  BY IdleTyped DEF Init, TypeOK, TaskStates, TaskPcs, HandlerStates, Statuses, Ended
<1>2. \A j \in Pulled : message[j] = "none"
  BY JobsAssumption DEF Init
<1> QED BY <1>1, <1>2 DEF Init, Typed, TaskOk, NoTask, NoHandler

(* A step of a task as the others see it. *)
Moves(t, from, to) == /\ task[t].pc = from /\ task'[t].pc = to /\ task'[t].job = task[t].job
                      /\ \A u \in Tasks \ {t} : task'[u] = task[u]

Same == UNCHANGED <<status, charged, message>>

StepOf(t, j) ==
    \/ Moves(t, "load", "ack") /\ status[j] \in {"done", "killed"} /\ Same
    \/ Moves(t, "load", "begin") /\ status[j] \notin {"done", "killed"} /\ Same
    \/ Moves(t, "poll", "kill") /\ Same
    \/ Moves(t, "poll", "brain") /\ ~kill[j] /\ Same
    \/ Moves(t, "brain", "poll") /\ Same
    \/ Moves(t, "brain", "settle") /\ Same
    \/ \E from \in {"load", "begin", "poll", "brain", "settle", "kill"} :
          Moves(t, from, "fail") /\ Same
    \/ /\ Moves(t, "settle", "ack") /\ UNCHANGED message
       /\ status' = [status EXCEPT ![j] = "done"] /\ charged' = [charged EXCEPT ![j] = @ + 1]
    \/ /\ \E b \in {<<"begin", "running", "poll">>, <<"kill", "killed", "ack">>,
                    <<"fail", "failed", "ack">>} :
             Moves(t, b[1], b[3]) /\ status' = [status EXCEPT ![j] = b[2]]
       /\ UNCHANGED <<charged, message>>
    \/ /\ task[t].pc = "ack" /\ task' = [task EXCEPT ![t] = NoTask]
       /\ message' = message \/ message' = [message EXCEPT ![j] = "none"]
       /\ UNCHANGED <<status, charged>>

LEMMA GotoMoves ==
    ASSUME TypeOK, NEW t \in Tasks, NEW p \in TaskPcs, Goto(t, p)
    PROVE  /\ Moves(t, task[t].pc, p) /\ task' \in [Tasks -> TaskStates]
           /\ task'[t].step = task[t].step
<1>1. task \in [Tasks -> TaskStates] /\ task[t] \in TaskStates
  BY DEF TypeOK, TaskStates, TaskPcs
<1>2. task' = [task EXCEPT ![t] = [task[t] EXCEPT !.pc = p]]
  BY <1>1 DEF Goto, TaskStates
<1>3. [task[t] EXCEPT !.pc = p] \in TaskStates
  BY <1>1 DEF TaskStates
<1>4. task'[t] = [task[t] EXCEPT !.pc = p]
  BY <1>1, <1>2
<1>5. task'[t].pc = p /\ task'[t].job = task[t].job /\ task'[t].step = task[t].step
  BY <1>1, <1>4 DEF TaskStates
<1>6. \A u \in Tasks \ {t} : task'[u] = task[u]
  BY <1>1, <1>2
<1> QED BY <1>1, <1>2, <1>3, <1>5, <1>6 DEF Moves

(* The brain call that goes well. *)
LEMMA BrainMoves ==
    ASSUME Typed, NEW t \in Tasks, Brain(t)
    PROVE  /\ \E p \in {"poll", "settle", "fail"} : Moves(t, "brain", p)
           /\ task' \in [Tasks -> TaskStates] /\ TaskOk(task'[t])
<1>1. task \in [Tasks -> TaskStates] /\ task[t] \in TaskStates
  BY DEF Typed, TypeOK, TaskStates, TaskPcs
<1>2. /\ task[t].pc = "brain" /\ task[t].step \in 1 .. Steps /\ task[t].job \in Jobs \ Pulled
      /\ Steps \in Nat \ {0}
  BY StepsAssumption DEF Typed, TaskOk, Brain
<1>3. CASE Goto(t, "fail")
  <2>1. Moves(t, "brain", "fail") /\ task' \in [Tasks -> TaskStates]
    BY <1>2, <1>3, GotoMoves DEF Typed, TaskPcs
  <2> QED BY <1>2, <2>1 DEF Moves, TaskOk
<1>4. CASE task' = [task EXCEPT ![t] = [task[t] EXCEPT
             !.step = @ + 1, !.pc = IF task[t].step = Steps THEN "settle" ELSE "poll"]]
  <2>1. PICK n, p : n = task[t].step + 1 /\ p = IF task[t].step = Steps THEN "settle" ELSE "poll"
    OBVIOUS
  <2>2. n \in 0 .. Steps + 1 /\ p \in {"settle", "poll"} /\ (p = "poll" => n \in 1 .. Steps)
    BY <1>2, <2>1
  <2>3. task' = [task EXCEPT ![t] = [task[t] EXCEPT !.step = n, !.pc = p]]
    BY <1>4, <2>1
  <2>4. [task[t] EXCEPT !.step = n, !.pc = p] \in TaskStates
    BY <1>1, <2>2 DEF TaskStates, TaskPcs
  <2>5. task'[t] = [task[t] EXCEPT !.step = n, !.pc = p] /\ \A u \in Tasks \ {t} : task'[u] = task[u]
    BY <1>1, <2>3
  <2>6. task'[t].step = n /\ task'[t].pc = p /\ task'[t].job = task[t].job
    BY <1>1, <2>5 DEF TaskStates
  <2>7. Moves(t, "brain", p) /\ TaskOk(task'[t])
    BY <1>2, <2>2, <2>5, <2>6 DEF Moves, TaskOk
  <2> QED BY <1>1, <2>2, <2>3, <2>4, <2>7
<1> QED BY <1>3, <1>4 DEF Brain

LEMMA TaskStepMoves ==
    ASSUME Typed, NEW t \in Tasks, TaskStep(t)
    PROVE  /\ StepOf(t, task[t].job) /\ task[t].job \in Jobs \ Pulled
           /\ task' \in [Tasks -> TaskStates] /\ TaskOk(task'[t])
           /\ \A u \in Tasks \ {t} : task'[u] = task[u]
           /\ UNCHANGED <<kill, early, handler, handed, drops, crashes>>
<1> DEFINE Goal == /\ StepOf(t, task[t].job)
                   /\ task' \in [Tasks -> TaskStates] /\ TaskOk(task'[t])
                   /\ \A u \in Tasks \ {t} : task'[u] = task[u]
                   /\ UNCHANGED <<kill, early, handler, handed, drops, crashes>>
<1>0. /\ task \in [Tasks -> TaskStates] /\ task[t] \in TaskStates /\ TaskOk(task[t])
      /\ task[t].pc # "idle" /\ task[t].job \in Jobs \ Pulled
  BY DEF Typed, TypeOK, TaskOk, TaskStates, TaskPcs, TaskStep, Load, Begin, Poll, Brain, Settle,
         MarkKilled, MarkFailed, Ack, Patch, Read, Raises
<1>1. ASSUME NEW p \in TaskPcs, Goto(t, p)
      PROVE  /\ Moves(t, task[t].pc, p) /\ task' \in [Tasks -> TaskStates]
             /\ \A u \in Tasks \ {t} : task'[u] = task[u]
             /\ \/ p \notin {"load", "begin", "poll", "brain"}
                \/ task[t].pc \in {"load", "begin", "poll", "brain"}
                => TaskOk(task'[t])
  BY <1>0, <1>1, GotoMoves DEF Typed, TaskOk, Moves
<1>10. ASSUME NEW from \in {"load", "begin", "poll", "brain", "settle", "kill"}, Raises(t, from)
       PROVE  Goal
  <2>1. Goto(t, "fail") /\ task[t].pc = from /\ UNCHANGED <<record, handler, handed, drops, crashes, message>>
    BY <1>10 DEF Raises
  <2>2. Moves(t, from, "fail")
    BY <1>1, <2>1 DEF TaskPcs
  <2> QED BY <1>1, <2>1, <2>2 DEF StepOf, Same, record, TaskPcs
<1>2. ASSUME Load(t) PROVE Goal
  <2>1. CASE Raises(t, "load")
    BY <1>10, <2>1
  <2>2. CASE status[task[t].job] \in {"done", "killed"} /\ ~Raises(t, "load")
    <3>1. Goto(t, "ack") /\ task[t].pc = "load" /\ UNCHANGED <<record, handler, handed, drops, crashes, message>>
      BY <1>2, <2>2 DEF Load, Read
    <3> QED BY <1>1, <2>2, <3>1 DEF StepOf, Same, record, TaskPcs
  <2>3. CASE status[task[t].job] \notin {"done", "killed"} /\ ~Raises(t, "load")
    <3>1. Goto(t, "begin") /\ task[t].pc = "load" /\ UNCHANGED <<record, handler, handed, drops, crashes, message>>
      BY <1>2, <2>3 DEF Load, Read
    <3> QED BY <1>1, <2>3, <3>1 DEF StepOf, Same, record, TaskPcs
  <2> QED BY <2>1, <2>2, <2>3
<1>3. ASSUME Begin(t) PROVE Goal
  <2>1. CASE Raises(t, "begin")
    BY <1>10, <2>1
  <2>2. CASE Patch(t, "begin", "running", "poll")
    <3>1. /\ Goto(t, "poll") /\ task[t].pc = "begin" /\ status' = [status EXCEPT ![task[t].job] = "running"]
          /\ UNCHANGED <<kill, charged, early, message, handler, handed, drops, crashes>>
      BY <2>2 DEF Patch
    <3>2. Moves(t, "begin", "poll")
      BY <1>1, <3>1 DEF TaskPcs
    <3> QED BY <1>1, <3>1, <3>2 DEF StepOf, TaskPcs
  <2> QED BY <1>3, <2>1, <2>2 DEF Begin
<1>4. ASSUME MarkKilled(t) PROVE Goal
  <2>1. CASE Raises(t, "kill")
    BY <1>10, <2>1
  <2>2. CASE Patch(t, "kill", "killed", "ack")
    <3>1. /\ Goto(t, "ack") /\ task[t].pc = "kill" /\ status' = [status EXCEPT ![task[t].job] = "killed"]
          /\ UNCHANGED <<kill, charged, early, message, handler, handed, drops, crashes>>
      BY <2>2 DEF Patch
    <3>2. Moves(t, "kill", "ack")
      BY <1>1, <3>1 DEF TaskPcs
    <3> QED BY <1>1, <3>1, <3>2 DEF StepOf, TaskPcs
  <2> QED BY <1>4, <2>1, <2>2 DEF MarkKilled
<1>5. ASSUME MarkFailed(t) PROVE Goal
  <2>1. /\ Goto(t, "ack") /\ task[t].pc = "fail" /\ status' = [status EXCEPT ![task[t].job] = "failed"]
        /\ UNCHANGED <<kill, charged, early, message, handler, handed, drops, crashes>>
    BY <1>5 DEF MarkFailed, Patch
  <2>2. Moves(t, "fail", "ack")
    BY <1>1, <2>1 DEF TaskPcs
  <2> QED BY <1>1, <2>1, <2>2 DEF StepOf, TaskPcs
<1>6. ASSUME Poll(t) PROVE Goal
  <2>1. CASE Raises(t, "poll")
    BY <1>10, <2>1
  <2>2. CASE kill[task[t].job] /\ ~Raises(t, "poll")
    <3>1. Goto(t, "kill") /\ task[t].pc = "poll" /\ UNCHANGED <<record, handler, handed, drops, crashes, message>>
      BY <1>6, <2>2 DEF Poll, Read
    <3> QED BY <1>1, <3>1 DEF StepOf, Same, record, TaskPcs
  <2>3. CASE ~kill[task[t].job] /\ ~Raises(t, "poll")
    <3>1. Goto(t, "brain") /\ task[t].pc = "poll" /\ UNCHANGED <<record, handler, handed, drops, crashes, message>>
      BY <1>6, <2>3 DEF Poll, Read
    <3> QED BY <1>1, <2>3, <3>1 DEF StepOf, Same, record, TaskPcs
  <2> QED BY <2>1, <2>2, <2>3
<1>7. ASSUME Brain(t) PROVE Goal
  <2>1. UNCHANGED <<record, handler, handed, drops, crashes, message>>
    BY <1>7 DEF Brain
  <2> QED BY <1>7, <2>1, BrainMoves DEF StepOf, Same, record, Moves
<1>8. ASSUME Settle(t) PROVE Goal
  <2>1. task[t].pc = "settle" /\ UNCHANGED <<kill, early, message, handler, handed, drops, crashes>>
    BY <1>8 DEF Settle
  <2>2. CASE Goto(t, "fail") /\ UNCHANGED <<status, charged>>
    BY <1>1, <2>1, <2>2 DEF StepOf, Same, TaskPcs
  <2>3. CASE /\ status' = [status EXCEPT ![task[t].job] = "done"]
             /\ charged' = [charged EXCEPT ![task[t].job] = @ + 1]
             /\ Goto(t, "ack")
    BY <1>1, <2>1, <2>3 DEF StepOf, TaskPcs
  <2> QED BY <1>8, <2>2, <2>3 DEF Settle
<1>9. ASSUME Ack(t) PROVE Goal
  <2>1. /\ task[t].pc = "ack" /\ task' = [task EXCEPT ![t] = NoTask]
        /\ message' = message \/ message' = [message EXCEPT ![task[t].job] = "none"]
        /\ UNCHANGED <<record, handler, handed, drops, crashes>>
    BY <1>9 DEF Ack
  <2>2. task'[t] = NoTask /\ TaskOk(NoTask)
    BY <1>0, <2>1 DEF TaskOk, NoTask
  <2> QED BY <1>0, <2>1, <2>2, IdleTyped DEF StepOf, record
<1> QED BY <1>0, <1>2, <1>3, <1>4, <1>5, <1>6, <1>7, <1>8, <1>9 DEF TaskStep
-----------------------------------------------------------------------------
(* The broker's steps: a message comes, the consumer dies, the connection is
   lost. *)
LEMMA TypedBroker ==
    ASSUME Typed, (\E t \in Tasks, j \in Jobs : Deliver(t, j)) \/ Crash \/ Drop
    PROVE  Typed'
<1>1. task \in [Tasks -> TaskStates] /\ message \in [Jobs -> {"none", "unsent", "ready", "unacked"}]
  BY DEF Typed, TypeOK, TaskStates, TaskPcs
<1>2. Requeued \in [Jobs -> {"none", "unsent", "ready", "unacked"}]
      /\ \A j \in Pulled : Requeued[j] = "none"
  BY <1>1, JobsAssumption DEF Requeued, Typed
<1>3. ASSUME task' \in [Tasks -> TaskStates], \A t \in Tasks : TaskOk(task'[t]),
             message' \in [Jobs -> {"none", "unsent", "ready", "unacked"}],
             \A j \in Pulled : message'[j] = "none",
             UNCHANGED <<record, handler, handed>>, drops' \in Nat, crashes' \in Nat
      PROVE  Typed'
  BY <1>3 DEF Typed, TypeOK, TaskStates, TaskPcs, record
<1>4. ASSUME NEW t \in Tasks, NEW j \in Jobs, Deliver(t, j) PROVE Typed'
  <2>1. PICK n : n = [pc |-> "load", job |-> j, step |-> 1, owns |-> TRUE]
    OBVIOUS
  <2>2. j \notin Pulled /\ message' = [message EXCEPT ![j] = "unacked"]
        /\ task' = [task EXCEPT ![t] = n] /\ UNCHANGED <<record, handler, handed, drops, crashes>>
    BY <1>4, <2>1 DEF Deliver, Typed
  <2>3. n \in TaskStates /\ TaskOk(n)
    BY <2>1, <2>2, StepsAssumption DEF TaskStates, TaskPcs, TaskOk
  <2>4. task' \in [Tasks -> TaskStates] /\ \A u \in Tasks : TaskOk(task'[u])
    BY <1>1, <2>2, <2>3 DEF Typed
  <2>5. /\ message' \in [Jobs -> {"none", "unsent", "ready", "unacked"}]
        /\ \A i \in Pulled : message'[i] = "none"
    BY <1>1, <2>2, JobsAssumption DEF Typed
  <2> QED BY <1>3, <2>2, <2>4, <2>5 DEF Typed
<1>5. ASSUME Crash PROVE Typed'
  <2>1. TaskOk(NoTask)
    BY DEF TaskOk, NoTask
  <2> QED BY <1>2, <1>3, <1>5, <2>1, IdleTyped DEF Crash, Typed
<1>6. ASSUME Drop PROVE Typed'
  <2>1. task' = [t \in Tasks |-> [task[t] EXCEPT !.owns = FALSE]] /\ message' = Requeued
        /\ UNCHANGED <<record, handler, handed, crashes>> /\ drops' = drops + 1
    BY <1>6 DEF Drop
  <2>2. \A t \in Tasks : [task[t] EXCEPT !.owns = FALSE] \in TaskStates
                         /\ TaskOk([task[t] EXCEPT !.owns = FALSE])
    <3> TAKE t \in Tasks
    <3>1. task[t] \in TaskStates /\ TaskOk(task[t])
      BY <1>1 DEF Typed
    <3>2. [task[t] EXCEPT !.owns = FALSE] \in TaskStates
      BY <3>1 DEF TaskStates
    <3>3. PICK n : n = [task[t] EXCEPT !.owns = FALSE]
      OBVIOUS
    <3>4. n.pc = task[t].pc /\ n.job = task[t].job /\ n.step = task[t].step
      BY <3>1, <3>3 DEF TaskStates
    <3>5. TaskOk(n)
      BY <3>1, <3>4 DEF TaskOk
    <3> QED BY <3>2, <3>3, <3>5
  <2> QED BY <1>2, <1>3, <2>1, <2>2 DEF Typed
<1> QED BY <1>4, <1>5, <1>6

LEMMA TypedTask ==
    ASSUME Typed, NEW t \in Tasks, TaskStep(t)
    PROVE  Typed'
<1>1. PICK j \in Jobs \ Pulled : j = task[t].job
  BY TaskStepMoves
<1>2. /\ StepOf(t, j) /\ task' \in [Tasks -> TaskStates] /\ TaskOk(task'[t])
      /\ \A u \in Tasks \ {t} : task'[u] = task[u]
      /\ UNCHANGED <<kill, early, handler, handed, drops, crashes>>
  BY <1>1, TaskStepMoves
<1>3. \A u \in Tasks : TaskOk(task'[u])
  BY <1>2 DEF Typed
<1>4. /\ status \in [Jobs -> Statuses] /\ charged \in [Jobs -> Nat]
      /\ message \in [Jobs -> {"none", "unsent", "ready", "unacked"}]
  BY DEF Typed, TypeOK
<1>5. /\ status' \in [Jobs -> Statuses] /\ charged' \in [Jobs -> Nat]
      /\ message' \in [Jobs -> {"none", "unsent", "ready", "unacked"}]
      /\ \A i \in Pulled : message'[i] = "none"
  <2>1. CASE Same
    BY <1>4, <2>1 DEF Same, Typed
  <2>2. CASE /\ UNCHANGED message
             /\ status' = [status EXCEPT ![j] = "done"] /\ charged' = [charged EXCEPT ![j] = @ + 1]
    BY <1>4, <2>2 DEF Statuses, Ended, Typed
  <2>3. CASE /\ \E s \in {"running", "killed", "failed"} : status' = [status EXCEPT ![j] = s]
             /\ UNCHANGED <<charged, message>>
    BY <1>4, <2>3 DEF Statuses, Ended, Typed
  <2>4. CASE /\ message' = message \/ message' = [message EXCEPT ![j] = "none"]
             /\ UNCHANGED <<status, charged>>
    BY <1>4, <2>4, JobsAssumption DEF Typed
  <2> QED BY <1>2, <2>1, <2>2, <2>3, <2>4 DEF StepOf
<1> QED BY <1>2, <1>3, <1>5 DEF Typed, TypeOK, TaskStates, TaskPcs

(* The web process. *)
LEMMA TypedWeb ==
    ASSUME Typed,
           \/ \E j \in Jobs : Submit(j) \/ Publish(j) \/ KillJob(j)
           \/ \E h \in Handlers, j \in Jobs : PullRead(h, j) \/ \E e \in BOOLEAN : PostRead(h, j, e)
           \/ \E h \in Handlers : PullCommit(h) \/ PostCommit(h)
    PROVE  Typed'
<1>1. ASSUME NEW j \in Jobs, Submit(j) PROVE Typed'
  <2>1. /\ status' \in [Jobs -> Statuses]
        /\ message' \in [Jobs -> {"none", "unsent", "ready", "unacked"}]
        /\ \A i \in Pulled : message'[i] = "none"
    BY <1>1, JobsAssumption DEF Submit, Typed, TypeOK, Statuses, Ended
  <2> QED BY <1>1, <2>1 DEF Submit, Typed, TypeOK
<1>2. ASSUME NEW j \in Jobs, Publish(j) PROVE Typed'
  <2>1. /\ message' \in [Jobs -> {"none", "unsent", "ready", "unacked"}]
        /\ \A i \in Pulled : message'[i] = "none"
    BY <1>2, JobsAssumption DEF Publish, Typed, TypeOK
  <2> QED BY <1>2, <2>1 DEF Publish, Typed, TypeOK, record
<1>3. ASSUME NEW j \in Jobs, KillJob(j) PROVE Typed'
  BY <1>3 DEF KillJob, Typed, TypeOK
<1>4. ASSUME NEW h \in Handlers, handler' \in [Handlers -> HandlerStates],
             \A g \in Handlers : g # h => handler'[g] = handler[g],
             handler'[h].pc # "idle" => handler'[h].job \in Pulled,
             status' \in [Jobs -> Statuses], charged' \in [Jobs -> Nat], handed' \subseteq Pulled,
             UNCHANGED <<kill, early, message, task, drops, crashes>>
      PROVE  Typed'
  BY <1>4 DEF Typed, TypeOK, HandlerStates
<1>5. handler \in [Handlers -> HandlerStates]
  BY DEF Typed, TypeOK, HandlerStates
<1>6. ASSUME NEW h \in Handlers, NEW j \in Jobs, PullRead(h, j) PROVE Typed'
  <2>1. PICK n : n = [NoHandler EXCEPT !.pc = "pull", !.job = j]
    OBVIOUS
  <2>2. n \in HandlerStates /\ n.job = j /\ j \in Pulled
    BY <1>6, <2>1 DEF PullRead, NoHandler, HandlerStates, Statuses, Ended
  <2>3. handler' = [handler EXCEPT ![h] = n] /\ UNCHANGED <<record, message, task, handed, drops, crashes>>
    BY <1>6, <2>1 DEF PullRead
  <2> QED BY <1>4, <1>5, <2>2, <2>3 DEF Typed, TypeOK, record
<1>7. ASSUME NEW h \in Handlers, handler' = [handler EXCEPT ![h] = NoHandler]
      PROVE  /\ handler' \in [Handlers -> HandlerStates] /\ handler'[h].pc = "idle"
             /\ \A g \in Handlers : g # h => handler'[g] = handler[g]
  BY <1>5, <1>7, IdleTyped DEF NoHandler
<1>8. ASSUME NEW h \in Handlers, PullCommit(h) PROVE Typed'
  <2>1. /\ handler' = [handler EXCEPT ![h] = NoHandler] /\ handler[h].job \in Pulled
        /\ UNCHANGED <<kill, charged, early, message, task, drops, crashes>>
    BY <1>8 DEF PullCommit, Typed
  <2>2. status' \in [Jobs -> Statuses] /\ handed' \subseteq Pulled
    BY <1>8, <2>1 DEF PullCommit, Typed, TypeOK, Statuses, Ended
  <2> QED BY <1>4, <1>7, <2>1, <2>2 DEF Typed, TypeOK
<1>9. ASSUME NEW h \in Handlers, NEW j \in Jobs, NEW e \in BOOLEAN, PostRead(h, j, e) PROVE Typed'
  <2>1. PICK n : n = [pc |-> "post", job |-> j, error |-> e, seen |-> status[j]]
    OBVIOUS
  <2>2. n \in HandlerStates /\ n.job = j /\ j \in Pulled
    BY <1>9, <2>1 DEF PostRead, HandlerStates, Typed, TypeOK
  <2>3. /\ handler' = handler \/ handler' = [handler EXCEPT ![h] = n]
        /\ UNCHANGED <<record, message, task, handed, drops, crashes>>
    BY <1>9, <2>1 DEF PostRead
  <2>4. CASE handler' = handler
    BY <2>3, <2>4 DEF Typed, TypeOK, record
  <2>5. CASE handler' = [handler EXCEPT ![h] = n]
    BY <1>4, <1>5, <2>2, <2>3, <2>5 DEF Typed, TypeOK, record
  <2> QED BY <2>3, <2>4, <2>5
<1>10. ASSUME NEW h \in Handlers, PostCommit(h) PROVE Typed'
  <2>1. /\ handler' = [handler EXCEPT ![h] = NoHandler] /\ handler[h].job \in Pulled
        /\ UNCHANGED <<kill, early, message, task, handed, drops, crashes>>
    BY <1>10 DEF PostCommit, Typed
  <2>2. PICK j : j = handler[h].job
    OBVIOUS
  <2>3. /\ \/ status' = status
           \/ \E s \in {"done", "failed"} : status' = [status EXCEPT ![j] = s]
        /\ charged' = charged \/ charged' = [charged EXCEPT ![j] = @ + 1]
    BY <1>10, <2>2 DEF PostCommit
  <2>4. status' \in [Jobs -> Statuses] /\ charged' \in [Jobs -> Nat]
    BY <2>3 DEF Typed, TypeOK, Statuses, Ended
  <2> QED BY <1>4, <1>7, <2>1, <2>4 DEF Typed, TypeOK
<1> QED BY <1>1, <1>2, <1>3, <1>6, <1>8, <1>9, <1>10

LEMMA TypedNext == Typed /\ [Next]_vars => Typed'
<1> SUFFICES ASSUME Typed, [Next]_vars PROVE Typed'
  OBVIOUS
<1>1. CASE UNCHANGED vars
  BY <1>1 DEF vars, record, Typed, TypeOK
<1> QED BY <1>1, TypedBroker, TypedTask, TypedWeb DEF Next

(* The tables, the queue, the tasks and the web handlers stay well-typed. *)
THEOREM JobsTyped == Spec => []TypeOK
<1>1. Typed => TypeOK
  BY DEF Typed
<1> QED BY <1>1, TypedInit, TypedNext, PTL DEF Spec
-----------------------------------------------------------------------------
(* What a web request may do to a queued job: insert it, publish it, flag it. *)
WebStep == \/ \E j \in Jobs : Submit(j) \/ Publish(j) \/ KillJob(j)
           \/ \E h \in Handlers, j \in Jobs : PullRead(h, j) \/ \E e \in BOOLEAN : PostRead(h, j, e)
           \/ \E h \in Handlers : PullCommit(h) \/ PostCommit(h)

LEMMA WebOnQueued ==
    ASSUME Typed, WebStep, NEW j \in Jobs \ Pulled
    PROVE  /\ UNCHANGED <<task, drops, crashes, crashes>> /\ charged'[j] = charged[j]
           /\ \/ status'[j] = status[j] /\ (message'[j] = message[j] \/ message[j] = "unsent")
              \/ status[j] = "absent" /\ status'[j] = "rejected" /\ message'[j] = message[j]
              \/ status[j] = "absent" /\ status'[j] = "queued" /\ message'[j] = "unsent"
           /\ \/ kill'[j] = kill[j] /\ (j \in early' => j \in early)
              \/ kill'[j] /\ status'[j] = status[j] /\ (j \in early' => j \in early \/ status[j] = "queued")
<1>0. /\ status \in [Jobs -> Statuses] /\ charged \in [Jobs -> Nat]
      /\ message \in [Jobs -> {"none", "unsent", "ready", "unacked"}] /\ kill \in [Jobs -> BOOLEAN]
      /\ \A h \in Handlers : handler[h].pc # "idle" => handler[h].job \in Pulled
  BY DEF Typed, TypeOK
<1>1. ASSUME NEW i \in Jobs, Submit(i)
      PROVE  /\ UNCHANGED <<task, drops, crashes, charged, kill, early>>
             /\ \/ status'[j] = status[j] /\ message'[j] = message[j]
                \/ status[j] = "absent" /\ status'[j] = "rejected" /\ message'[j] = message[j]
                \/ status[j] = "absent" /\ status'[j] = "queued" /\ message'[j] = "unsent"
  <2>1. status[i] = "absent" /\ UNCHANGED <<task, drops, crashes, charged, kill, early>>
    BY <1>1 DEF Submit
  <2>2. CASE status' = [status EXCEPT ![i] = "rejected"] /\ UNCHANGED message
    BY <1>0, <2>1, <2>2
  <2>3. CASE /\ status' = [status EXCEPT ![i] = "queued"]
             /\ message' = [message EXCEPT ![i] = IF i \in Pulled THEN "none" ELSE "unsent"]
    BY <1>0, <2>1, <2>3
  <2> QED BY <1>1, <2>1, <2>2, <2>3 DEF Submit
<1>2. ASSUME NEW i \in Jobs, Publish(i)
      PROVE  /\ UNCHANGED <<task, drops, crashes, charged, kill, early, status>>
             /\ message'[j] = message[j] \/ message[j] = "unsent"
  BY <1>0, <1>2 DEF Publish, record
<1>3. ASSUME NEW i \in Jobs, KillJob(i)
      PROVE  /\ UNCHANGED <<task, drops, crashes, charged, status, message>>
             /\ \/ kill'[j] = kill[j] /\ (j \in early' => j \in early)
                \/ kill'[j] /\ (j \in early' => j \in early \/ status[j] = "queued")
  BY <1>0, <1>3 DEF KillJob
<1>4. ASSUME NEW h \in Handlers, PullCommit(h) \/ PostCommit(h)
      PROVE  /\ UNCHANGED <<task, drops, crashes, kill, early, message>>
             /\ charged'[j] = charged[j] /\ status'[j] = status[j]
  <2>1. PICK i : i = handler[h].job
    OBVIOUS
  <2>2. i # j
    BY <1>0, <1>4, <2>1 DEF PullCommit, PostCommit
  <2>3. CASE PullCommit(h)
    BY <1>0, <2>1, <2>2, <2>3 DEF PullCommit
  <2>4. CASE PostCommit(h)
    <3>1. /\ \/ status' = status
             \/ \E s \in {"done", "failed"} : status' = [status EXCEPT ![i] = s]
          /\ charged' = charged \/ charged' = [charged EXCEPT ![i] = @ + 1]
          /\ UNCHANGED <<kill, early, message, task, drops, crashes>>
      BY <2>1, <2>4 DEF PostCommit
    <3> QED BY <1>0, <2>2, <3>1
  <2> QED BY <1>4, <2>3, <2>4
<1>5. ASSUME NEW h \in Handlers, NEW i \in Jobs, PullRead(h, i) \/ \E e \in BOOLEAN : PostRead(h, i, e)
      PROVE  UNCHANGED <<task, drops, crashes, kill, early, message, status, charged>>
  BY <1>5 DEF PullRead, PostRead, record
<1>6. CASE \E i \in Jobs : Submit(i) \/ Publish(i) \/ KillJob(i)
  BY <1>1, <1>2, <1>3, <1>6
<1>7. CASE \E h \in Handlers : PullCommit(h) \/ PostCommit(h)
  BY <1>4, <1>7
<1>8. CASE \E h \in Handlers, i \in Jobs : PullRead(h, i) \/ \E e \in BOOLEAN : PostRead(h, i, e)
  BY <1>5, <1>8
<1> QED BY <1>6, <1>7, <1>8 DEF WebStep

(* What the broker may do to the tasks. *)
BrokerStep == (\E t \in Tasks, j \in Jobs : Deliver(t, j)) \/ Crash \/ Drop

LEMMA BrokerOnTasks ==
    ASSUME Typed, BrokerStep
    PROVE  /\ UNCHANGED <<status, kill, charged, early>>
           /\ \/ /\ \E t \in Tasks, j \in Jobs : Deliver(t, j)
                 /\ UNCHANGED <<drops, crashes>>
              \/ /\ \A u \in Tasks : task'[u] = NoTask
                 /\ message' = Requeued /\ crashes' = crashes + 1 /\ UNCHANGED drops
              \/ /\ \A u \in Tasks : task'[u].pc = task[u].pc /\ task'[u].job = task[u].job
                 /\ message' = Requeued /\ drops' = drops + 1 /\ UNCHANGED crashes
<1>1. UNCHANGED <<status, kill, charged, early>>
  BY DEF BrokerStep, Deliver, Crash, Drop, record
<1>2. CASE \E t \in Tasks, j \in Jobs : Deliver(t, j)
  BY <1>1, <1>2 DEF Deliver
<1>3. CASE Crash
  BY <1>1, <1>3 DEF Crash
<1>4. CASE Drop
  <2>1. \A u \in Tasks : task[u] \in TaskStates
    BY DEF Typed, TypeOK, TaskStates, TaskPcs
  <2>2. \A u \in Tasks : task'[u] = [task[u] EXCEPT !.owns = FALSE]
    BY <1>4 DEF Drop
  <2>3. \A u \in Tasks : task'[u].pc = task[u].pc /\ task'[u].job = task[u].job
    BY <2>1, <2>2 DEF TaskStates
  <2> QED BY <1>1, <1>4, <2>3 DEF Drop
<1> QED BY <1>2, <1>3, <1>4 DEF BrokerStep

LEMMA Deliveries ==
    ASSUME Typed, NEW t \in Tasks, NEW i \in Jobs, Deliver(t, i)
    PROVE  /\ task[t].pc = "idle" /\ task'[t].pc = "load" /\ task'[t].job = i
           /\ \A u \in Tasks \ {t} : task'[u] = task[u]
           /\ message[i] = "ready" /\ message' = [message EXCEPT ![i] = "unacked"]
           /\ i \in Jobs \ Pulled
  BY DEF Deliver, Typed, TypeOK

(* A kill that comes before the job runs is heard by the first poll. *)
Unheard(j) ==
    /\ status[j] \in {"absent", "queued"} =>
         /\ charged[j] = 0
         /\ \A t \in Tasks : task[t].job = j => task[t].pc \in {"idle", "load", "begin", "fail"}
    /\ j \in early =>
         /\ kill[j] /\ charged[j] = 0
         /\ \A t \in Tasks : task[t].job = j => task[t].pc \notin {"brain", "settle"}

EarlyInv == Typed /\ \A j \in Jobs \ Pulled : Unheard(j)

LEMMA EarlyInit == Init => EarlyInv
<1> SUFFICES ASSUME Init PROVE EarlyInv
  OBVIOUS
<1>1. \A t \in Tasks : task[t].pc = "idle"
  BY DEF Init, NoTask
<1>2. \A j \in Jobs \ Pulled : Unheard(j)
  BY <1>1 DEF Init, Unheard
<1> QED BY <1>2, TypedInit DEF EarlyInv

LEMMA EarlyNext == EarlyInv /\ [Next]_vars => EarlyInv'
<1> SUFFICES ASSUME EarlyInv, [Next]_vars PROVE EarlyInv'
  OBVIOUS
<1>1. Typed /\ Typed'
  BY TypedNext DEF EarlyInv
<1>2. ASSUME NEW j \in Jobs \ Pulled PROVE Unheard(j)'
  <2>0. /\ Unheard(j) /\ j \in Jobs
        /\ status \in [Jobs -> Statuses] /\ charged \in [Jobs -> Nat] /\ kill \in [Jobs -> BOOLEAN]
    BY <1>1 DEF EarlyInv, Typed, TypeOK
  <2>1. CASE UNCHANGED vars
    BY <2>0, <2>1 DEF vars, record, Unheard
  <2>2. CASE WebStep
    BY <1>1, <2>0, <2>2, WebOnQueued DEF Unheard
  <2>3. CASE BrokerStep
    <3>1. UNCHANGED <<status, kill, charged, early>>
      BY <1>1, <2>3, BrokerOnTasks
    <3>2. ASSUME NEW t \in Tasks, task'[t].job = j
          PROVE  \/ task'[t].pc \in {"idle", "load"}
                 \/ task[t].job = j /\ task'[t].pc = task[t].pc
      <4>1. ASSUME NEW u \in Tasks, NEW i \in Jobs, Deliver(u, i)
            PROVE  task'[t].pc = "load" \/ task'[t] = task[t]
        BY <1>1, <4>1, Deliveries
      <4> QED BY <1>1, <2>3, <3>2, <4>1, BrokerOnTasks DEF NoTask
    <3> QED BY <2>0, <3>1, <3>2 DEF Unheard
  <2>4. ASSUME NEW t \in Tasks, TaskStep(t) PROVE Unheard(j)'
    <3>1. PICK i \in Jobs \ Pulled : i = task[t].job
      BY <1>1, <2>4, TaskStepMoves
    <3>2. StepOf(t, i) /\ UNCHANGED <<kill, early>> /\ \A u \in Tasks \ {t} : task'[u] = task[u]
      BY <1>1, <2>4, <3>1, TaskStepMoves
    <3>3. CASE i # j
      <4>1. status'[j] = status[j] /\ charged'[j] = charged[j]
        BY <2>0, <3>2, <3>3 DEF StepOf, Same
      <4>2. task'[t].job # j
        BY <1>1, <2>0, <3>1, <3>2, <3>3, JobsAssumption DEF StepOf, Moves, NoTask, Typed, TypeOK
      <4> QED BY <2>0, <3>2, <4>1, <4>2 DEF Unheard
    <3>4. CASE i = j
      <4>1. CASE Moves(t, "load", "ack") /\ status[j] \in {"done", "killed"} /\ Same
        BY <2>0, <4>1, <3>2 DEF Unheard, Moves, Same
      <4>2. CASE Moves(t, "load", "begin") /\ Same
        BY <2>0, <4>2, <3>2 DEF Unheard, Moves, Same
      <4>7. CASE (\E from \in TaskPcs : Moves(t, from, "fail")) /\ Same /\ task[t].pc \in {"load", "begin", "poll", "kill"}
        <5>1. task'[t].pc = "fail" /\ task'[t].job = task[t].job
          BY <4>7 DEF Moves
        <5> QED BY <2>0, <4>7, <3>2, <5>1 DEF Unheard, Same
      <4>3. CASE (Moves(t, "poll", "kill") \/ (Moves(t, "poll", "brain") /\ ~kill[j])) /\ Same
        BY <2>0, <3>1, <3>2, <3>4, <4>3 DEF Unheard, Moves, Same
      <4>4. CASE task[t].pc \in {"brain", "settle"}
        <5>1. status[j] \notin {"absent", "queued"} /\ j \notin early
          BY <2>0, <3>1, <3>4, <4>4 DEF Unheard
        <5>2. status'[j] \notin {"absent", "queued"}
          BY <2>0, <3>2, <3>4, <4>4, <5>1 DEF StepOf, Same, Moves
        <5> QED BY <3>2, <5>1, <5>2 DEF Unheard
      <4>5. CASE /\ \E b \in {<<"begin", "running", "poll">>, <<"kill", "killed", "ack">>,
                              <<"fail", "failed", "ack">>} :
                       Moves(t, b[1], b[3]) /\ status' = [status EXCEPT ![j] = b[2]]
                 /\ UNCHANGED <<charged, message>>
        <5>1. status'[j] \notin {"absent", "queued"} /\ task'[t].pc \notin {"brain", "settle"}
          BY <2>0, <4>5 DEF Moves
        <5> QED BY <2>0, <3>2, <4>5, <5>1 DEF Unheard
      <4>6. CASE task' = [task EXCEPT ![t] = NoTask] /\ UNCHANGED <<status, charged>>
        <5>1. task'[t].pc = "idle"
          BY <1>1, <4>6 DEF NoTask, Typed, TypeOK
        <5> QED BY <2>0, <3>2, <4>6, <5>1 DEF Unheard
      <4> QED BY <3>2, <3>4, <4>1, <4>2, <4>3, <4>4, <4>5, <4>6, <4>7 DEF StepOf, Moves, TaskPcs
    <3> QED BY <3>3, <3>4
  <2> QED BY <2>1, <2>2, <2>3, <2>4 DEF Next, WebStep, BrokerStep
<1> QED BY <1>1, <1>2 DEF EarlyInv

(* A queued job whose kill was requested before it ran is never charged, however
   often its message is redelivered and by however many tasks.  (kill_job,
   execute_job: the poll of kill_requested.) *)
THEOREM EarlyKillCostsNothing == Spec => []EarlyKillIsFree
<1>1. EarlyInv => EarlyKillIsFree
  BY DEF EarlyInv, Unheard, EarlyKillIsFree, Typed, TypeOK
<1> QED BY <1>1, EarlyInit, EarlyNext, PTL DEF Spec
-----------------------------------------------------------------------------
(* What is charged against what was lost, in half charges.  Two of them are
   granted at first, two for every loss of the connection and one for every crash.
   A charge costs two, and so does a task that may still come to charge, or a message
   that may bring one; a task that can only fail or be killed costs one: it may leave
   the job to be charged after another crash. *)
Acting == {"begin", "poll", "brain", "settle"}
Leaving == {"kill", "fail"}

On(j, P) == {t \in Tasks : task[t].job = j /\ task[t].pc \in P}

Active(j) == Cardinality(On(j, Acting))
Left(j) == Cardinality(On(j, Leaving))
Loading(j) == Cardinality(On(j, {"load"}))
Pending(j) == IF message[j] \in {"unsent", "ready"} THEN 1 ELSE 0

Granted == 2 + 2 * drops + crashes
Claimed(j) == 2 * charged[j] + 2 * Active(j) + 2 * Loading(j) + 2 * Pending(j) + Left(j)

(* What is done or killed has to fail before it can be charged again. *)
Spent(j) ==
    /\ 2 * charged[j] <= Granted
    /\ status[j] \notin {"done", "killed"} \/ Active(j) > 0 \/ Left(j) > 0 => Claimed(j) <= Granted
    /\ Loading(j) > 0 \/ Pending(j) > 0 => Claimed(j) <= Granted + 1
    /\ status[j] # "done" => 2 * charged[j] < Granted
    /\ status[j] = "done" => charged[j] > 0
    /\ status[j] = "absent" => /\ charged[j] = 0 /\ message[j] = "none"
                               /\ \A t \in Tasks : task[t].job # j

SpentInv == Typed /\ \A j \in Jobs \ Pulled : Spent(j)

LEMMA OneMoves ==
    ASSUME NEW S, IsFiniteSet(S), NEW P \in SUBSET S, NEW Q \in SUBSET S, NEW t \in S,
           \A u \in S \ {t} : u \in P <=> u \in Q
    PROVE  /\ Cardinality(P) \in Nat /\ Cardinality(Q) \in Nat
           /\ Cardinality(Q) = Cardinality(P) - (IF t \in P THEN 1 ELSE 0)
                                              + (IF t \in Q THEN 1 ELSE 0)
<1> DEFINE R == P \ {t}
<1>1. IsFiniteSet(P) /\ IsFiniteSet(Q) /\ IsFiniteSet(R) /\ t \notin R
  BY FS_Subset
<1>2. Cardinality(P) \in Nat /\ Cardinality(Q) \in Nat /\ Cardinality(R) \in Nat
  BY <1>1, FS_CardinalityType
<1>3. Cardinality(R \cup {t}) = Cardinality(R) + 1
  BY <1>1, FS_AddElement
<1>4. Cardinality(P) = Cardinality(R) + (IF t \in P THEN 1 ELSE 0)
  <2>1. t \in P => P = R \cup {t}
    OBVIOUS
  <2>2. t \notin P => P = R
    OBVIOUS
  <2> QED BY <1>2, <1>3, <2>1, <2>2
<1>5. Cardinality(Q) = Cardinality(R) + (IF t \in Q THEN 1 ELSE 0)
  <2>1. t \in Q => Q = R \cup {t}
    OBVIOUS
  <2>2. t \notin Q => Q = R
    OBVIOUS
  <2> QED BY <1>2, <1>3, <2>1, <2>2
<1> QED BY <1>2, <1>4, <1>5

LEMMA CountsTyped ==
    \A j : Active(j) \in Nat /\ Left(j) \in Nat /\ Loading(j) \in Nat /\ Pending(j) \in {0, 1}
<1>1. \A j, P : IsFiniteSet(On(j, P))
  BY TasksAssumption, FS_Subset DEF On
<1> QED BY <1>1, FS_CardinalityType DEF Active, Left, Loading, Pending

LEMMA CountsTypedAfter ==
    (\A j : Active(j) \in Nat /\ Left(j) \in Nat /\ Loading(j) \in Nat /\ Pending(j) \in {0, 1})'
BY CountsTyped, PTL

(* One task moves: the counts of its job follow. *)
LEMMA CountsFollow ==
    ASSUME NEW t \in Tasks, NEW j, \A u \in Tasks \ {t} : task'[u] = task[u]
    PROVE  /\ Active(j)' = Active(j) - (IF t \in On(j, Acting) THEN 1 ELSE 0)
                                     + (IF t \in On(j, Acting)' THEN 1 ELSE 0)
           /\ Left(j)' = Left(j) - (IF t \in On(j, Leaving) THEN 1 ELSE 0)
                                 + (IF t \in On(j, Leaving)' THEN 1 ELSE 0)
           /\ Loading(j)' = Loading(j) - (IF t \in On(j, {"load"}) THEN 1 ELSE 0)
                                       + (IF t \in On(j, {"load"})' THEN 1 ELSE 0)
<1>1. ASSUME NEW P
      PROVE  Cardinality(On(j, P)') = Cardinality(On(j, P)) - (IF t \in On(j, P) THEN 1 ELSE 0)
                                                          + (IF t \in On(j, P)' THEN 1 ELSE 0)
  <2>1. On(j, P) \in SUBSET Tasks /\ On(j, P)' \in SUBSET Tasks
    BY DEF On
  <2>2. \A u \in Tasks \ {t} : u \in On(j, P) <=> u \in On(j, P)'
    BY DEF On
  <2> HIDE DEF On
  <2> QED BY <2>1, <2>2, TasksAssumption, OneMoves
<1> QED BY <1>1 DEF Active, Left, Loading

LEMMA SpentInit == Init => SpentInv
<1> SUFFICES ASSUME Init PROVE SpentInv
  OBVIOUS
<1>1. ASSUME NEW j \in Jobs \ Pulled PROVE Spent(j)
  <2>1. j # None
    BY JobsAssumption
  <2>2. /\ status[j] = "absent" /\ charged[j] = 0 /\ message[j] = "none" /\ drops = 0 /\ crashes = 0
        /\ \A t \in Tasks : task[t].job # j
    BY <2>1 DEF Init, NoTask
  <2>3. On(j, Acting) = {} /\ On(j, Leaving) = {} /\ On(j, {"load"}) = {}
    BY <2>2 DEF On
  <2>4. Active(j) = 0 /\ Left(j) = 0 /\ Loading(j) = 0 /\ Pending(j) = 0
    BY <2>2, <2>3, FS_EmptySet DEF Active, Left, Loading, Pending
  <2> QED BY <2>2, <2>4 DEF Spent, Claimed, Granted
<1> QED BY <1>1, TypedInit DEF SpentInv

(* A step of a task on another job. *)
LEMMA SpentElsewhere ==
    ASSUME Typed, NEW j \in Jobs \ Pulled, Spent(j),
           NEW t \in Tasks, \A u \in Tasks \ {t} : task'[u] = task[u],
           task[t].job # j, task'[t].job # j, UNCHANGED <<drops, crashes>>,
           status'[j] = status[j], charged'[j] = charged[j], message'[j] = message[j]
    PROVE  Spent(j)'
<1>1. /\ t \notin On(j, Acting) /\ t \notin On(j, Leaving) /\ t \notin On(j, {"load"})
      /\ t \notin On(j, Acting)' /\ t \notin On(j, Leaving)' /\ t \notin On(j, {"load"})'
  BY DEF On
<1>2. /\ Active(j)' = Active(j) /\ Left(j)' = Left(j) /\ Loading(j)' = Loading(j)
      /\ Pending(j)' = Pending(j)
  BY <1>1, CountsFollow, CountsTyped DEF Pending
<1>3. Claimed(j)' = Claimed(j) /\ Granted' = Granted
  BY <1>2 DEF Claimed, Granted
<1>4. \A u \in Tasks : task[u].job # j => task'[u].job # j
  OBVIOUS
<1> QED BY <1>2, <1>3, <1>4 DEF Spent

LEMMA SpentTask ==
    ASSUME SpentInv, NEW j \in Jobs \ Pulled, NEW t \in Tasks, TaskStep(t)
    PROVE  Spent(j)'
<1>1. PICK i \in Jobs \ Pulled : i = task[t].job
  BY TaskStepMoves DEF SpentInv
<1>2. /\ StepOf(t, i) /\ UNCHANGED <<drops, crashes>>
      /\ \A u \in Tasks \ {t} : task'[u] = task[u]
  BY <1>1, TaskStepMoves DEF SpentInv
<1>3. /\ Spent(j) /\ j \in Jobs /\ j # None
      /\ status \in [Jobs -> Statuses] /\ charged \in [Jobs -> Nat]
      /\ charged[j] \in Nat /\ drops \in Nat /\ crashes \in Nat
      /\ message \in [Jobs -> {"none", "unsent", "ready", "unacked"}]
      /\ task \in [Tasks -> TaskStates]
  BY JobsAssumption DEF SpentInv, Typed, TypeOK, TaskStates, TaskPcs
<1>4. CASE i # j
  <2>1. status'[j] = status[j] /\ charged'[j] = charged[j] /\ message'[j] = message[j]
    BY <1>2, <1>3, <1>4 DEF StepOf, Same
  <2>2. task'[t].job # j
    BY <1>1, <1>2, <1>3, <1>4 DEF StepOf, Moves, NoTask
  <2> QED BY <1>1, <1>2, <1>3, <1>4, <2>1, <2>2, SpentElsewhere DEF SpentInv
<1>5. CASE i = j
  <2>1. status[j] # "absent"
    BY <1>1, <1>3, <1>5 DEF Spent
  <2>2. /\ Active(j) \in Nat /\ Left(j) \in Nat /\ Loading(j) \in Nat /\ Pending(j) \in {0, 1}
        /\ Active(j)' \in Nat /\ Left(j)' \in Nat /\ Loading(j)' \in Nat /\ Pending(j)' \in {0, 1}
        /\ Granted \in Nat /\ Granted' = Granted
    BY <1>2, <1>3, CountsTyped, CountsTypedAfter DEF Granted
  <2>3. /\ Active(j)' = Active(j) - (IF t \in On(j, Acting) THEN 1 ELSE 0)
                                  + (IF t \in On(j, Acting)' THEN 1 ELSE 0)
        /\ Left(j)' = Left(j) - (IF t \in On(j, Leaving) THEN 1 ELSE 0)
                              + (IF t \in On(j, Leaving)' THEN 1 ELSE 0)
        /\ Loading(j)' = Loading(j) - (IF t \in On(j, {"load"}) THEN 1 ELSE 0)
                                    + (IF t \in On(j, {"load"})' THEN 1 ELSE 0)
    BY <1>2, CountsFollow
  <2>4. /\ t \in On(j, Acting) <=> task[t].pc \in Acting
        /\ t \in On(j, Leaving) <=> task[t].pc \in Leaving
        /\ t \in On(j, {"load"}) <=> task[t].pc = "load"
    BY <1>1, <1>5 DEF On
  <2>5. ASSUME NEW from, NEW to, Moves(t, from, to)
        PROVE  /\ t \in On(j, Acting)' <=> to \in Acting
               /\ t \in On(j, Leaving)' <=> to \in Leaving
               /\ t \in On(j, {"load"})' <=> to = "load"
               /\ task[t].pc = from
    BY <1>1, <1>5, <2>5 DEF On, Moves
  <2>6. /\ task[t].pc \in Acting => Active(j) > 0
        /\ task[t].pc \in Leaving => Left(j) > 0
        /\ task[t].pc = "load" => Loading(j) > 0
    <3>1. /\ On(j, Acting) # {} => Active(j) # 0
          /\ On(j, Leaving) # {} => Left(j) # 0
          /\ On(j, {"load"}) # {} => Loading(j) # 0
      <4>1. \A P : IsFiniteSet(On(j, P))
        BY TasksAssumption, FS_Subset DEF On
      <4> QED BY <4>1, FS_EmptySet DEF Active, Left, Loading
    <3> QED BY <2>2, <2>4, <3>1
  (* Looking at the status. *)
  <2>7. CASE Moves(t, "load", "ack") /\ status[j] \in {"done", "killed"} /\ Same
    <3>1. Active(j)' = Active(j) /\ Left(j)' = Left(j) /\ Loading(j)' = Loading(j) - 1
      BY <2>2, <2>3, <2>4, <2>5, <2>7 DEF Acting, Leaving
    <3>2. /\ status'[j] = status[j] /\ charged'[j] = charged[j] /\ Pending(j)' = Pending(j)
          /\ Claimed(j)' = Claimed(j) - 2 /\ Claimed(j) \in Nat /\ Loading(j) > 0
      BY <1>3, <2>2, <2>5, <2>6, <2>7, <3>1 DEF Same, Pending, Claimed
    <3> QED BY <1>3, <2>1, <2>2, <2>7, <3>1, <3>2 DEF Spent
  <2>8. CASE Moves(t, "load", "begin") /\ status[j] \notin {"done", "killed"} /\ Same
    <3>1. Active(j)' = Active(j) + 1 /\ Left(j)' = Left(j) /\ Loading(j)' = Loading(j) - 1
      BY <2>2, <2>3, <2>4, <2>5, <2>8 DEF Acting, Leaving
    <3>2. /\ status'[j] = status[j] /\ charged'[j] = charged[j] /\ Pending(j)' = Pending(j)
          /\ Claimed(j)' = Claimed(j) /\ Claimed(j) \in Nat
      BY <1>3, <2>2, <2>8, <3>1 DEF Same, Pending, Claimed
    <3> QED BY <1>3, <2>1, <2>2, <2>8, <3>1, <3>2 DEF Spent
  (* Under way. *)
  <2>9. CASE \E from \in Acting, to \in Acting : Moves(t, from, to) /\ Same
    <3>1. Active(j)' = Active(j) /\ Left(j)' = Left(j) /\ Loading(j)' = Loading(j)
      BY <2>2, <2>3, <2>4, <2>5, <2>9 DEF Acting, Leaving
    <3>2. /\ status'[j] = status[j] /\ charged'[j] = charged[j] /\ Pending(j)' = Pending(j)
          /\ Claimed(j)' = Claimed(j) /\ Claimed(j) \in Nat
      BY <1>3, <2>2, <2>9, <3>1 DEF Same, Pending, Claimed
    <3> QED BY <1>3, <2>1, <2>2, <2>9, <3>1, <3>2 DEF Spent
  (* Killed, or an exception: the task keeps one half charge. *)
  <2>10. CASE \E from \in Acting, to \in Leaving : Moves(t, from, to) /\ Same
    <3>1. /\ Active(j)' = Active(j) - 1 /\ Left(j)' = Left(j) + 1 /\ Loading(j)' = Loading(j)
          /\ Active(j) > 0
      BY <2>2, <2>3, <2>4, <2>5, <2>6, <2>10 DEF Acting, Leaving
    <3>2. /\ status'[j] = status[j] /\ charged'[j] = charged[j] /\ Pending(j)' = Pending(j)
          /\ Claimed(j)' = Claimed(j) - 1 /\ Claimed(j) \in Nat
      BY <1>3, <2>2, <2>10, <3>1 DEF Same, Pending, Claimed
    <3> QED BY <1>3, <2>1, <2>2, <2>10, <3>1, <3>2 DEF Spent
  <2>11. CASE Moves(t, "load", "fail") /\ Same
    <3>1. /\ Active(j)' = Active(j) /\ Left(j)' = Left(j) + 1 /\ Loading(j)' = Loading(j) - 1
          /\ Loading(j) > 0
      BY <2>2, <2>3, <2>4, <2>5, <2>6, <2>11 DEF Acting, Leaving
    <3>2. /\ status'[j] = status[j] /\ charged'[j] = charged[j] /\ Pending(j)' = Pending(j)
          /\ Claimed(j)' = Claimed(j) - 1 /\ Claimed(j) \in Nat
      BY <1>3, <2>2, <2>11, <3>1 DEF Same, Pending, Claimed
    <3> QED BY <1>3, <2>1, <2>2, <2>11, <3>1, <3>2 DEF Spent
  <2>12. CASE Moves(t, "kill", "fail") /\ Same
    <3>1. /\ Active(j)' = Active(j) /\ Left(j)' = Left(j) /\ Loading(j)' = Loading(j)
      BY <2>2, <2>3, <2>4, <2>5, <2>6, <2>12 DEF Acting, Leaving
    <3>2. /\ status'[j] = status[j] /\ charged'[j] = charged[j] /\ Pending(j)' = Pending(j)
          /\ Claimed(j)' = Claimed(j) /\ Claimed(j) \in Nat
      BY <1>3, <2>2, <2>12, <3>1 DEF Same, Pending, Claimed
    <3> QED BY <1>3, <2>1, <2>2, <2>12, <3>1, <3>2 DEF Spent
  (* Settled: the task's share becomes a charge. *)
  <2>13. CASE /\ Moves(t, "settle", "ack") /\ UNCHANGED message
              /\ status' = [status EXCEPT ![j] = "done"] /\ charged' = [charged EXCEPT ![j] = @ + 1]
    <3>1. /\ Active(j)' = Active(j) - 1 /\ Left(j)' = Left(j) /\ Loading(j)' = Loading(j)
          /\ Active(j) > 0
      BY <2>2, <2>3, <2>4, <2>5, <2>6, <2>13 DEF Acting, Leaving
    <3>2. /\ status'[j] = "done" /\ charged'[j] = charged[j] + 1 /\ Pending(j)' = Pending(j)
      BY <1>3, <2>13 DEF Pending
    <3>3. /\ Claimed(j)' = Claimed(j) /\ Claimed(j) \in Nat
          /\ 2 * charged'[j] <= Claimed(j)'
      BY <1>3, <2>2, <3>1, <3>2 DEF Claimed
    <3> QED BY <1>3, <2>2, <3>1, <3>2, <3>3 DEF Spent
  (* Begun, killed or failed: the status changes, the charge does not. *)
  <2>14. CASE /\ Moves(t, "begin", "poll") /\ status' = [status EXCEPT ![j] = "running"]
              /\ UNCHANGED <<charged, message>>
    <3>1. /\ Active(j)' = Active(j) /\ Left(j)' = Left(j) /\ Loading(j)' = Loading(j)
          /\ Active(j) > 0
      BY <2>2, <2>3, <2>4, <2>5, <2>6, <2>14 DEF Acting, Leaving
    <3>2. /\ status'[j] = "running" /\ charged'[j] = charged[j] /\ Pending(j)' = Pending(j)
      BY <1>3, <2>14 DEF Pending
    <3>3. /\ Claimed(j)' = Claimed(j) /\ Claimed(j) \in Nat
          /\ 2 * charged'[j] < Claimed(j)'
      BY <1>3, <2>2, <3>1, <3>2 DEF Claimed
    <3> QED BY <1>3, <2>2, <3>1, <3>2, <3>3 DEF Spent
  <2>15. CASE /\ \E b \in {<<"kill", "killed">>, <<"fail", "failed">>} :
                    Moves(t, b[1], "ack") /\ status' = [status EXCEPT ![j] = b[2]]
              /\ UNCHANGED <<charged, message>>
    <3>1. /\ Active(j)' = Active(j) /\ Left(j)' = Left(j) - 1 /\ Loading(j)' = Loading(j)
          /\ Left(j) > 0
      <4>1. PICK from \in Leaving : Moves(t, from, "ack")
        BY <2>15 DEF Leaving
      <4> QED BY <2>2, <2>3, <2>4, <2>5, <2>6, <4>1 DEF Acting, Leaving
    <3>2. /\ status'[j] \in {"killed", "failed"} /\ charged'[j] = charged[j]
          /\ Pending(j)' = Pending(j)
      BY <1>3, <2>15 DEF Pending
    <3>3. /\ Claimed(j)' = Claimed(j) - 1 /\ Claimed(j) \in Nat
          /\ 2 * charged'[j] < Claimed(j)
      BY <1>3, <2>2, <3>1, <3>2 DEF Claimed
    <3> QED BY <1>3, <2>2, <3>1, <3>2, <3>3 DEF Spent
  <2>16. CASE /\ task[t].pc = "ack" /\ task' = [task EXCEPT ![t] = NoTask]
              /\ message' = message \/ message' = [message EXCEPT ![j] = "none"]
              /\ UNCHANGED <<status, charged>>
    <3>1. task'[t] = NoTask
      BY <1>3, <2>16
    <3>2. t \notin On(j, Acting)' /\ t \notin On(j, Leaving)' /\ t \notin On(j, {"load"})'
      BY <1>3, <3>1 DEF On, NoTask
    <3>3. Active(j)' = Active(j) /\ Left(j)' = Left(j) /\ Loading(j)' = Loading(j)
      BY <2>2, <2>3, <2>4, <2>16, <3>2 DEF Acting, Leaving
    <3>4. Pending(j)' <= Pending(j)
      BY <1>3, <2>16 DEF Pending
    <3>5. /\ Claimed(j)' <= Claimed(j) /\ Claimed(j) \in Nat /\ Claimed(j)' \in Nat
          /\ charged'[j] = charged[j] /\ status'[j] = status[j]
      BY <1>3, <2>2, <2>16, <3>3, <3>4 DEF Claimed
    <3> QED BY <1>3, <2>1, <2>2, <3>3, <3>4, <3>5 DEF Spent
  <2>17. StepOf(t, j)
    BY <1>2, <1>5
  <2> QED BY <2>7, <2>8, <2>9, <2>10, <2>11, <2>12, <2>13, <2>14, <2>15, <2>16, <2>17
          DEF StepOf, Acting, Leaving
<1> QED BY <1>4, <1>5

LEMMA SpentWeb ==
    ASSUME SpentInv, NEW j \in Jobs \ Pulled, WebStep
    PROVE  Spent(j)'
<1>1. /\ Spent(j) /\ charged[j] \in Nat /\ drops \in Nat /\ crashes \in Nat
      /\ message[j] \in {"none", "unsent", "ready", "unacked"}
      /\ message'[j] \in {"none", "unsent", "ready", "unacked"}
  BY TypedNext DEF SpentInv, Typed, TypeOK, WebStep, Next
<1>2. /\ UNCHANGED <<task, drops, crashes>> /\ charged'[j] = charged[j]
      /\ \/ status'[j] = status[j] /\ (message'[j] = message[j] \/ message[j] = "unsent")
         \/ status[j] = "absent" /\ status'[j] = "rejected" /\ message'[j] = message[j]
         \/ status[j] = "absent" /\ status'[j] = "queued" /\ message'[j] = "unsent"
  BY WebOnQueued DEF SpentInv
<1>3. Active(j)' = Active(j) /\ Left(j)' = Left(j) /\ Loading(j)' = Loading(j)
  BY <1>2 DEF Active, Left, Loading, On
<1>4. /\ Active(j) \in Nat /\ Left(j) \in Nat /\ Loading(j) \in Nat
      /\ Pending(j) \in {0, 1} /\ Pending(j)' \in {0, 1}
  BY CountsTyped, CountsTypedAfter
<1>5. /\ Granted' = Granted /\ Granted \in Nat /\ Granted >= 2
      /\ Claimed(j)' = Claimed(j) - 2 * Pending(j) + 2 * Pending(j)' /\ Claimed(j) \in Nat
  BY <1>1, <1>2, <1>3, <1>4 DEF Granted, Claimed
<1>6. CASE status'[j] = status[j] /\ (message'[j] = message[j] \/ message[j] = "unsent")
  <2>1. Pending(j)' <= Pending(j)
    BY <1>1, <1>6 DEF Pending
  <2> QED BY <1>1, <1>2, <1>3, <1>4, <1>5, <1>6, <2>1 DEF Spent
<1>7. CASE status[j] = "absent" /\ status'[j] \in {"rejected", "queued"}
  <2>1. /\ charged[j] = 0 /\ message[j] = "none"
        /\ On(j, Acting) = {} /\ On(j, Leaving) = {} /\ On(j, {"load"}) = {}
    BY <1>1, <1>7 DEF Spent, On
  <2>2. Active(j) = 0 /\ Left(j) = 0 /\ Loading(j) = 0 /\ Pending(j) = 0
    BY <2>1, FS_EmptySet DEF Active, Left, Loading, Pending
  <2>3. Claimed(j)' <= 2
    BY <1>4, <1>5, <2>1, <2>2 DEF Claimed
  <2> QED BY <1>1, <1>2, <1>3, <1>4, <1>5, <1>7, <2>1, <2>2, <2>3 DEF Spent
<1> QED BY <1>2, <1>6, <1>7

LEMMA SpentBroker ==
    ASSUME SpentInv, NEW j \in Jobs \ Pulled, BrokerStep
    PROVE  Spent(j)'
<1>1. /\ Spent(j) /\ charged[j] \in Nat /\ drops \in Nat /\ crashes \in Nat
      /\ j \in Jobs /\ j # None /\ Typed
      /\ message \in [Jobs -> {"none", "unsent", "ready", "unacked"}]
  BY JobsAssumption DEF SpentInv, Typed, TypeOK
<1>2. UNCHANGED <<status, kill, charged, early>>
  BY <1>1, BrokerOnTasks
<1>3. /\ Active(j) \in Nat /\ Left(j) \in Nat /\ Loading(j) \in Nat /\ Pending(j) \in {0, 1}
      /\ Active(j)' \in Nat /\ Left(j)' \in Nat /\ Loading(j)' \in Nat /\ Pending(j)' \in {0, 1}
  BY CountsTyped, CountsTypedAfter
<1>4. Granted \in Nat /\ Claimed(j) \in Nat
  BY <1>1, <1>3 DEF Granted, Claimed
(* A delivery turns a message into a loading task. *)
<1>5. ASSUME NEW t \in Tasks, NEW i \in Jobs, Deliver(t, i), UNCHANGED <<drops, crashes>>
      PROVE  Spent(j)'
  <2>1. /\ task[t].pc = "idle" /\ task'[t].pc = "load" /\ task'[t].job = i
        /\ \A u \in Tasks \ {t} : task'[u] = task[u]
        /\ message[i] = "ready" /\ message' = [message EXCEPT ![i] = "unacked"]
    BY <1>1, <1>5, Deliveries
  <2>2. /\ t \notin On(j, Acting) /\ t \notin On(j, Leaving) /\ t \notin On(j, {"load"})
        /\ t \notin On(j, Acting)' /\ t \notin On(j, Leaving)' /\ (t \in On(j, {"load"})' <=> i = j)
    BY <2>1 DEF On, Acting, Leaving
  <2>3. /\ Active(j)' = Active(j) /\ Left(j)' = Left(j)
        /\ Loading(j)' = Loading(j) + (IF i = j THEN 1 ELSE 0)
    BY <1>3, <2>1, <2>2, CountsFollow
  <2>4. Granted' = Granted
    BY <1>5 DEF Granted
  <2>5. CASE i = j
    <3>1. Pending(j) = 1 /\ Pending(j)' = 0 /\ status[j] # "absent"
      BY <1>1, <2>1, <2>5 DEF Pending, Spent
    <3>2. Claimed(j)' = Claimed(j)
      BY <1>1, <1>2, <1>3, <2>3, <2>5, <3>1 DEF Claimed
    <3> QED BY <1>1, <1>2, <1>3, <1>4, <2>3, <2>4, <2>5, <3>1, <3>2 DEF Spent
  <2>6. CASE i # j
    <3>1. Pending(j)' = Pending(j) /\ message'[j] = message[j]
      BY <1>1, <2>1, <2>6 DEF Pending
    <3>2. (\A u \in Tasks : task[u].job # j) => \A u \in Tasks : task'[u].job # j
      BY <2>1, <2>6
    <3>3. Claimed(j)' = Claimed(j) /\ Loading(j)' = Loading(j)
      BY <1>1, <1>2, <1>3, <2>3, <2>6, <3>1 DEF Claimed
    <3> QED BY <1>1, <1>2, <1>3, <1>4, <2>3, <2>4, <3>1, <3>2, <3>3 DEF Spent
  <2> QED BY <2>5, <2>6
(* After a crash nothing is under way; what is not done may be charged again. *)
<1>6. CASE /\ \A u \in Tasks : task'[u] = NoTask
           /\ message' = Requeued /\ crashes' = crashes + 1 /\ UNCHANGED drops
  <2>1. On(j, Acting)' = {} /\ On(j, Leaving)' = {} /\ On(j, {"load"})' = {}
    BY <1>6 DEF On, NoTask, Acting, Leaving
  <2>2. Active(j)' = 0 /\ Left(j)' = 0 /\ Loading(j)' = 0
    BY <2>1, FS_EmptySet DEF Active, Left, Loading
  <2>3. Granted' = Granted + 1 /\ Claimed(j)' <= 2 * charged[j] + 2 /\ Claimed(j)' \in Nat
    BY <1>1, <1>2, <1>3, <1>6, <2>2 DEF Granted, Claimed
  <2>4. message[j] = "none" => message'[j] = "none"
    BY <1>1, <1>6 DEF Requeued
  <2>5. \A u \in Tasks : task'[u].job # j
    BY <1>1, <1>6 DEF NoTask
  <2> QED BY <1>1, <1>2, <1>3, <1>4, <2>2, <2>3, <2>4, <2>5 DEF Spent
(* A lost connection brings one message back while its task runs on. *)
<1>7. CASE /\ \A u \in Tasks : task'[u].pc = task[u].pc /\ task'[u].job = task[u].job
           /\ message' = Requeued /\ drops' = drops + 1 /\ UNCHANGED crashes
  <2>1. /\ On(j, Acting)' = On(j, Acting) /\ On(j, Leaving)' = On(j, Leaving)
        /\ On(j, {"load"})' = On(j, {"load"})
    BY <1>7 DEF On
  <2>2. Active(j)' = Active(j) /\ Left(j)' = Left(j) /\ Loading(j)' = Loading(j)
    BY <2>1 DEF Active, Left, Loading
  <2>3. message[j] = "none" => message'[j] = "none"
    BY <1>1, <1>7 DEF Requeued
  <2>4. /\ Granted' = Granted + 2 /\ Claimed(j)' <= Claimed(j) + 2 /\ Claimed(j)' \in Nat
        /\ Active(j) = 0 /\ Left(j) = 0 /\ Loading(j) = 0 => Claimed(j)' <= 2 * charged[j] + 2
    BY <1>1, <1>2, <1>3, <1>7, <2>2 DEF Granted, Claimed
  <2> QED BY <1>1, <1>2, <1>3, <1>4, <1>7, <2>2, <2>3, <2>4 DEF Spent
<1> QED BY <1>1, <1>5, <1>6, <1>7, BrokerOnTasks

LEMMA SpentNext == SpentInv /\ [Next]_vars => SpentInv'
<1> SUFFICES ASSUME SpentInv, [Next]_vars PROVE SpentInv'
  OBVIOUS
<1>1. Typed'
  BY TypedNext DEF SpentInv
<1>2. ASSUME NEW j \in Jobs \ Pulled PROVE Spent(j)'
  <2>1. CASE UNCHANGED vars
    BY <2>1 DEF SpentInv, Spent, Claimed, Granted, Active, Left, Loading, Pending, On, vars, record
  <2> QED BY <2>1, SpentTask, SpentWeb, SpentBroker DEF Next, WebStep, BrokerStep
<1> QED BY <1>1, <1>2 DEF SpentInv

QueuedChargedPerDelivery ==
    \A j \in Jobs \ Pulled : /\ 2 * charged[j] <= 2 + 2 * drops + crashes
                             /\ status[j] = "done" => charged[j] > 0
                             /\ drops + crashes = 0 => (charged[j] > 0) = (status[j] = "done")

LEMMA SpentShows == SpentInv => QueuedChargedPerDelivery
<1> SUFFICES ASSUME SpentInv, NEW j \in Jobs \ Pulled
             PROVE  /\ 2 * charged[j] <= 2 + 2 * drops + crashes
                    /\ status[j] = "done" => charged[j] > 0
                    /\ drops + crashes = 0 => (charged[j] > 0) = (status[j] = "done")
  BY DEF QueuedChargedPerDelivery
<1>1. Spent(j) /\ charged[j] \in Nat /\ drops \in Nat /\ crashes \in Nat
  BY DEF SpentInv, Typed, TypeOK
<1> QED BY <1>1 DEF Spent, Granted

(* A queued job is charged once, and at most once more for every loss of the
   connection to the broker and every two crashes, through every redelivery, whatever
   raises and whatever the web process does; none is done for free; and while
   nothing is lost, paid is done and done is paid.  (execute_job.) *)
THEOREM QueuedJobsChargedPerDelivery == Spec => []QueuedChargedPerDelivery
BY SpentInit, SpentNext, SpentShows, PTL DEF Spec
-----------------------------------------------------------------------------
(* Pulled jobs never meet the queue.  With one web handler at a time nothing
   happens between a read and its commit: the second post finds the job done. *)
OneHandler == \A h, g \in Handlers : h = g

PulledOk(j) ==
    /\ charged[j] = IF status[j] = "done" THEN 1 ELSE 0
    /\ j \in handed => status[j] # "absent"
    /\ \A h \in Handlers : handler[h].job = j =>
         /\ handler[h].pc = "post" => /\ handler[h].seen = status[j]
                                      /\ status[j] \notin {"absent", "done", "killed"}
         /\ handler[h].pc = "pull" => status[j] = "queued"

PulledInv == Typed /\ \A j \in Pulled : PulledOk(j)

LEMMA PulledInit == Init => PulledInv
<1> SUFFICES ASSUME Init PROVE PulledInv
  OBVIOUS
<1>1. \A j \in Pulled : PulledOk(j)
  BY JobsAssumption DEF Init, PulledOk, NoHandler
<1> QED BY <1>1, TypedInit DEF PulledInv

LEMMA PulledNext ==
    ASSUME OneHandler
    PROVE  PulledInv /\ [Next]_vars => PulledInv'
<1> SUFFICES ASSUME PulledInv, [Next]_vars PROVE PulledInv'
  OBVIOUS
<1>1. Typed /\ Typed'
  BY TypedNext DEF PulledInv
<1>2. ASSUME NEW j \in Pulled PROVE PulledOk(j)'
  <2>0. /\ PulledOk(j) /\ j \in Jobs
        /\ status \in [Jobs -> Statuses] /\ charged \in [Jobs -> Nat]
        /\ handler \in [Handlers -> HandlerStates]
    BY <1>1, JobsAssumption DEF PulledInv, Typed, TypeOK, HandlerStates
  <2>1. CASE UNCHANGED <<handler, handed>> /\ status'[j] = status[j] /\ charged'[j] = charged[j]
    BY <2>0, <2>1 DEF PulledOk
  <2>2. ASSUME NEW t \in Tasks, TaskStep(t) PROVE PulledOk(j)'
    <3>1. PICK i \in Jobs \ Pulled : i = task[t].job /\ StepOf(t, i) /\ UNCHANGED <<handler, handed>>
      BY <1>1, <2>2, TaskStepMoves
    <3>2. status'[j] = status[j] /\ charged'[j] = charged[j]
      BY <2>0, <3>1 DEF StepOf, Same
    <3> QED BY <2>1, <3>1, <3>2
  <2>3. CASE BrokerStep
    <3>1. UNCHANGED <<status, charged, handler, handed>>
      BY <1>1, <2>3, BrokerOnTasks DEF BrokerStep, Deliver, Crash, Drop
    <3> QED BY <2>1, <3>1
  <2>4. ASSUME NEW i \in Jobs, Submit(i) PROVE PulledOk(j)'
    <3>1. /\ status[i] = "absent" /\ UNCHANGED <<handler, handed, charged>>
          /\ \E s \in {"rejected", "queued"} : status' = [status EXCEPT ![i] = s]
      BY <2>4 DEF Submit
    <3>2. CASE i # j
      BY <2>0, <2>1, <3>1, <3>2
    <3>3. CASE i = j
      BY <2>0, <3>1, <3>3 DEF PulledOk
    <3> QED BY <3>2, <3>3
  <2>5. ASSUME NEW i \in Jobs, Publish(i) \/ KillJob(i) PROVE PulledOk(j)'
    BY <2>1, <2>5 DEF Publish, KillJob, record
  <2>6. ASSUME NEW h \in Handlers, handler[h].pc = "idle",
               NEW n, handler' = [handler EXCEPT ![h] = n], UNCHANGED <<status, charged, handed>>,
               n.job = j => \/ n.pc = "post" /\ n.seen = status[j] /\ status[j] \notin {"absent", "done", "killed"}
                            \/ n.pc = "pull" /\ status[j] = "queued"
        PROVE  PulledOk(j)'
    BY <2>0, <2>6 DEF PulledOk
  <2>7. ASSUME NEW h \in Handlers, NEW i \in Jobs, PullRead(h, i) PROVE PulledOk(j)'
    <3>1. PICK n : n = [NoHandler EXCEPT !.pc = "pull", !.job = i]
      OBVIOUS
    <3>2. n.pc = "pull" /\ n.job = i
      BY <3>1 DEF NoHandler
    <3> QED BY <2>6, <2>7, <3>1, <3>2 DEF PullRead, record
  <2>8. ASSUME NEW h \in Handlers, NEW i \in Jobs, NEW e \in BOOLEAN, PostRead(h, i, e)
        PROVE  PulledOk(j)'
    <3>1. PICK n : n = [pc |-> "post", job |-> i, error |-> e, seen |-> status[i]]
      OBVIOUS
    <3>2. n.pc = "post" /\ n.job = i /\ n.seen = status[i]
      BY <3>1
    <3>3. /\ handler[h].pc = "idle" /\ UNCHANGED <<status, charged, handed>> /\ i \in handed
          /\ IF status[i] \in {"done", "killed"} THEN handler' = handler
             ELSE handler' = [handler EXCEPT ![h] = n]
      BY <2>8, <3>1 DEF PostRead, record
    <3>4. CASE handler' = handler
      BY <2>1, <3>3, <3>4
    <3>5. CASE status[i] \notin {"done", "killed"} /\ handler' = [handler EXCEPT ![h] = n]
      BY <2>0, <2>6, <3>2, <3>3, <3>5 DEF PulledOk
    <3> QED BY <3>3, <3>4, <3>5
  <2>9. ASSUME NEW h \in Handlers, PullCommit(h) \/ PostCommit(h) PROVE PulledOk(j)'
    <3>1. PICK i : i = handler[h].job
      OBVIOUS
    <3>2. handler' = [handler EXCEPT ![h] = NoHandler]
      BY <2>9 DEF PullCommit, PostCommit
    <3>3. \A g \in Handlers : handler'[g].pc = "idle"
      BY <2>0, <3>2 DEF OneHandler, NoHandler
    <3>4. CASE i # j
      <4>1. CASE PullCommit(h)
        <5>1. status'[j] = status[j] /\ charged'[j] = charged[j] /\ (j \in handed' => j \in handed)
          BY <2>0, <3>1, <3>4, <4>1 DEF PullCommit
        <5> QED BY <2>0, <3>3, <5>1 DEF PulledOk
      <4>2. CASE PostCommit(h)
        <5>1. /\ \/ status' = status
                 \/ \E s \in {"done", "failed"} : status' = [status EXCEPT ![i] = s]
              /\ charged' = charged \/ charged' = [charged EXCEPT ![i] = @ + 1]
              /\ UNCHANGED handed
          BY <3>1, <4>2 DEF PostCommit
        <5>2. status'[j] = status[j] /\ charged'[j] = charged[j]
          BY <2>0, <3>4, <5>1
        <5> QED BY <2>0, <3>3, <5>1, <5>2 DEF PulledOk
      <4> QED BY <2>9, <4>1, <4>2
    <3>5. CASE i = j
      <4>1. CASE PullCommit(h)
        <5>1. /\ status[j] = "queued" /\ charged' = charged
              /\ \E s \in {"running", "failed"} : status' = [status EXCEPT ![j] = s]
          BY <2>0, <3>1, <3>5, <4>1 DEF PullCommit, PulledOk
        <5>2. status'[j] \in {"running", "failed"} /\ charged'[j] = 0
          BY <2>0, <5>1 DEF PulledOk
        <5> QED BY <3>3, <5>2 DEF PulledOk
      <4>2. CASE PostCommit(h)
        <5>1. handler[h].seen = status[j] /\ status[j] \notin {"absent", "done", "killed"} /\ charged[j] = 0
          BY <2>0, <3>1, <3>5, <4>2 DEF PostCommit, PulledOk
        <5>2. CASE handler[h].error
          <6>1. charged' = charged
                /\ (status' = status \/ status' = [status EXCEPT ![j] = "failed"])
            BY <3>1, <3>5, <4>2, <5>2 DEF PostCommit
          <6>2. charged'[j] = 0 /\ status'[j] \notin {"absent", "done"}
            BY <2>0, <5>1, <6>1
          <6> QED BY <3>3, <6>2 DEF PulledOk
        <5>3. CASE ~handler[h].error
          <6>1. /\ charged' = [charged EXCEPT ![j] = @ + 1]
                /\ status' = [status EXCEPT ![j] = "done"]
            BY <3>1, <3>5, <4>2, <5>1, <5>3 DEF PostCommit
          <6>2. charged'[j] = 1 /\ status'[j] = "done"
            BY <2>0, <5>1, <6>1
          <6> QED BY <3>3, <6>2 DEF PulledOk
        <5> QED BY <5>2, <5>3
      <4> QED BY <2>9, <4>1, <4>2
    <3> QED BY <3>4, <3>5
  <2>10. CASE UNCHANGED vars
    BY <2>1, <2>10 DEF vars, record
  <2> QED BY <2>2, <2>3, <2>4, <2>5, <2>7, <2>8, <2>9, <2>10 DEF Next, BrokerStep
<1> QED BY <1>1, <1>2 DEF PulledInv

(* With one web handler at a time, every job is charged once, and at most once more
   for every loss of the connection to the broker and every two crashes, through
   every redelivery, every exception and every repeated post; none is done for free;
   and while nothing is lost, paid is done and done is paid.
   (execute_job, worker_result: DONE is checked, then settled.) *)
THEOREM JobsChargedPerDelivery ==
    ASSUME OneHandler
    PROVE  Spec => []ChargedPerDelivery
<1> DEFINE Inv == SpentInv /\ PulledInv
<1>1. Init => Inv
  BY SpentInit, PulledInit
<1>2. Inv /\ [Next]_vars => Inv'
  BY SpentNext, PulledNext
<1>3. ASSUME Inv PROVE ChargedPerDelivery
  <2> SUFFICES ASSUME NEW j \in Jobs
               PROVE  /\ 2 * charged[j] <= 2 + 2 * drops + crashes
                      /\ status[j] = "done" => charged[j] > 0
                      /\ drops + crashes = 0 => (charged[j] > 0) = (status[j] = "done")
    BY DEF ChargedPerDelivery
  <2>1. charged[j] \in Nat /\ drops \in Nat /\ crashes \in Nat
    BY <1>3 DEF SpentInv, Typed, TypeOK
  <2>2. CASE j \in Pulled
    BY <1>3, <2>1, <2>2 DEF PulledInv, PulledOk
  <2>3. CASE j \notin Pulled
    BY <1>3, <2>3, SpentShows DEF QueuedChargedPerDelivery
  <2> QED BY <2>2, <2>3
<1> QED BY <1>1, <1>2, <1>3, PTL DEF Spec
-----------------------------------------------------------------------------
(***************************************************************************)
(* The slots the brain calls of the jobs wait for: the pool is never       *)
(* overdrawn and no wakeup is lost, because at the end of a call everybody *)
(* who sleeps is woken, and until then only more run.                      *)
(***************************************************************************)
LEMMA InFinite ==
    ASSUME NEW S
    PROVE  IsFiniteSet(In(S)) /\ Cardinality(In(S)) \in Nat
<1>1. In(S) \subseteq Calls
  BY DEF In
<1> QED BY <1>1, CallsAssumption, FS_Subset, FS_CardinalityType

(* More sharers, smaller shares. *)
LEMMA DivAntitone ==
    ASSUME NEW t \in Nat, NEW m \in Nat \ {0}, NEW n \in Nat \ {0}, m <= n
    PROVE  t \div n <= t \div m
<1> DEFINE p == t \div m
           q == t \div n
<1>1. p \in Nat /\ q \in Nat
  OBVIOUS
<1>2. t < (p + 1) * m /\ q * n <= t
  OBVIOUS
<1> HIDE DEF p, q
<1>3. SUFFICES ASSUME p + 1 <= q PROVE FALSE
  BY <1>1 DEF p, q
<1>4. (p + 1) * m <= q * m
  BY <1>1, <1>3
<1>5. q * m <= q * n
  BY <1>1
<1>6. (p + 1) * m \in Nat /\ q * m \in Nat /\ q * n \in Nat
  BY <1>1
<1> QED BY <1>2, <1>4, <1>5, <1>6

(* The cap does not grow when calls come in. *)
LEMMA CapAntitone ==
    ASSUME NEW A, NEW B, A \subseteq B, B \subseteq Calls
    PROVE  Cap(A) \in Nat /\ Cap(B) \in Nat /\ Cap(B) <= Cap(A)
<1> DEFINE U(C) == {Owner(c) : c \in C}
<1>2. IsFiniteSet(U(B))
  <2>1. U(B) \subseteq Users
    BY CallsAssumption DEF Owner
  <2> QED BY <2>1, CallsAssumption, FS_Subset
<1>3. U(A) \subseteq U(B)
  OBVIOUS
<1>4. /\ Cardinality(U(A)) \in Nat /\ Cardinality(U(B)) \in Nat
      /\ Cardinality(U(A)) <= Cardinality(U(B))
  BY <1>2, <1>3, FS_Subset, FS_CardinalityType
<1>5. /\ ActiveUsers(A) \in Nat \ {0} /\ ActiveUsers(B) \in Nat \ {0}
      /\ ActiveUsers(A) <= ActiveUsers(B)
  BY <1>4 DEF ActiveUsers
<1>6. Total \div ActiveUsers(B) <= Total \div ActiveUsers(A)
  BY <1>5, DivAntitone, PoolAssumption
<1>7. Total \div ActiveUsers(A) \in Nat /\ Total \div ActiveUsers(B) \in Nat
  BY <1>5, PoolAssumption
<1> HIDE DEF U
<1> QED BY <1>6, <1>7, PoolAssumption DEF Cap

(* A call that cannot run still cannot while others only come in and start. *)
LEMMA StillBlocked ==
    ASSUME PoolTypeOK, PoolTypeOK', NEW c \in Calls, ~CanRun(c),
           Inside \subseteq Inside', In({"running"}) \subseteq In({"running"})'
    PROVE  ~CanRun(c)'
<1> DEFINE mine == {x \in In({"running"}) : Owner(x) = Owner(c)}
<1>1. TotalRunning \in Nat /\ TotalRunning' \in Nat /\ TotalRunning <= TotalRunning'
  <2>1. In({"running"})' \subseteq Calls
    BY DEF In
  <2>2. IsFiniteSet(In({"running"})')
    BY <2>1, CallsAssumption, FS_Subset
  <2> QED BY <2>2, FS_Subset, FS_CardinalityType DEF TotalRunning
<1>2. /\ Running(Owner(c)) \in Nat /\ Running(Owner(c))' \in Nat
      /\ Running(Owner(c)) <= Running(Owner(c))'
  <2>1. mine' \subseteq Calls /\ mine \subseteq mine'
    BY DEF In
  <2>2. IsFiniteSet(mine')
    BY <2>1, CallsAssumption, FS_Subset
  <2>3. Cardinality(mine) \in Nat /\ Cardinality(mine') \in Nat
        /\ Cardinality(mine) <= Cardinality(mine')
    BY <2>1, <2>2, FS_Subset, FS_CardinalityType
  <2> QED BY <2>3 DEF Running
<1>3. /\ Cap(Inside \cup {c}) \in Nat /\ Cap(Inside' \cup {c}) \in Nat
      /\ Cap(Inside' \cup {c}) <= Cap(Inside \cup {c})
  <2>1. Inside' \cup {c} \subseteq Calls /\ Inside \cup {c} \subseteq Inside' \cup {c}
    BY DEF Inside, In
  <2> QED BY <2>1, CapAntitone
<1>4. CanRun(c)' <=> TotalRunning' < Total /\ Running(Owner(c))' < Cap(Inside' \cup {c})
  BY DEF CanRun, Owner, Cap, ActiveUsers
<1> QED BY <1>1, <1>2, <1>3, <1>4, PoolAssumption DEF CanRun

PoolInv == PoolTypeOK /\ WithinCapacity /\ NoLostWakeup

LEMMA PoolInvInit == PoolInit => PoolInv
<1> SUFFICES ASSUME PoolInit PROVE PoolInv
  OBVIOUS
<1>1. In({"running"}) = {} /\ In({"asleep"}) = {}
  BY DEF PoolInit, In
<1>2. TotalRunning = 0
  BY <1>1, FS_EmptySet DEF TotalRunning
<1> QED BY <1>1, <1>2, PoolAssumption DEF PoolInv, PoolInit, PoolTypeOK, WithinCapacity, NoLostWakeup

(* Enter and Wake: the call looks, starts if it can and sleeps if it cannot. *)
LEMMA LookKeeps ==
    ASSUME PoolInv, NEW c \in Calls, pc[c] \in {"outside", "notified"}, Look(c)
    PROVE  PoolInv'
<1> USE DEF PoolInv
<1>1. PoolTypeOK'
  BY DEF Look, PoolTypeOK
<1>2. CASE CanRun(c)
  <2>1. In({"running"})' = In({"running"}) \cup {c} /\ c \notin In({"running"})
    BY <1>2 DEF Look, In, PoolTypeOK
  <2>2. TotalRunning' = TotalRunning + 1
    BY <2>1, InFinite, FS_AddElement DEF TotalRunning
  <2>3. TotalRunning < Total /\ TotalRunning \in Nat
    BY <1>2, InFinite DEF CanRun, TotalRunning
  <2>4. WithinCapacity'
    BY <2>2, <2>3, PoolAssumption DEF WithinCapacity
  <2>5. NoLostWakeup'
    <3> SUFFICES ASSUME NEW x \in Calls, pc'[x] = "asleep" PROVE ~CanRun(x)'
      BY DEF NoLostWakeup, In
    <3>1. ~CanRun(x)
      BY <1>2 DEF Look, PoolTypeOK, NoLostWakeup, In
    <3>2. Inside \subseteq Inside' /\ In({"running"}) \subseteq In({"running"})'
      BY <1>2 DEF Look, PoolTypeOK, Inside, In
    <3> QED BY <1>1, <3>1, <3>2, StillBlocked
  <2> QED BY <1>1, <2>4, <2>5
<1>3. CASE ~CanRun(c)
  <2>1. In({"running"})' = In({"running"})
    BY <1>3 DEF Look, In, PoolTypeOK
  <2>2. WithinCapacity'
    BY <2>1 DEF WithinCapacity, TotalRunning
  <2>3. NoLostWakeup'
    <3> SUFFICES ASSUME NEW x \in Calls, pc'[x] = "asleep" PROVE ~CanRun(x)'
      BY DEF NoLostWakeup, In
    <3>1. ~CanRun(x)
      BY <1>3 DEF Look, PoolTypeOK, NoLostWakeup, In
    <3>2. Inside \subseteq Inside'
      BY <1>3 DEF Look, PoolTypeOK, Inside, In
    <3> QED BY <1>1, <2>1, <3>1, <3>2, StillBlocked
  <2> QED BY <1>1, <2>2, <2>3
<1> QED BY <1>2, <1>3

(* Exit: one runs less, and nobody is left asleep. *)
LEMMA ExitKeeps ==
    ASSUME PoolInv, NEW c \in Calls, Exit(c)
    PROVE  PoolInv'
<1> USE DEF PoolInv
<1>1. PoolTypeOK'
  BY DEF Exit, PoolTypeOK
<1>2. In({"running"})' \subseteq In({"running"}) /\ In({"asleep"})' = {}
  BY DEF Exit, PoolTypeOK, In
<1>3. TotalRunning' <= TotalRunning /\ TotalRunning' \in Nat /\ TotalRunning \in Nat
  BY <1>2, InFinite, FS_Subset, FS_CardinalityType DEF TotalRunning
<1>4. WithinCapacity'
  BY <1>3, PoolAssumption DEF WithinCapacity
<1> QED BY <1>1, <1>2, <1>4 DEF NoLostWakeup

LEMMA PoolInvNext == PoolInv /\ [PoolNext]_pc => PoolInv'
<1> SUFFICES ASSUME PoolInv, [PoolNext]_pc PROVE PoolInv'
  OBVIOUS
<1>1. ASSUME NEW c \in Calls, Enter(c) PROVE PoolInv'
  BY <1>1, LookKeeps DEF Enter
<1>2. ASSUME NEW c \in Calls, Wake(c) PROVE PoolInv'
  BY <1>2, LookKeeps DEF Wake
<1>3. ASSUME NEW c \in Calls, Exit(c) PROVE PoolInv'
  BY <1>3, ExitKeeps
<1>4. CASE UNCHANGED pc
  BY <1>4 DEF PoolInv, PoolTypeOK, WithinCapacity, NoLostWakeup, TotalRunning, CanRun, Running,
              Cap, ActiveUsers, Inside, In
<1> QED BY <1>1, <1>2, <1>3, <1>4 DEF PoolNext

(* A call is outside, asleep, notified or running, and nothing else.  (slot.) *)
THEOREM PoolTyped == PoolSpec => []PoolTypeOK
<1>1. PoolInv => PoolTypeOK
  BY DEF PoolInv
<1> QED BY <1>1, PoolInvInit, PoolInvNext, PTL DEF PoolSpec

(* The pool is never overdrawn: not by min_per_user, not by users over a cap
   that fell when others came. *)
THEOREM CapacityHolds == PoolSpec => []WithinCapacity
<1>1. PoolInv => WithinCapacity
  BY DEF PoolInv
<1> QED BY <1>1, PoolInvInit, PoolInvNext, PTL DEF PoolSpec

(* Whoever sleeps in cond.wait() could not run: no slot stays idle because a
   notification was missed. *)
THEOREM WakeupsHold == PoolSpec => []NoLostWakeup
<1>1. PoolInv => NoLostWakeup
  BY DEF PoolInv
<1> QED BY <1>1, PoolInvInit, PoolInvNext, PTL DEF PoolSpec
=============================================================================
