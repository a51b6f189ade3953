--------------------------- MODULE JobQueue_proofs ---------------------------
(***************************************************************************)
(* Theorems about JobQueue.  For any number of workers, clients, jobs,     *)
(* deaths and outlasted timeouts, workers that were declared dead and go   *)
(* on included: types, a job shown as completed was built, and the bound   *)
(* on overspending.  For one worker that may die: one build per job, its   *)
(* cost and its checkpoints, the budget cap.  For any number of workers    *)
(* that run in time: one runner per job, and finished jobs stay finished.  *)
(***************************************************************************)
EXTENDS JobQueue, FiniteSetTheorems, TLAPS

\* The provers of a step that names none, in the order they are tried.
USE Z3T(60), ZenonT(20), SMTT(40)

(***************************************************************************)
(* TypeOK is not inductive: a worker writes the row it holds, which has to *)
(* be one.  A row that was inserted is never absent again.                 *)
(***************************************************************************)
Holds(w) ==
  /\ run[w].pc \in Steps => run[w].job \in Jobs /\ row[run[w].job].state # "absent"
  /\ run[w].pc \notin Steps => run[w].job = 0

TypeInv == TypeOK /\ \A w \in Workers : Holds(w)

(***************************************************************************)
(* What shows that a job was built, a checkpoint in its row or in a        *)
(* session, is true: builds only grow, so it stays true whoever holds it.  *)
(***************************************************************************)
Evidence(w) ==
  /\ run[w].done.build => run[w].job \in Jobs /\ builds[run[w].job] >= 1
  /\ At(w, "complete") => run[w].done.build
  /\ At(w, "score") => row[run[w].job].kind = "eval_drift"

BuildInv ==
  /\ CompletedIsBuilt
  /\ \A j \in Jobs : row[j].checkpoint.build => builds[j] >= 1
  /\ \A w \in Workers : Evidence(w)
-----------------------------------------------------------------------------
(* Type correctness.                                                       *)

\* What an empty table and an idle worker are made of is well typed.
LEMMA Emptiness ==
  /\ Absent \in Row /\ Poll \in Worker
  /\ NoProgress \in Progress /\ 0 \in 0 .. MaxJobs
  BY QueueAssumption DEF Absent, Row, Poll, Worker, NoProgress, Progress, Keys, Active, Terminal, Kinds

\* The bounds are numbers.
LEMMA Bounds ==
  /\ MaxJobs \in Nat /\ MaxAsks \in Nat /\ MaxFaults \in Nat
  /\ PreBuild \in Nat /\ Cap \in Nat /\ Price \in Nat
  BY QueueAssumption

\* The initial state is well typed.
LEMMA TypeInit == Init => TypeInv
  <1>. SUFFICES ASSUME Init PROVE TypeInv
    OBVIOUS
  <1>1. TypeOK
    BY QueueAssumption, Emptiness DEF Init, TypeOK
  <1>2. \A w \in Workers : Holds(w)
    BY DEF Init, Holds, Poll, Steps
  <1>. QED BY <1>1, <1>2 DEF TypeInv

(***************************************************************************)
(* Rows are written one at a time and stay in the table.                   *)
(***************************************************************************)
RowsKept ==
  /\ row' \in [Jobs -> Row]
  /\ \A j \in Jobs : row[j].state # "absent" => row'[j].state # "absent"

\* A new state, with or without a heartbeat.
LEMMA StateWritten ==
  ASSUME row \in [Jobs -> Row], NEW j \in Jobs, NEW s \in Active \cup Terminal,
         \/ row' = [row EXCEPT ![j].state = s]
         \/ row' = [row EXCEPT ![j].state = s, ![j].beat = "fresh"]
  PROVE  RowsKept /\ row'[j].state # "absent"
  BY DEF RowsKept, Row, Active, Terminal

\* A heartbeat that comes or grows old.
LEMMA BeatWritten ==
  ASSUME row \in [Jobs -> Row], NEW j \in Jobs, NEW beat \in {"null", "fresh", "stale"},
         row' = [row EXCEPT ![j].beat = beat]
  PROVE  RowsKept
  BY DEF RowsKept, Row

\* A checkpoint, with the heartbeat after it.
LEMMA CheckpointWritten ==
  ASSUME row \in [Jobs -> Row], NEW j \in Jobs, NEW after \in Progress,
         row' = [row EXCEPT ![j].checkpoint = after, ![j].beat = "fresh"]
  PROVE  RowsKept
  BY ZenonT(60) DEF RowsKept, Row

\* The checkpoint of the build, with its cost.
LEMMA BuildWritten ==
  ASSUME row \in [Jobs -> Row], NEW j \in Jobs, NEW after \in Progress, NEW cost \in Nat,
         row' = [row EXCEPT ![j].cost = cost, ![j].checkpoint = after, ![j].beat = "fresh"]
  PROVE  RowsKept
  <1>. DEFINE new == [row[j] EXCEPT !.cost = cost, !.checkpoint = after, !.beat = "fresh"]
  <1>1. new \in Row /\ new.state = row[j].state
    BY DEF Row
  <1>2. row' = [row EXCEPT ![j] = new]
    OBVIOUS
  <1>. QED BY <1>1, <1>2 DEF RowsKept

\* A requeued row is a row.
LEMMA RequeuedType ==
  ASSUME NEW r \in Row
  PROVE  Requeued(r) \in Row /\ Requeued(r).state # "absent"
  BY DEF Requeued, Row, Active

\* A new row takes the place of an absent one.
LEMMA InsertType ==
  ASSUME row \in [Jobs -> Row], NEW kind \in Kinds, NEW key \in Keys, NEW prio \in Nat,
         Insert([kind |-> kind, key |-> key, prio |-> prio])
  PROVE  RowsKept
  <1>. DEFINE new == [Absent EXCEPT !.state = "queued", !.kind = kind, !.key = key, !.prio = prio]
  <1>1. PICK j \in Jobs : row' = [row EXCEPT ![j] = new]
    BY DEF Insert
  <1>2. new \in Row /\ new.state # "absent"
    BY Emptiness DEF Row, Absent, Active
  <1>. QED BY <1>1, <1>2 DEF RowsKept

\* So does a job that is offered.
LEMMA OfferInserted ==
  ASSUME row \in [Jobs -> Row], NEW o \in Offers, Insert(o)
  PROVE  RowsKept
  <1>. DEFINE new == [Absent EXCEPT !.state = "queued", !.kind = o.kind, !.key = o.key,
                                    !.prio = o.prio]
  <1>1. PICK j \in Jobs : row' = [row EXCEPT ![j] = new]
    BY DEF Insert
  <1>2. o.kind \in Kinds /\ o.key \in Keys /\ o.prio \in Nat
    BY QueueAssumption DEF Keys
  <1>3. new \in Row /\ new.state # "absent"
    BY <1>2, Emptiness DEF Row, Absent, Active
  <1>. QED BY <1>1, <1>3 DEF RowsKept

(***************************************************************************)
(* What remains to be shown of a step of one worker: its own new state, as *)
(* the others hold rows that are still there.                              *)
(***************************************************************************)
LEMMA WorkerMoved ==
  ASSUME TypeInv, RowsKept, NEW w \in Workers, NEW x \in Worker,
         run' = [run EXCEPT ![w] = x],
         x.pc \in Steps => x.job \in Jobs /\ row'[x.job].state # "absent",
         x.pc \notin Steps => x.job = 0,
         ledger' \in Nat, builds' \in [Jobs -> Nat], faults' \in 0 .. MaxFaults,
         UNCHANGED <<ask, asks>>
  PROVE  TypeInv'
  <1>1. TypeOK'
    BY DEF TypeInv, TypeOK, RowsKept
  <1>2. ASSUME NEW v \in Workers PROVE Holds(v)'
    <2>1. CASE v = w
      BY <2>1 DEF TypeInv, TypeOK, Holds
    <2>2. CASE v # w
      BY <2>2 DEF TypeInv, TypeOK, Holds, RowsKept
    <2>. QED BY <2>1, <2>2
  <1>. QED BY <1>1, <1>2 DEF TypeInv

\* A step that leaves the workers alone keeps the table.
LEMMA NoWorkerMoved ==
  ASSUME TypeInv, RowsKept, UNCHANGED <<ledger, run, builds>>,
         ask' \in [Clients -> [want : {"none", "resume", "cancel"}, job : 0 .. MaxJobs]],
         asks' \in 0 .. MaxAsks, faults' \in 0 .. MaxFaults
  PROVE  TypeInv'
  BY DEF TypeInv, TypeOK, RowsKept, Holds

(***************************************************************************)
(* The common ends of a step: the worker goes to another place of its run, *)
(* or back to polling.                                                     *)
(***************************************************************************)
LEMMA WorkerGoes ==
  ASSUME TypeInv, RowsKept, NEW w \in Workers, NEW pc \in Steps, run[w].pc \in Steps,
         Goto(w, pc), ledger' = ledger, builds' = builds,
         UNCHANGED <<ask, asks, faults>>
  PROVE  TypeInv'
  <1>. DEFINE x == [run[w] EXCEPT !.pc = pc]
  <1>1. run' = [run EXCEPT ![w] = x]
    BY DEF Goto
  <1>2. x \in Worker /\ x.pc = pc /\ x.job = run[w].job
    BY DEF TypeInv, TypeOK, Worker
  <1>3. x.job \in Jobs /\ row'[x.job].state # "absent"
    BY <1>2 DEF TypeInv, Holds, RowsKept
  <1>. HIDE DEF x
  <1>4. ledger' \in Nat /\ builds' \in [Jobs -> Nat] /\ faults' \in 0 .. MaxFaults
    BY DEF TypeInv, TypeOK
  <1>. QED BY <1>1, <1>2, <1>3, <1>4, WorkerMoved

LEMMA WorkerLoops ==
  ASSUME TypeInv, RowsKept, NEW w \in Workers, Loop(w),
         UNCHANGED <<ledger, ask, asks, faults, builds>>
  PROVE  TypeInv'
  <1>1. Poll.pc \notin Steps /\ Poll.job = 0
    BY DEF Poll, Steps
  <1>2. ledger' \in Nat /\ builds' \in [Jobs -> Nat] /\ faults' \in 0 .. MaxFaults
    BY DEF TypeInv, TypeOK
  <1>. QED BY <1>1, <1>2, Emptiness, WorkerMoved DEF Loop

\* A worker in a step of a run holds a row.
LEMMA HeldJob ==
  ASSUME TypeInv, NEW w \in Workers, run[w].pc \in Steps
  PROVE  run[w].job \in Jobs /\ row[run[w].job] \in Row
  BY DEF TypeInv, TypeOK, Holds

\* The table is kept when it does not change.
LEMMA SameRows ==
  ASSUME TypeInv, row' = row
  PROVE  RowsKept
  BY DEF TypeInv, TypeOK, RowsKept

\* A step of a worker leaves a well typed state.
LEMMA TypeWorkerStep ==
  ASSUME TypeInv, NEW w \in Workers, WorkerStep(w)
  PROVE  TypeInv'
  <1>. USE DEF Jobs
  <1>0. row \in [Jobs -> Row] /\ run \in [Workers -> Worker] /\ run[w] \in Worker
    BY DEF TypeInv, TypeOK
  <1>1. CASE ReapRead(w)
    <2>. DEFINE x == [run[w] EXCEPT !.reaping = Stale, !.pc = IF Stale = {} THEN "claim" ELSE "reap"]
    <2>1. run' = [run EXCEPT ![w] = x] /\ x \in Worker
      BY <1>0, <1>1 DEF ReapRead, Worker, Stale
    <2>2. x.pc \notin Steps /\ x.job = 0
      BY <1>0, <1>1 DEF ReapRead, At, Steps, TypeInv, Holds, Worker
    <2>3. RowsKept
      BY <1>1, SameRows DEF ReapRead
    <2>. HIDE DEF x
    <2>. QED BY ZenonT(60), <1>1, <2>1, <2>2, <2>3, WorkerMoved DEF ReapRead, TypeInv, TypeOK
  <1>2. CASE ReapWrite(w)
    <2>1. CASE Loop(w) /\ UNCHANGED row
      BY <1>2, <2>1, SameRows, WorkerLoops DEF ReapWrite
    <2>2. CASE ~(Loop(w) /\ UNCHANGED row)
      <3>. DEFINE x == [Poll EXCEPT !.pc = "claim"]
      <3>1. x \in Worker /\ x.pc \notin Steps /\ x.job = 0
        BY Emptiness DEF Poll, Worker, Steps
      <3>2. run' = [run EXCEPT ![w] = x]
        BY <1>2, <2>2 DEF ReapWrite
      <3>3. row' = [j \in Jobs |-> IF j \in run[w].reaping THEN Requeued(row[j]) ELSE row[j]]
        BY <1>2, <2>2 DEF ReapWrite
      <3>4. RowsKept
        BY <1>0, <3>3, RequeuedType DEF RowsKept
      <3>. HIDE DEF x
      <3>. QED BY <1>2, <3>1, <3>2, <3>4, WorkerMoved DEF ReapWrite, TypeInv, TypeOK
    <2>. QED BY <2>1, <2>2
  <1>3. CASE Claim(w)
    <2>1. CASE Candidates = {} /\ Loop(w) /\ UNCHANGED row
      BY <1>3, <2>1, SameRows, WorkerLoops DEF Claim
    <2>2. CASE ~(Candidates = {} /\ Loop(w) /\ UNCHANGED row)
      <3>1. PICK j \in Jobs :
              /\ row' = [row EXCEPT ![j].state = "claimed", ![j].beat = "fresh"]
              /\ run' = [run EXCEPT ![w].pc = "claimed", ![w].job = j]
        BY <1>3, <2>2 DEF Claim
      <3>. DEFINE x == [run[w] EXCEPT !.pc = "claimed", !.job = j]
      <3>2. run' = [run EXCEPT ![w] = x] /\ x \in Worker /\ x.pc \in Steps /\ x.job = j
        <4>1. "claimed" \in Steps /\ j \in 0 .. MaxJobs
          BY Bounds DEF Steps
        <4>. QED BY <1>0, <3>1, <4>1 DEF Worker
      <3>3. RowsKept /\ row'[j].state # "absent"
        BY <1>0, <3>1, StateWritten DEF Active
      <3>. HIDE DEF x
      <3>. QED BY <1>3, <3>2, <3>3, WorkerMoved DEF Claim, TypeInv, TypeOK
    <2>. QED BY <2>1, <2>2
  <1>4. CASE Start(w)
    <2>1. run[w].pc \in Steps /\ run[w].job \in Jobs
      BY <1>4, HeldJob DEF Start, Mine, At, Steps
    <2>2. CASE Loop(w) /\ UNCHANGED row
      BY <1>4, <2>2, SameRows, WorkerLoops DEF Start
    <2>3. CASE ~(Loop(w) /\ UNCHANGED row)
      <3>. DEFINE pc == IF row[run[w].job].kind = "eval_drift" THEN "score" ELSE "read"
      <3>1. /\ row' = [row EXCEPT ![run[w].job].state = "running", ![run[w].job].beat = "fresh"]
            /\ Goto(w, pc)
        BY <1>4, <2>3 DEF Start
      <3>2. RowsKept
        BY <1>0, <2>1, <3>1, StateWritten DEF Active
      <3>3. pc \in Steps
        BY DEF Steps
      <3>. HIDE DEF pc
      <3>. QED BY <1>4, <2>1, <3>1, <3>2, <3>3, WorkerGoes DEF Start
    <2>. QED BY <2>2, <2>3
  <1>5. CASE ReadCheckpoint(w)
    <2>1. run[w].pc \in Steps /\ run[w].job \in Jobs /\ row[run[w].job] \in Row
      BY <1>5, HeldJob DEF ReadCheckpoint, At, Steps
    <2>. DEFINE r == row[run[w].job]
                x == [run[w] EXCEPT !.done = r.checkpoint, !.cost = r.cost, !.pc = "stages"]
    <2>2. r.checkpoint \in Progress /\ r.cost \in Nat
      BY <2>1 DEF Row
    <2>3. run' = [run EXCEPT ![w] = x]
      BY <1>0, <1>5 DEF ReadCheckpoint
    <2>. HIDE DEF r
    <2>4. x \in Worker /\ x.pc \in Steps /\ x.job = run[w].job
      BY <1>0, <2>2 DEF Worker, Steps
    <2>5. RowsKept
      BY <1>5, SameRows DEF ReadCheckpoint
    <2>6. row'[x.job].state # "absent"
      BY <1>5, <2>1, <2>4 DEF ReadCheckpoint, TypeInv, Holds
    <2>. HIDE DEF x
    <2>. QED BY <1>5, <2>1, <2>3, <2>4, <2>5, <2>6, WorkerMoved DEF ReadCheckpoint, TypeInv, TypeOK
  <1>6. CASE RunStage(w)
    <2>1. /\ run[w].pc \in Steps /\ run[w].job \in Jobs /\ row[run[w].job] \in Row
          /\ row[run[w].job].state # "absent"
      BY <1>6, HeldJob DEF RunStage, Mine, At, Steps, TypeInv, Holds
    <2>. DEFINE after == [run[w].done EXCEPT !.pre = @ + 1]
                x == [run[w] EXCEPT !.done = after, !.cost = row[run[w].job].cost]
    <2>2. after \in Progress /\ row[run[w].job].cost \in Nat
      <3>1. run[w].done \in Progress /\ run[w].done.pre < PreBuild
        BY <1>0, <1>6 DEF RunStage, Worker
      <3>2. after \in Progress
        BY <3>1, Bounds DEF Progress
      <3>. QED BY <2>1, <3>2 DEF Row
    <2>3. /\ row' = [row EXCEPT ![run[w].job].checkpoint = after, ![run[w].job].beat = "fresh"]
          /\ run' = [run EXCEPT ![w] = x]
      BY <1>0, <1>6 DEF RunStage
    <2>. HIDE DEF after
    <2>4. x \in Worker /\ x.pc \in Steps /\ x.job = run[w].job
      BY <1>0, <2>1, <2>2 DEF Worker, Steps
    <2>5. RowsKept
      BY <1>0, <2>1, <2>2, <2>3, CheckpointWritten
    <2>6. row'[x.job].state # "absent"
      BY <2>1, <2>4, <2>5 DEF RowsKept
    <2>7. /\ ledger' \in Nat /\ builds' \in [Jobs -> Nat] /\ faults' \in 0 .. MaxFaults
          /\ UNCHANGED <<ask, asks>>
      BY <1>6 DEF RunStage, TypeInv, TypeOK
    <2>. HIDE DEF x
    <2>. QED BY <2>1, <2>3, <2>4, <2>5, <2>6, <2>7, WorkerMoved
  <1>7. CASE StagesDone(w)
    <2>. DEFINE pc == IF run[w].done.build THEN "complete" ELSE "budget"
    <2>1. run[w].pc \in Steps /\ pc \in Steps /\ Goto(w, pc)
      BY <1>7 DEF StagesDone, At, Steps
    <2>. HIDE DEF pc
    <2>. QED BY <1>7, <2>1, SameRows, WorkerGoes DEF StagesDone
  <1>8. CASE CheckBudget(w)
    <2>1. run[w].pc \in Steps /\ run[w].job \in Jobs
      BY <1>8, HeldJob DEF CheckBudget, Mine, At, Steps
    <2>2. CASE Goto(w, "build") /\ UNCHANGED row
      BY <1>8, <2>1, <2>2, SameRows, WorkerGoes DEF CheckBudget, Steps
    <2>3. CASE ~(Goto(w, "build") /\ UNCHANGED row)
      <3>1. /\ Loop(w)
            /\ row' = [row EXCEPT ![run[w].job].state = "paused_budget"] \/ UNCHANGED row
        BY <1>8, <2>3 DEF CheckBudget
      <3>2. RowsKept
        BY <1>0, <2>1, <3>1, SameRows, StateWritten DEF Active
      <3>. QED BY <1>8, <3>1, <3>2, WorkerLoops DEF CheckBudget
    <2>. QED BY <2>2, <2>3
  <1>9. CASE RunBuild(w)
    <2>1. /\ run[w].pc \in Steps /\ run[w].job \in Jobs /\ row[run[w].job] \in Row
          /\ row[run[w].job].state # "absent"
      BY <1>9, HeldJob DEF RunBuild, Mine, At, Steps, TypeInv, Holds
    <2>. DEFINE after == [run[w].done EXCEPT !.build = TRUE]
                cost == run[w].cost + Price
                x == [run[w] EXCEPT !.done = after, !.pc = "complete"]
    <2>2. after \in Progress /\ cost \in Nat
      <3>1. run[w].done \in Progress /\ run[w].cost \in Nat
        BY <1>0 DEF Worker
      <3>2. after \in Progress
        BY <3>1 DEF Progress
      <3>. QED BY <3>1, <3>2, Bounds
    <2>3. /\ row' = [row EXCEPT ![run[w].job].cost = cost, ![run[w].job].checkpoint = after,
                                ![run[w].job].beat = "fresh"]
          /\ run' = [run EXCEPT ![w] = x]
      BY <1>0, <1>9 DEF RunBuild
    <2>4. /\ ledger' \in Nat /\ builds' \in [Jobs -> Nat] /\ faults' \in 0 .. MaxFaults
          /\ UNCHANGED <<ask, asks>>
      <3>1. /\ ledger' = ledger + Price /\ builds' = [builds EXCEPT ![run[w].job] = @ + 1]
            /\ UNCHANGED <<ask, asks, faults>>
        BY <1>9 DEF RunBuild, Recorded
      <3>2. ledger \in Nat /\ builds \in [Jobs -> Nat] /\ faults \in 0 .. MaxFaults
        BY DEF TypeInv, TypeOK
      <3>. QED BY <2>1, <3>1, <3>2, Bounds
    <2>. HIDE DEF after, cost
    <2>5. x \in Worker /\ x.pc \in Steps /\ x.job = run[w].job
      BY <1>0, <2>2 DEF Worker, Steps
    <2>6. RowsKept
      BY <1>0, <2>1, <2>2, <2>3, BuildWritten
    <2>7. row'[x.job].state # "absent"
      BY <2>1, <2>5, <2>6 DEF RowsKept
    <2>. HIDE DEF x
    <2>. QED BY <2>1, <2>3, <2>4, <2>5, <2>6, <2>7, WorkerMoved
  <1>10. CASE Complete(w)
    <2>1. run[w].pc \in Steps /\ run[w].job \in Jobs
      BY <1>10, HeldJob DEF Complete, Mine, At, Steps
    <2>2. RowsKept
      BY <1>0, <1>10, <2>1, StateWritten DEF Complete, Terminal
    <2>3. Goto(w, "intend") \/ Loop(w)
      BY <1>10 DEF Complete
    <2>. QED BY <1>10, <2>1, <2>2, <2>3, WorkerGoes, WorkerLoops DEF Complete, Steps
  <1>11. CASE IntendDrift(w)
    <2>1. "eval_drift" \in Kinds /\ DriftKey \in Keys /\ 0 \in Nat
      BY DEF Kinds, Keys
    <2>2. RowsKept
      BY <1>0, <1>11, <2>1, SameRows, InsertType DEF IntendDrift
    <2>. QED BY <1>11, <2>2, WorkerLoops DEF IntendDrift
  <1>. QED
    BY <1>1, <1>2, <1>3, <1>4, <1>5, <1>6, <1>7, <1>8, <1>9, <1>10, <1>11 DEF WorkerStep

\* An error, a death or a restart of a worker does too.
LEMMA TypeWorkerEnd ==
  ASSUME TypeInv, NEW w \in Workers, WorkerError(w) \/ Crash(w) \/ Restart(w)
  PROVE  TypeInv'
  <1>0. row \in [Jobs -> Row]
    BY DEF TypeInv, TypeOK
  <1>1. CASE CannotRun(w)
    <2>1. run[w].job \in Jobs
      BY <1>1, HeldJob DEF CannotRun, Mine, At, Steps
    <2>2. RowsKept
      BY <1>0, <1>1, <2>1, SameRows, StateWritten DEF CannotRun, Terminal
    <2>. QED BY <1>1, <2>2, WorkerLoops DEF CannotRun
  <1>2. CASE Fail(w)
    <2>1. run[w].job \in Jobs
      BY <1>2, HeldJob DEF Fail, Mine, At, Steps
    <2>2. RowsKept
      BY <1>0, <1>2, <2>1, StateWritten DEF Fail, Terminal
    <2>. QED BY <1>2, <2>2, WorkerLoops DEF Fail
  <1>3. CASE Crash(w)
    <2>. DEFINE x == [Poll EXCEPT !.pc = "down"]
    <2>1. x \in Worker /\ x.pc \notin Steps /\ x.job = 0
      BY Emptiness DEF Poll, Worker, Steps
    <2>2. faults' \in 0 .. MaxFaults
      BY <1>3, QueueAssumption DEF Crash, TypeInv, TypeOK
    <2>3. run' = [run EXCEPT ![w] = x] /\ RowsKept
      BY <1>3, SameRows DEF Crash
    <2>. HIDE DEF x
    <2>. QED BY <1>3, <2>1, <2>2, <2>3, WorkerMoved DEF Crash, TypeInv, TypeOK
  <1>4. CASE Restart(w)
    BY <1>4, SameRows, WorkerLoops DEF Restart
  <1>. QED BY <1>1, <1>2, <1>3, <1>4 DEF WorkerError

\* Clients, offers and time leave a well typed state.
LEMMA TypeOthers ==
  ASSUME TypeInv,
         \/ \E o \in Offers : Enqueue(o)
         \/ \E c \in Clients : ClientStep(c)
         \/ \E j \in Jobs : Expire(j) \/ Outlast(j)
  PROVE  TypeInv'
  <1>0. /\ row \in [Jobs -> Row] /\ asks \in 0 .. MaxAsks /\ faults \in 0 .. MaxFaults
        /\ ask \in [Clients -> [want : {"none", "resume", "cancel"}, job : 0 .. MaxJobs]]
    BY DEF TypeInv, TypeOK
  <1>1. ASSUME NEW o \in Offers, Enqueue(o) PROVE TypeInv'
    <2>1. RowsKept
      BY <1>0, <1>1, OfferInserted DEF Enqueue
    <2>. QED BY <1>0, <1>1, <2>1, NoWorkerMoved DEF Enqueue
  <1>2. ASSUME NEW c \in Clients, NEW j \in Jobs, NEW want \in Asks, Ask(c, want, j) PROVE TypeInv'
    BY <1>0, <1>2, SameRows, NoWorkerMoved, QueueAssumption DEF Ask, Jobs
  <1>3. ASSUME NEW c \in Clients, NEW j \in Jobs, Resume(c, j) PROVE TypeInv'
    <2>1. RowsKept
      BY <1>0, <1>3, SameRows, RequeuedType DEF Resume, RowsKept
    <2>. QED BY <1>0, <1>3, <2>1, NoWorkerMoved, Emptiness DEF Resume, Answered
  <1>4. ASSUME NEW c \in Clients, NEW j \in Jobs, Cancel(c, j) PROVE TypeInv'
    <2>1. RowsKept
      BY <1>0, <1>4, StateWritten DEF Cancel, Terminal
    <2>. QED BY <1>0, <1>4, <2>1, NoWorkerMoved, Emptiness DEF Cancel, Answered
  <1>5. ASSUME NEW j \in Jobs, Expire(j) \/ Outlast(j) PROVE TypeInv'
    <2>1. RowsKept
      BY <1>0, <1>5, BeatWritten DEF Expire, Outlast, Overdue
    <2>2. faults' \in 0 .. MaxFaults
      BY <1>0, <1>5, QueueAssumption DEF Expire, Outlast
    <2>. QED BY <1>0, <1>5, <2>1, <2>2, NoWorkerMoved DEF Expire, Outlast, Overdue
  <1>. QED BY <1>1, <1>2, <1>3, <1>4, <1>5 DEF ClientStep

\* The type invariant is inductive.
LEMMA TypeNext == TypeInv /\ [Next]_vars => TypeInv'
  <1>1. ASSUME TypeInv, Next PROVE TypeInv'
    BY <1>1, TypeWorkerStep, TypeWorkerEnd, TypeOthers DEF Next
  <1>2. ASSUME TypeInv, UNCHANGED vars PROVE TypeInv'
    BY <1>2 DEF vars, TypeInv, TypeOK, Holds, At
  <1>. QED BY <1>1, <1>2

\* Every reachable state of the queue has its type, for any numbers of workers,
\* clients, jobs, calls and faults, any offers, stages and slow steps, with or
\* without a cap.
THEOREM TypeCorrect == Spec => []TypeOK
  <1>1. TypeInv => TypeOK
    BY DEF TypeInv
  <1>. QED BY TypeInit, TypeNext, <1>1, PTL DEF Spec

-----------------------------------------------------------------------------
(* Completed means built.                                                  *)

(***************************************************************************)
(* The rows after a step that commits no build are honest: they show a     *)
(* build that was committed, and no row changes its kind.                  *)
(***************************************************************************)
Honest ==
  \A j \in Jobs :
    /\ row'[j].checkpoint.build => builds[j] >= 1
    /\ row'[j].state = "completed" /\ row'[j].kind = "pipeline" => builds[j] >= 1
    /\ row[j].state # "absent" => row'[j].kind = row[j].kind

\* An unchanged table, a state that claims nothing, an old or a fresh heartbeat.
LEMMA HonestSame ==
  ASSUME BuildInv, UNCHANGED row
  PROVE  Honest
  BY DEF BuildInv, CompletedIsBuilt, Honest

LEMMA HonestState ==
  ASSUME TypeInv, BuildInv, NEW j \in Jobs, NEW s \in Active \cup Terminal,
         s # "completed" \/ (row[j].kind = "pipeline" => builds[j] >= 1),
         \/ row' = [row EXCEPT ![j].state = s]
         \/ row' = [row EXCEPT ![j].state = s, ![j].beat = "fresh"]
  PROVE  Honest
  <1>1. row \in [Jobs -> Row]
    BY DEF TypeInv, TypeOK
  <1>2. /\ row'[j].checkpoint = row[j].checkpoint
        /\ row'[j].state = s
        /\ row'[j].kind = row[j].kind
        /\ \A k \in Jobs \ {j} : row'[k] = row[k]
    BY <1>1 DEF Row
  <1>. QED BY <1>2 DEF BuildInv, CompletedIsBuilt, Honest

LEMMA HonestBeat ==
  ASSUME TypeInv, BuildInv, NEW j \in Jobs, NEW beat, row' = [row EXCEPT ![j].beat = beat]
  PROVE  Honest
  <1>1. row \in [Jobs -> Row]
    BY DEF TypeInv, TypeOK
  <1>2. /\ row'[j].checkpoint = row[j].checkpoint
        /\ row'[j].state = row[j].state
        /\ row'[j].kind = row[j].kind
        /\ \A k \in Jobs \ {j} : row'[k] = row[k]
    BY <1>1 DEF Row
  <1>. QED BY <1>2 DEF BuildInv, CompletedIsBuilt, Honest

\* Requeueing some rows claims nothing either.
LEMMA HonestRequeue ==
  ASSUME TypeInv, BuildInv, NEW S,
         row' = [j \in Jobs |-> IF j \in S THEN Requeued(row[j]) ELSE row[j]]
  PROVE  Honest
  <1>1. row \in [Jobs -> Row]
    BY DEF TypeInv, TypeOK
  <1>2. ASSUME NEW r \in Row
        PROVE  /\ Requeued(r).checkpoint = r.checkpoint
               /\ Requeued(r).kind = r.kind
               /\ Requeued(r).state = "queued"
    BY DEF Requeued, Row
  <1>. QED BY <1>1, <1>2 DEF BuildInv, CompletedIsBuilt, Honest

\* A new job has no checkpoint.
LEMMA HonestInsert ==
  ASSUME TypeInv, BuildInv, NEW o, Insert(o)
  PROVE  Honest
  <1>. DEFINE new == [Absent EXCEPT !.state = "queued", !.kind = o.kind, !.key = o.key,
                                    !.prio = o.prio]
  <1>1. PICK j \in Jobs : Fresh(j) /\ row' = [row EXCEPT ![j] = new]
    BY DEF Insert
  <1>2. new.state = "queued" /\ new.checkpoint.build = FALSE
    BY DEF Absent, NoProgress
  <1>3. row \in [Jobs -> Row]
    BY DEF TypeInv, TypeOK
  <1>. HIDE DEF new
  <1>. QED BY <1>1, <1>2, <1>3 DEF BuildInv, CompletedIsBuilt, Honest, Fresh

(***************************************************************************)
(* What remains to be shown of a step of one worker that commits no build. *)
(***************************************************************************)
LEMMA WorkerTells ==
  ASSUME TypeInv, BuildInv, Honest, UNCHANGED builds, NEW w \in Workers,
         \A v \in Workers \ {w} : run'[v] = run[v], Evidence(w)'
  PROVE  BuildInv'
  <1>1. CompletedIsBuilt' /\ \A j \in Jobs : row'[j].checkpoint.build => builds'[j] >= 1
    BY DEF Honest, CompletedIsBuilt
  <1>2. ASSUME NEW v \in Workers PROVE Evidence(v)'
    <2>1. CASE v = w
      BY <2>1
    <2>2. CASE v # w
      <3>1. Evidence(v) /\ Holds(v) /\ run'[v] = run[v] /\ builds' = builds
        BY <2>2 DEF TypeInv, BuildInv
      <3>2. At(v, "score") => row'[run[v].job].kind = row[run[v].job].kind
        BY <3>1 DEF Holds, At, Steps, Honest
      <3>. QED BY <3>1, <3>2 DEF Evidence, At
    <2>. QED BY <2>1, <2>2
  <1>. QED BY <1>1, <1>2 DEF BuildInv

\* A worker that polls claims nothing.
LEMMA LoopTells ==
  ASSUME TypeInv, BuildInv, Honest, UNCHANGED builds, NEW w \in Workers, Loop(w)
  PROVE  BuildInv'
  <1>1. run \in [Workers -> Worker]
    BY DEF TypeInv, TypeOK
  <1>2. run'[w] = Poll /\ \A v \in Workers \ {w} : run'[v] = run[v]
    BY <1>1 DEF Loop
  <1>3. Evidence(w)'
    BY <1>2 DEF Evidence, At, Poll, NoProgress
  <1>. QED BY <1>2, <1>3, WorkerTells

\* Going on to a step other than complete and score keeps the evidence.
LEMMA GotoTells ==
  ASSUME TypeInv, BuildInv, Honest, UNCHANGED builds, NEW w \in Workers, NEW pc, Goto(w, pc),
         pc = "complete" => run[w].done.build,
         pc = "score" => row'[run[w].job].kind = "eval_drift"
  PROVE  BuildInv'
  <1>1. run \in [Workers -> Worker]
    BY DEF TypeInv, TypeOK
  <1>2. /\ run'[w].pc = pc /\ run'[w].done = run[w].done /\ run'[w].job = run[w].job
        /\ \A v \in Workers \ {w} : run'[v] = run[v]
    BY <1>1 DEF Goto, Worker
  <1>3. Evidence(w)'
    BY <1>2 DEF BuildInv, Evidence, At
  <1>. QED BY <1>2, <1>3, WorkerTells

\* The step that commits a build: the builds of the job grow with its checkpoint.
LEMMA BuildTells ==
  ASSUME TypeInv, BuildInv, NEW w \in Workers, RunBuild(w)
  PROVE  BuildInv'
  <1>. DEFINE j == run[w].job
  <1>1. /\ row \in [Jobs -> Row] /\ run \in [Workers -> Worker] /\ builds \in [Jobs -> Nat]
        /\ j \in Jobs
    BY HeldJob DEF RunBuild, Mine, At, Steps, TypeInv, TypeOK
  <1>2. builds'[j] >= 1 /\ \A k \in Jobs : builds'[k] >= builds[k]
    BY <1>1 DEF RunBuild
  <1>3. \A k \in Jobs : row'[k].state = row[k].state /\ row'[k].kind = row[k].kind
    BY <1>1 DEF RunBuild, Row
  <1>4. \A k \in Jobs \ {j} : row'[k] = row[k]
    BY <1>1 DEF RunBuild
  <1>5. \A k \in Jobs : builds[k] >= 1 => builds'[k] >= 1
    BY <1>1, <1>2 DEF RunBuild
  <1>6. CompletedIsBuilt' /\ \A k \in Jobs : row'[k].checkpoint.build => builds'[k] >= 1
    BY <1>2, <1>3, <1>4, <1>5 DEF BuildInv, CompletedIsBuilt
  <1>7. /\ run'[w].pc = "complete" /\ run'[w].job = j /\ run'[w].done.build
        /\ \A v \in Workers \ {w} : run'[v] = run[v]
    BY <1>1 DEF RunBuild, Worker, Progress
  <1>8. ASSUME NEW v \in Workers PROVE Evidence(v)'
    <2>1. CASE v = w
      BY <1>1, <1>2, <1>7, <2>1 DEF Evidence, At
    <2>2. CASE v # w
      <3>1. Evidence(v) /\ Holds(v) /\ run'[v] = run[v]
        BY <1>7, <2>2 DEF TypeInv, BuildInv
      <3>2. At(v, "score") => row'[run[v].job].kind = row[run[v].job].kind
        BY <1>3, <3>1 DEF Holds, At, Steps
      <3>. QED BY <1>5, <3>1, <3>2 DEF Evidence, At
    <2>. QED BY <2>1, <2>2
  <1>. QED BY <1>6, <1>8 DEF BuildInv

\* A step of a worker that commits no build.
LEMMA OtherStepsTell ==
  ASSUME TypeInv, BuildInv, NEW w \in Workers, WorkerStep(w), ~RunBuild(w)
  PROVE  BuildInv'
  <1>0. row \in [Jobs -> Row] /\ run \in [Workers -> Worker] /\ run[w] \in Worker
    BY DEF TypeInv, TypeOK
  <1>1. CASE ReapRead(w)
    <2>1. /\ run'[w].pc \in {"claim", "reap"} /\ run'[w].done = run[w].done /\ run'[w].job = run[w].job
          /\ \A v \in Workers \ {w} : run'[v] = run[v]
      BY <1>0, <1>1 DEF ReapRead, Worker
    <2>2. Evidence(w)'
      BY <1>1, <2>1 DEF BuildInv, Evidence, At, ReapRead
    <2>. QED BY <1>1, <2>1, <2>2, HonestSame, WorkerTells DEF ReapRead
  <1>2. CASE ReapWrite(w)
    <2>1. CASE Loop(w) /\ UNCHANGED row
      BY <1>2, <2>1, HonestSame, LoopTells DEF ReapWrite
    <2>2. CASE ~(Loop(w) /\ UNCHANGED row)
      <3>. DEFINE S == run[w].reaping
      <3>1. /\ row' = [j \in Jobs |-> IF j \in S THEN Requeued(row[j]) ELSE row[j]]
            /\ run' = [run EXCEPT ![w] = [Poll EXCEPT !.pc = "claim"]]
        BY <1>2, <2>2 DEF ReapWrite
      <3>2. /\ run'[w].pc = "claim" /\ run'[w].done = NoProgress
            /\ \A v \in Workers \ {w} : run'[v] = run[v]
        BY <1>0, <3>1 DEF Poll
      <3>3. Evidence(w)'
        BY <3>2 DEF Evidence, At, NoProgress
      <3>4. Honest
        <4>. HIDE DEF S
        <4>. QED BY <3>1, HonestRequeue
      <3>. QED BY <1>2, <3>2, <3>3, <3>4, WorkerTells DEF ReapWrite
    <2>. QED BY <2>1, <2>2
  <1>3. CASE Claim(w)
    <2>1. CASE Candidates = {} /\ Loop(w) /\ UNCHANGED row
      BY <1>3, <2>1, HonestSame, LoopTells DEF Claim
    <2>2. CASE ~(Candidates = {} /\ Loop(w) /\ UNCHANGED row)
      <3>1. PICK j \in Jobs :
              /\ row' = [row EXCEPT ![j].state = "claimed", ![j].beat = "fresh"]
              /\ run' = [run EXCEPT ![w].pc = "claimed", ![w].job = j]
        BY <1>3, <2>2 DEF Claim
      <3>2. /\ run'[w].pc = "claimed" /\ run'[w].done = run[w].done
            /\ \A v \in Workers \ {w} : run'[v] = run[v]
        BY <1>0, <3>1 DEF Worker
      <3>3. run[w].job = 0
        BY <1>3 DEF Claim, At, Steps, TypeInv, Holds
      <3>4. Evidence(w)'
        BY <3>2, <3>3 DEF BuildInv, Evidence, At, Jobs
      <3>5. Honest
        BY <3>1, HonestState DEF Active
      <3>. QED BY <1>3, <3>2, <3>4, <3>5, WorkerTells DEF Claim
    <2>. QED BY <2>1, <2>2
  <1>4. CASE Start(w)
    <2>1. run[w].job \in Jobs /\ row[run[w].job].state # "absent"
      BY <1>4, HeldJob DEF Start, Mine, At, Steps, TypeInv, Holds
    <2>2. CASE Loop(w) /\ UNCHANGED row
      BY <1>4, <2>2, HonestSame, LoopTells DEF Start
    <2>3. CASE ~(Loop(w) /\ UNCHANGED row)
      <3>. DEFINE pc == IF row[run[w].job].kind = "eval_drift" THEN "score" ELSE "read"
      <3>1. /\ row' = [row EXCEPT ![run[w].job].state = "running", ![run[w].job].beat = "fresh"]
            /\ Goto(w, pc)
        BY <1>4, <2>3 DEF Start
      <3>2. Honest
        BY <2>1, <3>1, HonestState DEF Active
      <3>3. pc # "complete" /\ (pc = "score" => row'[run[w].job].kind = "eval_drift")
        BY <2>1, <3>2 DEF Honest
      <3>. HIDE DEF pc
      <3>. QED BY <1>4, <3>1, <3>2, <3>3, GotoTells DEF Start
    <2>. QED BY <2>2, <2>3
  <1>5. CASE ReadCheckpoint(w)
    <2>1. run[w].job \in Jobs
      BY <1>5, HeldJob DEF ReadCheckpoint, At, Steps
    <2>2. /\ run'[w].pc = "stages" /\ run'[w].job = run[w].job
          /\ run'[w].done = row[run[w].job].checkpoint
          /\ \A v \in Workers \ {w} : run'[v] = run[v]
      BY <1>0, <1>5 DEF ReadCheckpoint, Worker
    <2>3. Evidence(w)'
      BY <1>5, <2>1, <2>2 DEF BuildInv, Evidence, At, ReadCheckpoint
    <2>. QED BY <1>5, <2>2, <2>3, HonestSame, WorkerTells DEF ReadCheckpoint
  <1>6. CASE RunStage(w)
    <2>. DEFINE after == [run[w].done EXCEPT !.pre = @ + 1]
    <2>1. run[w].job \in Jobs
      BY <1>6, HeldJob DEF RunStage, Mine, At, Steps
    <2>2. after.build = run[w].done.build
      BY <1>0 DEF Worker, Progress
    <2>3. /\ run'[w].pc = run[w].pc /\ run'[w].job = run[w].job /\ run'[w].done = after
          /\ \A v \in Workers \ {w} : run'[v] = run[v]
      BY <1>0, <1>6 DEF RunStage, Worker
    <2>4. row' = [row EXCEPT ![run[w].job].checkpoint = after, ![run[w].job].beat = "fresh"]
      BY <1>6 DEF RunStage
    <2>. HIDE DEF after
    <2>5. /\ \A j \in Jobs : row'[j].state = row[j].state /\ row'[j].kind = row[j].kind
          /\ row'[run[w].job].checkpoint = after
          /\ \A j \in Jobs \ {run[w].job} : row'[j] = row[j]
      BY <1>0, <2>1, <2>4 DEF Row
    <2>6. Honest
      BY <2>2, <2>5 DEF Honest, BuildInv, CompletedIsBuilt, Evidence
    <2>7. Evidence(w)'
      BY <1>6, <2>2, <2>3 DEF BuildInv, Evidence, At, RunStage, Mine
    <2>. QED BY <1>6, <2>3, <2>6, <2>7, WorkerTells DEF RunStage
  <1>7. CASE StagesDone(w)
    <2>. DEFINE pc == IF run[w].done.build THEN "complete" ELSE "budget"
    <2>1. Goto(w, pc) /\ (pc = "complete" => run[w].done.build) /\ pc # "score"
      BY <1>7 DEF StagesDone
    <2>. HIDE DEF pc
    <2>. QED BY <1>7, <2>1, HonestSame, GotoTells DEF StagesDone
  <1>8. CASE CheckBudget(w)
    <2>1. run[w].job \in Jobs
      BY <1>8, HeldJob DEF CheckBudget, Mine, At, Steps
    <2>2. CASE Goto(w, "build") /\ UNCHANGED row
      BY <1>8, <2>2, HonestSame, GotoTells DEF CheckBudget
    <2>3. CASE ~(Goto(w, "build") /\ UNCHANGED row)
      <3>1. /\ Loop(w)
            /\ row' = [row EXCEPT ![run[w].job].state = "paused_budget"] \/ UNCHANGED row
        BY <1>8, <2>3 DEF CheckBudget
      <3>2. Honest
        BY <2>1, <3>1, HonestSame, HonestState DEF Active
      <3>. QED BY <1>8, <3>1, <3>2, LoopTells DEF CheckBudget
    <2>. QED BY <2>2, <2>3
  <1>9. CASE Complete(w)
    <2>1. run[w].job \in Jobs
      BY <1>9, HeldJob DEF Complete, Mine, At, Steps
    <2>2. row[run[w].job].kind = "pipeline" => builds[run[w].job] >= 1
      BY <1>9 DEF Complete, Mine, BuildInv, Evidence
    <2>3. Honest
      BY <1>9, <2>1, <2>2, HonestState DEF Complete, Terminal
    <2>. QED BY <1>9, <2>3, GotoTells, LoopTells DEF Complete
  <1>10. CASE IntendDrift(w)
    <2>1. Honest
      BY <1>10, HonestSame, HonestInsert DEF IntendDrift
    <2>. QED BY <1>10, <2>1, LoopTells DEF IntendDrift
  <1>. QED
    BY <1>1, <1>2, <1>3, <1>4, <1>5, <1>6, <1>7, <1>8, <1>9, <1>10 DEF WorkerStep

\* An error, a death or a restart of a worker.
LEMMA EndsTell ==
  ASSUME TypeInv, BuildInv, NEW w \in Workers, WorkerError(w) \/ Crash(w) \/ Restart(w)
  PROVE  BuildInv'
  <1>1. CASE CannotRun(w)
    <2>1. run[w].job \in Jobs
      BY <1>1, HeldJob DEF CannotRun, Mine, At, Steps
    <2>2. Honest
      BY <1>1, <2>1, HonestSame, HonestState DEF CannotRun, Terminal
    <2>. QED BY <1>1, <2>2, LoopTells DEF CannotRun
  <1>2. CASE Fail(w)
    <2>1. run[w].job \in Jobs
      BY <1>2, HeldJob DEF Fail, Mine, At, Steps
    <2>2. Honest
      BY <1>2, <2>1, HonestState DEF Fail, Terminal
    <2>. QED BY <1>2, <2>2, LoopTells DEF Fail
  <1>3. CASE Crash(w)
    <2>1. run \in [Workers -> Worker]
      BY DEF TypeInv, TypeOK
    <2>2. /\ run'[w].pc = "down" /\ run'[w].done = NoProgress
          /\ \A v \in Workers \ {w} : run'[v] = run[v]
      BY <1>3, <2>1 DEF Crash, Poll
    <2>3. Evidence(w)'
      BY <2>2 DEF Evidence, At, NoProgress
    <2>. QED BY <1>3, <2>2, <2>3, HonestSame, WorkerTells DEF Crash
  <1>4. CASE Restart(w)
    BY <1>4, HonestSame, LoopTells DEF Restart
  <1>. QED BY <1>1, <1>2, <1>3, <1>4 DEF WorkerError

\* Steps that leave the workers and the builds alone.
LEMMA OthersTell ==
  ASSUME TypeInv, BuildInv, Honest, UNCHANGED <<run, builds>>
  PROVE  BuildInv'
  <1>1. CompletedIsBuilt' /\ \A j \in Jobs : row'[j].checkpoint.build => builds'[j] >= 1
    BY DEF Honest, CompletedIsBuilt
  <1>2. ASSUME NEW v \in Workers PROVE Evidence(v)'
    <2>1. Evidence(v) /\ Holds(v)
      BY DEF TypeInv, BuildInv
    <2>2. At(v, "score") => row'[run[v].job].kind = row[run[v].job].kind
      BY <2>1 DEF Holds, At, Steps, Honest
    <2>. QED BY <2>1, <2>2 DEF Evidence, At
  <1>. QED BY <1>1, <1>2 DEF BuildInv

\* The build invariant is inductive on top of the type invariant.
LEMMA BuildNext == TypeInv /\ BuildInv /\ [Next]_vars => BuildInv'
  <1>. SUFFICES ASSUME TypeInv, BuildInv, [Next]_vars PROVE BuildInv'
    OBVIOUS
  <1>1. ASSUME NEW o \in Offers, Enqueue(o) PROVE BuildInv'
    BY <1>1, HonestInsert, OthersTell DEF Enqueue
  <1>2. ASSUME NEW w \in Workers, WorkerStep(w) PROVE BuildInv'
    BY <1>2, BuildTells, OtherStepsTell
  <1>3. ASSUME NEW w \in Workers, WorkerError(w) \/ Crash(w) \/ Restart(w) PROVE BuildInv'
    BY <1>3, EndsTell
  <1>4. ASSUME NEW c \in Clients, NEW j \in Jobs, NEW want \in Asks, Ask(c, want, j)
        PROVE  BuildInv'
    BY <1>4, HonestSame, OthersTell DEF Ask
  <1>5. ASSUME NEW c \in Clients, NEW j \in Jobs, Resume(c, j) PROVE BuildInv'
    <2>1. CASE UNCHANGED row
      BY <1>5, <2>1, HonestSame, OthersTell DEF Resume
    <2>2. CASE row' = [row EXCEPT ![j] = Requeued(@)]
      <3>1. row' = [k \in Jobs |-> IF k \in {j} THEN Requeued(row[k]) ELSE row[k]]
        BY <2>2 DEF TypeInv, TypeOK
      <3>. QED BY <1>5, <3>1, HonestRequeue, OthersTell DEF Resume
    <2>. QED BY <1>5, <2>1, <2>2 DEF Resume
  <1>6. ASSUME NEW c \in Clients, NEW j \in Jobs, Cancel(c, j) PROVE BuildInv'
    BY <1>6, HonestState, OthersTell DEF Cancel, Terminal
  <1>7. ASSUME NEW j \in Jobs, Expire(j) \/ Outlast(j) PROVE BuildInv'
    BY <1>7, HonestBeat, OthersTell DEF Expire, Outlast, Overdue
  <1>8. CASE UNCHANGED vars
    BY <1>8, HonestSame, OthersTell DEF vars
  <1>. QED BY <1>1, <1>2, <1>3, <1>4, <1>5, <1>6, <1>7, <1>8 DEF Next, ClientStep

\* A job of the pipeline that shows completed has a committed build: also when a
\* worker that was declared dead, or one that took the job over, completed it, and
\* for any numbers of workers, clients, jobs and faults.
THEOREM CompletedJobsAreBuilt == Spec => []CompletedIsBuilt
  <1>1. Init => BuildInv
    BY DEF Init, BuildInv, CompletedIsBuilt, Evidence, At, Absent, Poll, NoProgress
  <1>2. BuildInv => CompletedIsBuilt
    BY DEF BuildInv
  <1>. QED BY TypeInit, TypeNext, BuildNext, <1>1, <1>2, PTL DEF Spec

-----------------------------------------------------------------------------
(* The bound on overspending.                                              *)

(***************************************************************************)
(* A worker between the gate and its ledger entry has been promised the    *)
(* price of a build.  Spent and promised together stay below the cap plus  *)
(* one build for every worker but one: the last to pass the gate saw the   *)
(* ledger with its own build below the cap.                                *)
(***************************************************************************)
Building == {w \in Workers : At(w, "build")}
Limit == Cap + (Cardinality(Workers) - 1) * Price
BudgetInv == Capped => ledger + Cardinality(Building) * Price <= Limit

Product(k, p) ==
  /\ k * p \in Nat
  /\ (k - 1) * p = k * p - p
  /\ (k + 1) * p = k * p + p
\* A multiple of a number, and those next to it.
LEMMA Products == ASSUME NEW k \in Nat, NEW p \in Nat PROVE Product(k, p)
  <1>1. k * p \in Nat
    OBVIOUS
  <1>2. (k - 1) * p = k * p - p /\ (k + 1) * p = k * p + p
    OBVIOUS
  <1>. QED BY <1>1, <1>2 DEF Product

\* A product of a sum.
LEMMA Distributes ==
  ASSUME NEW k \in Nat, NEW n \in Nat, NEW p \in Nat
  PROVE  (k + n) * p = k * p + n * p
  OBVIOUS

\* Multiplication by the price is monotonic.
LEMMA PriceMonotone ==
  ASSUME NEW k \in Nat, NEW m \in Nat, k <= m
  PROVE  k * Price <= m * Price
  <1>1. Price \in Nat
    BY Bounds
  <1>2. PICK n \in Nat : m = k + n
    <2>1. m - k \in Nat /\ m = k + (m - k)
      OBVIOUS
    <2>. QED BY <2>1
  <1>3. n * Price \in Nat /\ k * Price \in Nat
    BY <1>1, Products DEF Product
  <1>4. (k + n) * Price = k * Price + n * Price
    BY <1>1, Distributes
  <1>. QED BY <1>2, <1>3, <1>4

\* The workers in a build are finitely many, and no more than there are workers.
LEMMA BuildingSize ==
  /\ IsFiniteSet(Building) /\ Cardinality(Building) \in Nat
  /\ Cardinality(Workers) \in Nat /\ Cardinality(Building) <= Cardinality(Workers)
  BY QueueAssumption, FS_Subset, FS_CardinalityType DEF Building

\* A step that spends nothing and starts no build keeps the bound.
LEMMA BudgetKept ==
  ASSUME TypeInv, BudgetInv, ledger' = ledger, Building' \subseteq Building
  PROVE  BudgetInv'
  <1>1. /\ Cardinality(Building') \in Nat
        /\ Cardinality(Building') <= Cardinality(Building)
    BY BuildingSize, FS_Subset, FS_CardinalityType
  <1>2. Cardinality(Building') * Price <= Cardinality(Building) * Price
    BY <1>1, BuildingSize, PriceMonotone
  <1>3. /\ ledger \in Nat /\ Limit \in Int
        /\ Cardinality(Building) * Price \in Nat /\ Cardinality(Building') * Price \in Nat
    BY <1>1, BuildingSize, Bounds DEF TypeInv, TypeOK, Limit
  <1>4. Capped => ledger' + Cardinality(Building') * Price <= Limit
    BY <1>2, <1>3 DEF BudgetInv
  <1>. QED BY <1>4 DEF BudgetInv, Limit

\* A worker that goes anywhere but to a build is not building.
LEMMA NotBuilding ==
  ASSUME TypeInv, NEW w \in Workers,
         \/ Loop(w)
         \/ \E pc \in Steps \ {"build"} : Goto(w, pc)
         \/ /\ run'[w].pc # "build"
            /\ \A v \in Workers \ {w} : run'[v] = run[v]
  PROVE  Building' \subseteq Building
  <1>1. run \in [Workers -> Worker]
    BY DEF TypeInv, TypeOK
  <1>2. /\ run'[w].pc # "build"
        /\ \A v \in Workers \ {w} : run'[v] = run[v]
    BY <1>1 DEF Loop, Poll, Goto, Worker
  <1>. QED BY <1>2 DEF Building, At

\* The gate lets a worker build: its price fits below the cap.
LEMMA BudgetPromised ==
  ASSUME TypeInv, BudgetInv, NEW w \in Workers, At(w, "budget"), Capped => WithinBudget,
         Goto(w, "build"), ledger' = ledger
  PROVE  BudgetInv'
  <1>. DEFINE k == Cardinality(Building)
              n == Cardinality(Workers)
  <1>1. run \in [Workers -> Worker] /\ ledger \in Nat
    BY DEF TypeInv, TypeOK
  <1>2. Building' = Building \cup {w} /\ w \notin Building
    BY <1>1 DEF At, Building, Goto, Worker
  <1>3. Cardinality(Building') = k + 1
    <2>1. IsFiniteSet(Building)
      BY BuildingSize
    <2>2. Cardinality(Building \cup {w}) = Cardinality(Building) + 1
      BY ZenonT(60), <1>2, <2>1, FS_AddElement
    <2>. QED BY ZenonT(60), <1>2, <2>2
  <1>4. Cardinality(Building') <= n
    BY <1>2, QueueAssumption, FS_Subset DEF Building
  <1>5. k \in Nat /\ n \in Nat /\ n - 1 \in Nat /\ k <= n - 1
    BY <1>3, <1>4, BuildingSize
  <1>6. k * Price <= (n - 1) * Price
    BY <1>5, PriceMonotone
  <1>7. Product(k, Price) /\ Product(n - 1, Price)
    BY ZenonT(60), <1>5, Bounds, Products
  <1>8. /\ (k + 1) * Price = k * Price + Price
        /\ k * Price \in Nat /\ (n - 1) * Price \in Nat
    BY ZenonT(60), <1>7 DEF Product
  <1>9. Capped => ledger + Price <= Cap
    BY DEF WithinBudget, Recorded
  <1>10. Capped => ledger' + (k + 1) * Price <= Cap + (n - 1) * Price
    BY <1>1, <1>6, <1>8, <1>9, Bounds
  <1>. QED BY <1>3, <1>10 DEF BudgetInv, Limit

\* A build spends what was promised.
LEMMA BudgetSpent ==
  ASSUME TypeInv, BudgetInv, NEW w \in Workers, RunBuild(w)
  PROVE  BudgetInv'
  <1>. DEFINE k == Cardinality(Building)
  <1>1. run \in [Workers -> Worker] /\ ledger \in Nat /\ ledger' = ledger + Price
    BY DEF TypeInv, TypeOK, RunBuild, Recorded
  <1>2. Building' = Building \ {w} /\ w \in Building
    BY <1>1 DEF RunBuild, Mine, At, Building, Worker
  <1>3. Cardinality(Building') = k - 1 /\ k \in Nat /\ k # 0
    BY <1>2, BuildingSize, FS_RemoveElement, FS_EmptySet
  <1>4. (k - 1) * Price = k * Price - Price /\ k * Price \in Nat
    <2>1. Product(k, Price)
      BY ZenonT(60), <1>3, Bounds, Products
    <2>. QED BY ZenonT(60), <2>1 DEF Product
  <1>5. Capped => ledger + k * Price <= Limit
    BY DEF BudgetInv
  <1>6. Limit \in Int
    BY BuildingSize, Bounds DEF Limit
  <1>7. Capped => ledger' + (k - 1) * Price <= Limit
    BY <1>1, <1>4, <1>5, <1>6, Bounds
  <1>. QED BY <1>3, <1>7 DEF BudgetInv, Limit

\* The budget invariant is inductive on top of the type invariant.
LEMMA BudgetNext == TypeInv /\ BudgetInv /\ [Next]_vars => BudgetInv'
  <1>. SUFFICES ASSUME TypeInv, BudgetInv, [Next]_vars PROVE BudgetInv'
    OBVIOUS
  <1>0. run \in [Workers -> Worker]
    BY DEF TypeInv, TypeOK
  <1>1. ASSUME NEW w \in Workers, WorkerStep(w) PROVE BudgetInv'
    <2>1. CASE ReapRead(w)
      <3>1. run'[w].pc # "build" /\ \A v \in Workers \ {w} : run'[v] = run[v]
        BY <1>0, <2>1 DEF ReapRead, Worker
      <3>. QED BY <2>1, <3>1, NotBuilding, BudgetKept DEF ReapRead
    <2>2. CASE ReapWrite(w)
      <3>1. Loop(w) \/ run' = [run EXCEPT ![w] = [Poll EXCEPT !.pc = "claim"]]
        BY <2>2 DEF ReapWrite
      <3>2. Loop(w) \/ (run'[w].pc # "build" /\ \A v \in Workers \ {w} : run'[v] = run[v])
        BY <1>0, <3>1 DEF Poll
      <3>. QED BY <2>2, <3>2, NotBuilding, BudgetKept DEF ReapWrite
    <2>3. CASE Claim(w)
      <3>1. Loop(w) \/ \E j \in Jobs : run' = [run EXCEPT ![w].pc = "claimed", ![w].job = j]
        BY <2>3 DEF Claim
      <3>2. Loop(w) \/ (run'[w].pc # "build" /\ \A v \in Workers \ {w} : run'[v] = run[v])
        BY <1>0, <3>1 DEF Worker
      <3>. QED BY <2>3, <3>2, NotBuilding, BudgetKept DEF Claim
    <2>4. CASE Start(w)
      <3>1. Loop(w) \/ Goto(w, "score") \/ Goto(w, "read")
        BY <2>4 DEF Start
      <3>. QED BY <2>4, <3>1, NotBuilding, BudgetKept DEF Start, Steps
    <2>5. CASE ReadCheckpoint(w)
      <3>1. run'[w].pc # "build" /\ \A v \in Workers \ {w} : run'[v] = run[v]
        BY <1>0, <2>5 DEF ReadCheckpoint, Worker
      <3>. QED BY <2>5, <3>1, NotBuilding, BudgetKept DEF ReadCheckpoint
    <2>6. CASE RunStage(w)
      <3>1. run'[w].pc # "build" /\ \A v \in Workers \ {w} : run'[v] = run[v]
        BY <1>0, <2>6 DEF RunStage, Mine, At, Worker
      <3>. QED BY <2>6, <3>1, NotBuilding, BudgetKept DEF RunStage
    <2>7. CASE StagesDone(w)
      <3>1. Goto(w, "complete") \/ Goto(w, "budget")
        BY <2>7 DEF StagesDone
      <3>. QED BY <2>7, <3>1, NotBuilding, BudgetKept DEF StagesDone, Steps
    <2>8. CASE CheckBudget(w)
      <3>1. Loop(w) \/ (WithinBudget /\ Goto(w, "build"))
        BY <2>8 DEF CheckBudget
      <3>. QED BY <2>8, <3>1, NotBuilding, BudgetKept, BudgetPromised DEF CheckBudget, Mine
    <2>9. CASE RunBuild(w)
      BY <2>9, BudgetSpent
    <2>10. CASE Complete(w)
      <3>1. Loop(w) \/ Goto(w, "intend")
        BY <2>10 DEF Complete
      <3>. QED BY <2>10, <3>1, NotBuilding, BudgetKept DEF Complete, Steps
    <2>11. CASE IntendDrift(w)
      BY <2>11, NotBuilding, BudgetKept DEF IntendDrift
    <2>. QED
      BY <1>1, <2>1, <2>2, <2>3, <2>4, <2>5, <2>6, <2>7, <2>8, <2>9, <2>10, <2>11 DEF WorkerStep
  <1>2. ASSUME NEW w \in Workers, WorkerError(w) \/ Restart(w) PROVE BudgetInv'
    BY <1>2, NotBuilding, BudgetKept DEF WorkerError, CannotRun, Fail, Restart
  <1>3. ASSUME NEW w \in Workers, Crash(w) PROVE BudgetInv'
    <2>1. run'[w].pc # "build" /\ \A v \in Workers \ {w} : run'[v] = run[v]
      BY <1>0, <1>3 DEF Crash, Poll
    <2>. QED BY <1>3, <2>1, NotBuilding, BudgetKept DEF Crash
  <1>4. CASE UNCHANGED <<run, ledger>>
    BY <1>4, BudgetKept DEF Building, At
  <1>5. ASSUME NEW c \in Clients, ClientStep(c) PROVE UNCHANGED <<run, ledger>>
    BY <1>5 DEF ClientStep, Ask, Resume, Cancel
  <1>6. ASSUME NEW o \in Offers, Enqueue(o) PROVE UNCHANGED <<run, ledger>>
    BY <1>6 DEF Enqueue
  <1>7. ASSUME NEW j \in Jobs, Expire(j) \/ Outlast(j) PROVE UNCHANGED <<run, ledger>>
    BY <1>7 DEF Expire, Outlast, Overdue
  <1>. QED BY <1>1, <1>2, <1>3, <1>4, <1>5, <1>6, <1>7 DEF Next, vars

\* The cap is exceeded by at most one build for every worker but one, whatever the
\* number of workers, jobs, deaths and outlasted timeouts.
THEOREM OverspendBounded == Spec => []OverspendIsBounded
  <1>1. Init => BudgetInv
    <2>. SUFFICES ASSUME Init PROVE BudgetInv
      OBVIOUS
    <2>1. Building = {} /\ ledger = 0
      BY DEF Init, Building, At, Poll
    <2>2. Cardinality(Building) = 0
      BY <2>1, FS_EmptySet
    <2>3. Cardinality(Workers) \in Nat /\ Cardinality(Workers) # 0
      BY QueueAssumption, FS_EmptySet, FS_CardinalityType
    <2>4. Cardinality(Workers) - 1 \in Nat
      BY <2>3
    <2>5. Limit \in Nat
      BY <2>4, Bounds DEF Limit
    <2>. QED BY <2>1, <2>2, <2>5, Bounds DEF BudgetInv
  <1>2. TypeInv /\ BudgetInv => OverspendIsBounded
    <2>. SUFFICES ASSUME TypeInv, BudgetInv, Capped PROVE ledger <= Limit
      BY DEF OverspendIsBounded, Limit
    <2>1. Cardinality(Building) * Price \in Nat /\ ledger \in Nat /\ Limit \in Int
      BY BuildingSize, Bounds DEF TypeInv, TypeOK, Limit
    <2>. QED BY <2>1 DEF BudgetInv
  <1>. QED BY TypeInit, TypeNext, BudgetNext, <1>1, <1>2, PTL DEF Spec

-----------------------------------------------------------------------------
(***************************************************************************)
(* One worker, which compose and the chart deploy by default.  It may die  *)
(* anywhere and outlast its timeout, clients may resume and cancel what    *)
(* they like: with nobody to take its job over, what its session loaded    *)
(* is what the row says.  With two workers each of these properties fails. *)
(***************************************************************************)
OneWorker == \A v, w \in Workers : v = w

\* The row of a job tells whether it was built, and what that cost.
Told(j) ==
  /\ builds[j] = IF row[j].checkpoint.build THEN 1 ELSE 0
  /\ row[j].cost = builds[j] * Price
  /\ row[j].state = "absent" => row[j].checkpoint = NoProgress

\* A session that runs stages knows what the row says.
Loaded(w) ==
  /\ run[w].pc \in {"stages", "budget", "build"} =>
       run[w].done = row[run[w].job].checkpoint /\ run[w].cost = row[run[w].job].cost
  /\ run[w].pc \in {"budget", "build"} => ~run[w].done.build

SoloInv == (\A j \in Jobs : Told(j)) /\ (\A w \in Workers : Loaded(w))

ProgressKept ==
  \A j \in Jobs :
    /\ row'[j].checkpoint = row[j].checkpoint
    /\ row'[j].cost = row[j].cost
    /\ row'[j].state = "absent" => row[j].state = "absent"

NoCheckpointLost ==
  \A j \in Jobs :
    /\ row[j].checkpoint.pre <= row'[j].checkpoint.pre
    /\ row[j].checkpoint.build => row'[j].checkpoint.build

\* Neither a new state nor a heartbeat touches the progress of a job.
LEMMA ProgressState ==
  ASSUME TypeInv, NEW j \in Jobs, NEW s \in Active \cup Terminal,
         \/ row' = [row EXCEPT ![j].state = s]
         \/ row' = [row EXCEPT ![j].state = s, ![j].beat = "fresh"]
  PROVE  ProgressKept
  <1>1. row \in [Jobs -> Row]
    BY DEF TypeInv, TypeOK
  <1>2. /\ row'[j].checkpoint = row[j].checkpoint /\ row'[j].cost = row[j].cost
        /\ row'[j].state = s
        /\ \A k \in Jobs \ {j} : row'[k] = row[k]
    BY <1>1 DEF Row
  <1> QED BY <1>2 DEF ProgressKept, Active, Terminal

LEMMA ProgressBeat ==
  ASSUME TypeInv, NEW j \in Jobs, NEW beat, row' = [row EXCEPT ![j].beat = beat]
  PROVE  ProgressKept
  <1>1. row \in [Jobs -> Row]
    BY DEF TypeInv, TypeOK
  <1> QED BY <1>1 DEF ProgressKept, Row

\* Requeueing keeps the checkpoint.
LEMMA ProgressRequeue ==
  ASSUME TypeInv, NEW S,
         row' = [j \in Jobs |-> IF j \in S THEN Requeued(row[j]) ELSE row[j]]
  PROVE  ProgressKept
  <1>1. row \in [Jobs -> Row]
    BY DEF TypeInv, TypeOK
  <1>2. ASSUME NEW r \in Row
        PROVE  /\ Requeued(r).checkpoint = r.checkpoint /\ Requeued(r).cost = r.cost
               /\ Requeued(r).state = "queued"
    BY DEF Requeued, Row
  <1> QED BY <1>1, <1>2 DEF ProgressKept

\* A new job starts where an absent row is.
LEMMA ProgressInsert ==
  ASSUME TypeInv, SoloInv, NEW o, Insert(o)
  PROVE  ProgressKept
  <1> DEFINE new == [Absent EXCEPT !.state = "queued", !.kind = o.kind, !.key = o.key,
                                   !.prio = o.prio]
  <1>1. PICK j \in Jobs : Fresh(j) /\ row' = [row EXCEPT ![j] = new]
    BY DEF Insert
  <1>2. new.state = "queued" /\ new.checkpoint = NoProgress /\ new.cost = 0
    BY DEF Absent
  <1>3. row \in [Jobs -> Row]
    BY DEF TypeInv, TypeOK
  <1>4. row[j].checkpoint = NoProgress /\ row[j].cost = 0 * Price
    BY <1>1 DEF Fresh, SoloInv, Told, NoProgress
  <1>5. 0 * Price = 0
    BY Bounds
  <1> HIDE DEF new
  <1> QED BY <1>1, <1>2, <1>3, <1>4, <1>5 DEF ProgressKept

\* A step that keeps the progress of every job keeps what the rows tell.
LEMMA ProgressTold ==
  ASSUME TypeInv, SoloInv, ProgressKept, UNCHANGED builds
  PROVE  (\A j \in Jobs : Told(j)') /\ NoCheckpointLost
  <1>1. \A j \in Jobs : row[j].checkpoint.pre \in Nat
    BY Bounds DEF TypeInv, TypeOK, Row, Progress
  <1> QED BY <1>1 DEF SoloInv, Told, ProgressKept, NoCheckpointLost

\* Whoever is outside the stages relies on nothing.
LEMMA OutsideStages ==
  ASSUME OneWorker, TypeInv, SoloInv, ProgressKept, UNCHANGED builds, NEW w \in Workers,
         run'[w].pc \notin {"stages", "budget", "build"}
  PROVE  SoloInv' /\ NoCheckpointLost
  <1>1. \A v \in Workers : Loaded(v)'
    BY DEF OneWorker, Loaded
  <1> QED BY <1>1, ProgressTold DEF SoloInv

\* Nor does a step of somebody else change what the worker relies on.
LEMMA StagesLeftAlone ==
  ASSUME TypeInv, SoloInv, ProgressKept, UNCHANGED <<run, builds>>
  PROVE  SoloInv' /\ NoCheckpointLost
  <1>1. ASSUME NEW w \in Workers PROVE Loaded(w)'
    <2>1. run[w].pc \in {"stages", "budget", "build"} => run[w].job \in Jobs
      BY DEF TypeInv, Holds, Steps
    <2> QED BY <2>1 DEF SoloInv, Loaded, ProgressKept
  <1> QED BY <1>1, ProgressTold DEF SoloInv

\* The steps of the only worker: a build is committed only for a job whose row does not
\* show one.
LEMMA SoloWorker ==
  ASSUME OneWorker, TypeInv, SoloInv, NEW w \in Workers, WorkerStep(w)
  PROVE  SoloInv' /\ NoCheckpointLost
  <1> DEFINE j == run[w].job
  <1>0. /\ row \in [Jobs -> Row] /\ run \in [Workers -> Worker] /\ run[w] \in Worker
        /\ builds \in [Jobs -> Nat] /\ Loaded(w) /\ Price \in Nat
    BY Bounds DEF TypeInv, TypeOK, SoloInv
  <1>s. ASSUME UNCHANGED row PROVE ProgressKept
    BY <1>s DEF ProgressKept
  <1>1. CASE ReapRead(w)
    <2>1. run'[w].pc \in {"claim", "reap"} /\ UNCHANGED <<row, builds>>
      BY <1>0, <1>1 DEF ReapRead, Worker
    <2> QED BY <1>s, <2>1, OutsideStages
  <1>2. CASE ReapWrite(w)
    <2>1. run'[w].pc \in {"poll", "claim"} /\ UNCHANGED builds
      BY <1>0, <1>2 DEF ReapWrite, Loop, Poll
    <2>2. ProgressKept
      <3>1. CASE UNCHANGED row BY <1>s, <3>1
      <3>2. CASE ~UNCHANGED row
        <4>1. row' = [k \in Jobs |-> IF k \in run[w].reaping THEN Requeued(row[k]) ELSE row[k]]
          BY <1>2, <3>2 DEF ReapWrite
        <4> QED BY <4>1, ProgressRequeue
      <3> QED BY <3>1, <3>2
    <2> QED BY <2>1, <2>2, OutsideStages
  <1>3. CASE Claim(w)
    <2>1. run'[w].pc \in {"poll", "claimed"} /\ UNCHANGED builds
      <3>1. CASE Loop(w) BY <1>0, <1>3, <3>1 DEF Claim, Loop, Poll
      <3>2. ASSUME NEW k \in Jobs, run' = [run EXCEPT ![w].pc = "claimed", ![w].job = k]
            PROVE  run'[w].pc = "claimed"
        BY <1>0, <3>2 DEF Worker
      <3> QED BY <1>3, <3>1, <3>2 DEF Claim
    <2>2. ProgressKept
      BY <1>s, <1>3, ProgressState DEF Claim, Active
    <2> QED BY <2>1, <2>2, OutsideStages
  <1>4. CASE Start(w)
    <2>1. run'[w].pc \in {"poll", "score", "read"} /\ UNCHANGED builds /\ j \in Jobs
      BY <1>0, <1>4, HeldJob DEF Start, Mine, At, Steps, Goto, Loop, Poll, Worker
    <2>2. ProgressKept
      BY <1>s, <1>4, <2>1, ProgressState DEF Start, Active
    <2> QED BY <2>1, <2>2, OutsideStages
  <1>5. CASE ReadCheckpoint(w)
    <2>1. /\ run'[w].pc = "stages" /\ run'[w].job = j /\ UNCHANGED <<row, builds>>
          /\ run'[w].done = row[j].checkpoint /\ run'[w].cost = row[j].cost
      BY <1>0, <1>5 DEF ReadCheckpoint, Worker
    <2>2. \A v \in Workers : Loaded(v)'
      BY <2>1 DEF OneWorker, Loaded
    <2> QED BY <1>s, <2>1, <2>2, ProgressTold DEF SoloInv
  <1>6. CASE RunStage(w)
    <2> DEFINE after == [run[w].done EXCEPT !.pre = @ + 1]
    <2>1. /\ j \in Jobs /\ run[w].done = row[j].checkpoint
          /\ row' = [row EXCEPT ![j].checkpoint = after, ![j].beat = "fresh"]
          /\ run' = [run EXCEPT ![w].done = after, ![w].cost = row[j].cost]
          /\ run[w].pc = "stages" /\ UNCHANGED builds
      BY <1>0, <1>6, HeldJob DEF RunStage, Mine, At, Steps, Loaded
    <2>2. /\ run[w].done \in Progress /\ run[w].done.pre \in Nat
          /\ after.pre = run[w].done.pre + 1 /\ after.build = run[w].done.build
      BY <1>0, Bounds DEF Worker, Progress
    <2> HIDE DEF after
    <2>3. /\ row'[j].checkpoint = after /\ row'[j].cost = row[j].cost
          /\ row'[j].state = row[j].state
          /\ \A k \in Jobs \ {j} : row'[k] = row[k]
      BY <1>0, <2>1 DEF Row
    <2>4. row[j].state # "absent"
      BY <2>1 DEF TypeInv, Holds, Steps
    <2>5. \A k \in Jobs : Told(k)'
      BY ZenonT(60), <2>1, <2>2, <2>3, <2>4 DEF SoloInv, Told
    <2>6. /\ run'[w].pc = "stages" /\ run'[w].job = j /\ run'[w].done = after
          /\ run'[w].cost = row[j].cost
      BY <1>0, <2>1 DEF Worker
    <2>7. \A v \in Workers : Loaded(v)'
      BY <2>3, <2>6 DEF OneWorker, Loaded
    <2>8. \A k \in Jobs : row[k].checkpoint.pre \in Nat
      BY <1>0, Bounds DEF Row, Progress
    <2>9. ASSUME NEW k \in Jobs
          PROVE  /\ row[k].checkpoint.pre <= row'[k].checkpoint.pre
                 /\ row[k].checkpoint.build => row'[k].checkpoint.build
      <3>1. CASE k = j
        <4>1. row'[k].checkpoint.pre = row[k].checkpoint.pre + 1
              /\ row'[k].checkpoint.build = row[k].checkpoint.build
          <5>1. run[w].done = row[k].checkpoint /\ row'[k].checkpoint = after
            BY <2>1, <2>3, <3>1
          <5> QED BY <2>2, <5>1
        <4> QED BY <2>8, <4>1
      <3>2. CASE k # j BY <2>3, <2>8, <3>2
      <3> QED BY <3>1, <3>2
    <2> QED BY <2>5, <2>7, <2>9 DEF SoloInv, NoCheckpointLost
  <1>7. CASE StagesDone(w)
    <2>1. /\ run'[w].pc = IF run[w].done.build THEN "complete" ELSE "budget"
          /\ run'[w].job = j /\ run'[w].done = run[w].done /\ run'[w].cost = run[w].cost
          /\ run[w].pc = "stages" /\ UNCHANGED <<row, builds>>
      BY <1>0, <1>7 DEF StagesDone, At, Goto, Worker
    <2>2. \A v \in Workers : Loaded(v)'
      BY <1>0, <2>1 DEF OneWorker, Loaded
    <2> QED BY <1>s, <2>1, <2>2, ProgressTold DEF SoloInv
  <1>8. CASE CheckBudget(w)
    <2>1. run[w].pc = "budget" /\ j \in Jobs /\ UNCHANGED builds
      BY <1>0, <1>8, HeldJob DEF CheckBudget, Mine, At, Steps
    <2>2. CASE Goto(w, "build") /\ UNCHANGED row
      <3>1. /\ run'[w].pc = "build" /\ run'[w].job = j /\ run'[w].done = run[w].done
            /\ run'[w].cost = run[w].cost
        BY <1>0, <2>2 DEF Goto, Worker
      <3>2. \A v \in Workers : Loaded(v)'
        BY <1>0, <2>1, <2>2, <3>1 DEF OneWorker, Loaded
      <3> QED BY <1>s, <2>1, <2>2, <3>2, ProgressTold DEF SoloInv
    <2>3. CASE ~(Goto(w, "build") /\ UNCHANGED row)
      <3>1. run'[w].pc = "poll"
        BY <1>0, <1>8, <2>3 DEF CheckBudget, Loop, Poll
      <3>2. ProgressKept
        BY <1>s, <1>8, <2>1, <2>3, ProgressState DEF CheckBudget, Active
      <3> QED BY <2>1, <3>1, <3>2, OutsideStages
    <2> QED BY <2>2, <2>3
  <1>9. CASE RunBuild(w)
    <2> DEFINE after == [run[w].done EXCEPT !.build = TRUE]
    <2>1. /\ j \in Jobs /\ run[w].done = row[j].checkpoint /\ run[w].cost = row[j].cost
          /\ ~run[w].done.build /\ run[w].pc = "build"
          /\ row' = [row EXCEPT ![j].cost = run[w].cost + Price, ![j].checkpoint = after,
                                ![j].beat = "fresh"]
          /\ builds' = [builds EXCEPT ![j] = @ + 1]
      BY <1>0, <1>9, HeldJob DEF RunBuild, Mine, At, Steps, Loaded
    <2>2. /\ run[w].done.pre \in Nat /\ after.pre = run[w].done.pre /\ after.build
      BY <1>0, Bounds DEF Worker, Progress
    <2> HIDE DEF after
    <2>3. /\ row'[j].checkpoint = after /\ row'[j].cost = row[j].cost + Price
          /\ row'[j].state = row[j].state
          /\ \A k \in Jobs \ {j} : row'[k] = row[k]
      BY <1>0, <2>1 DEF Row
    <2>4. builds[j] = 0 /\ row[j].cost = 0 * Price
      BY <2>1 DEF SoloInv, Told
    <2>5. builds'[j] = 1 /\ \A k \in Jobs \ {j} : builds'[k] = builds[k]
      BY <1>0, <2>1, <2>4
    <2>6. row[j].cost + Price = 1 * Price
      BY <1>0, <2>4
    <2>7. row[j].state # "absent"
      BY <2>1 DEF TypeInv, Holds, Steps
    <2>8. ASSUME NEW k \in Jobs PROVE Told(k)'
      <3>1. CASE k = j BY <2>2, <2>3, <2>5, <2>6, <2>7, <3>1 DEF Told
      <3>2. CASE k # j BY <2>3, <2>5, <3>2 DEF SoloInv, Told
      <3> QED BY <3>1, <3>2
    <2>9. run'[w].pc = "complete"
      BY <1>0, <1>9 DEF RunBuild, Worker
    <2>10. \A v \in Workers : Loaded(v)'
      BY <2>9 DEF OneWorker, Loaded
    <2>11. \A k \in Jobs : row[k].checkpoint.pre \in Nat
      BY <1>0, Bounds DEF Row, Progress
    <2>12. ASSUME NEW k \in Jobs
           PROVE  /\ row[k].checkpoint.pre <= row'[k].checkpoint.pre
                  /\ row[k].checkpoint.build => row'[k].checkpoint.build
      <3>1. CASE k = j
        <4>1. row'[k].checkpoint.pre = row[k].checkpoint.pre /\ row'[k].checkpoint.build
          <5>1. run[w].done = row[k].checkpoint /\ row'[k].checkpoint = after
            BY <2>1, <2>3, <3>1
          <5> QED BY <2>2, <5>1
        <4> QED BY <2>11, <4>1
      <3>2. CASE k # j BY <2>3, <2>11, <3>2
      <3> QED BY <3>1, <3>2
    <2> QED BY <2>8, <2>10, <2>12 DEF SoloInv, NoCheckpointLost
  <1>10. CASE Complete(w)
    <2>1. run'[w].pc \in {"poll", "intend"} /\ UNCHANGED builds /\ j \in Jobs
      BY <1>0, <1>10, HeldJob DEF Complete, Mine, At, Steps, Goto, Loop, Poll, Worker
    <2>2. ProgressKept
      BY <1>10, <2>1, ProgressState DEF Complete, Terminal
    <2> QED BY <2>1, <2>2, OutsideStages
  <1>11. CASE IntendDrift(w)
    <2>1. run'[w].pc = "poll" /\ UNCHANGED builds
      BY <1>0, <1>11 DEF IntendDrift, Loop, Poll
    <2>2. ProgressKept
      BY <1>s, <1>11, ProgressInsert DEF IntendDrift
    <2> QED BY <2>1, <2>2, OutsideStages
  <1> QED BY <1>1, <1>2, <1>3, <1>4, <1>5, <1>6, <1>7, <1>8, <1>9, <1>10, <1>11 DEF WorkerStep

\* SoloInv is inductive, and no step loses a checkpoint.
LEMMA SoloStep ==
  OneWorker /\ TypeInv /\ SoloInv /\ [Next]_vars => SoloInv' /\ NoCheckpointLost
  <1> SUFFICES ASSUME OneWorker, TypeInv, SoloInv, [Next]_vars
               PROVE  SoloInv' /\ NoCheckpointLost
    OBVIOUS
  <1>0. run \in [Workers -> Worker]
    BY DEF TypeInv, TypeOK
  <1>s. ASSUME UNCHANGED row PROVE ProgressKept
    BY <1>s DEF ProgressKept
  <1>1. ASSUME NEW o \in Offers, Enqueue(o) PROVE SoloInv' /\ NoCheckpointLost
    BY <1>1, ProgressInsert, StagesLeftAlone DEF Enqueue
  <1>2. ASSUME NEW w \in Workers, WorkerError(w) \/ Crash(w) \/ Restart(w)
        PROVE  SoloInv' /\ NoCheckpointLost
    <2>1. run'[w].pc \in {"poll", "down"} /\ UNCHANGED builds
      BY <1>0, <1>2 DEF WorkerError, CannotRun, Fail, Crash, Restart, Loop, Poll
    <2>2. ProgressKept
      <3>1. CASE UNCHANGED row BY <1>s, <3>1
      <3>2. CASE ~UNCHANGED row
        <4>1. run[w].pc \in Steps
          BY <1>2, <3>2 DEF WorkerError, CannotRun, Fail, Crash, Restart, Mine, At, Steps
        <4>2. run[w].job \in Jobs
          BY <4>1, HeldJob
        <4> QED BY <1>2, <3>2, <4>2, ProgressState
                DEF WorkerError, CannotRun, Fail, Crash, Restart, Terminal
      <3> QED BY <3>1, <3>2
    <2> QED BY <2>1, <2>2, OutsideStages
  <1>3. ASSUME NEW c \in Clients, NEW j \in Jobs, NEW want \in Asks, Ask(c, want, j)
        PROVE  SoloInv' /\ NoCheckpointLost
    BY <1>s, <1>3, StagesLeftAlone DEF Ask
  <1>4. ASSUME NEW c \in Clients, NEW j \in Jobs, Resume(c, j)
        PROVE  SoloInv' /\ NoCheckpointLost
    <2>1. CASE UNCHANGED row
      BY <1>s, <1>4, <2>1, StagesLeftAlone DEF Resume
    <2>2. CASE row' = [row EXCEPT ![j] = Requeued(@)]
      <3>1. row' = [k \in Jobs |-> IF k \in {j} THEN Requeued(row[k]) ELSE row[k]]
        BY <2>2 DEF TypeInv, TypeOK
      <3> QED BY <1>4, <3>1, ProgressRequeue, StagesLeftAlone DEF Resume
    <2> QED BY <1>4, <2>1, <2>2 DEF Resume
  <1>5. ASSUME NEW c \in Clients, NEW j \in Jobs, Cancel(c, j)
        PROVE  SoloInv' /\ NoCheckpointLost
    BY <1>5, ProgressState, StagesLeftAlone DEF Cancel, Terminal
  <1>6. ASSUME NEW j \in Jobs, Expire(j) \/ Outlast(j)
        PROVE  SoloInv' /\ NoCheckpointLost
    BY <1>6, ProgressBeat, StagesLeftAlone DEF Expire, Outlast, Overdue
  <1>7. CASE UNCHANGED vars
    BY <1>s, <1>7, StagesLeftAlone DEF vars
  <1> QED BY <1>1, <1>2, <1>3, <1>4, <1>5, <1>6, <1>7, SoloWorker DEF Next, ClientStep

\* Nothing is built, spent or loaded at first.
LEMMA SoloInit == Init => SoloInv
  <1> SUFFICES ASSUME Init PROVE SoloInv
    OBVIOUS
  <1>1. 0 * Price = 0
    BY Bounds
  <1>2. ASSUME NEW j \in Jobs PROVE Told(j)
    <2>1. row[j] = Absent /\ builds[j] = 0
      BY DEF Init
    <2> QED BY <1>1, <2>1 DEF Told, Absent, NoProgress
  <1>3. \A w \in Workers : Loaded(w)
    BY DEF Init, Loaded, Poll
  <1> QED BY <1>2, <1>3 DEF SoloInv

\* One worker commits at most one build of a job, however often it dies, is restarted, and
\* the job is reaped, resumed or cancelled.
THEOREM BuildsOnce == ASSUME OneWorker PROVE Spec => []BuiltOnce
  <1>1. SoloInv => BuiltOnce
    BY DEF SoloInv, Told, BuiltOnce
  <1> QED BY <1>1, TypeInit, TypeNext, SoloInit, SoloStep, PTL DEF Spec

\* With one worker, what a job shows as its cost is what its builds entered in the ledger.
THEOREM CostsAreLedgered == ASSUME OneWorker PROVE Spec => []CostIsLedgered
  <1>1. SoloInv => CostIsLedgered
    BY DEF SoloInv, Told, CostIsLedgered
  <1> QED BY <1>1, TypeInit, TypeNext, SoloInit, SoloStep, PTL DEF Spec

\* With one worker, no step of anybody replaces a checkpoint by an older one.
THEOREM CheckpointsKept == ASSUME OneWorker PROVE Spec => CheckpointKept
  <1>1. TypeInv /\ SoloInv /\ [Next]_vars => [NoCheckpointLost]_vars
    BY SoloStep
  <1>2. [NoCheckpointLost]_vars =>
          [\A j \in Jobs : /\ row[j].checkpoint.pre <= row'[j].checkpoint.pre
                           /\ row[j].checkpoint.build => row'[j].checkpoint.build]_vars
    BY DEF NoCheckpointLost
  <1> QED BY <1>1, <1>2, TypeInit, TypeNext, SoloInit, SoloStep, PTL DEF Spec, CheckpointKept

\* With one worker the cap is never exceeded: the gate and the ledger entry belong to the
\* same session.
THEOREM SpendStaysWithinCap == ASSUME OneWorker PROVE Spec => []SpendWithinCap
  <1>1. Cardinality(Workers) = 1
    <2>1. PICK w \in Workers : Workers = {w}
      BY QueueAssumption DEF OneWorker
    <2> QED BY <2>1, FS_Singleton
  <1>2. OverspendIsBounded => SpendWithinCap
    BY <1>1, Bounds DEF OverspendIsBounded, SpendWithinCap
  <1> QED BY <1>2, OverspendBounded, PTL

-----------------------------------------------------------------------------
(***************************************************************************)
(* Any number of workers, none of which dies or outlasts its timeout, and  *)
(* one client that resumes.  claim hands a job to one worker only, and as  *)
(* long as its holder is alive and in time nobody else writes the row.     *)
(* With a fault, a cancellation, or two clients that resume the same job,  *)
(* both properties fail.                                                   *)
(***************************************************************************)
Steady == MaxFaults = 0 /\ Asks \subseteq {"resume"} /\ \A c, d \in Clients : c = d

\* No two active rows share a dedupe key.
KeysApart ==
  \A j, k \in Jobs :
    j # k /\ row[j].key = row[k].key /\ row[j].key # None /\ row[j].state \in Active
    => row[k].state \notin Active

InProgress == {"claimed", "running"}

\* The row of the job a worker has is in the state the worker left it in.
InHand(w) ==
  /\ run[w].pc \notin {"down", "reap"}
  /\ run[w].pc = "claimed" => row[run[w].job].state = "claimed"
  /\ run[w].pc \in {"read", "stages", "budget", "build", "complete", "score"} =>
       row[run[w].job].state = "running"
  /\ run[w].pc = "intend" => row[run[w].job].state = "completed"

\* The job a client has asked to resume still waits for it.
Waits(c) ==
  ask[c].want # "none" =>
    /\ ask[c].want = "resume"
    /\ ask[c].job \in Jobs /\ row[ask[c].job].state = "paused_budget"

SteadyInv ==
  /\ KeysApart
  /\ \A j \in Jobs : row[j].beat # "stale"
  /\ \A j \in Jobs : row[j].state \in InProgress => \E w \in Workers : run[w].job = j
  /\ \A w \in Workers : InHand(w)
  /\ OneRunner
  /\ \A c \in Clients : Waits(c)

FinishedKept == \A j \in Jobs : row[j].state \in Terminal => row'[j].state = row[j].state

\* A worker has a job in every step of a run, and the job is in progress or completed.
LEMMA JobInHand ==
  ASSUME TypeInv, SteadyInv, NEW w \in Workers, run[w].job # 0
  PROVE  /\ run[w].job \in Jobs /\ row[run[w].job].state \in InProgress \cup {"completed"}
         /\ row[run[w].job].state = "completed" <=> run[w].pc = "intend"
  BY DEF TypeInv, Holds, SteadyInv, InHand, Steps, InProgress

\* A step in which workers at most go back to polling for another job, no row changes but
\* for a new one, and clients at most ask for a job that waits.
LEMMA SteadyRest ==
  ASSUME TypeInv, SteadyInv,
         UNCHANGED row \/ \E o : Insert(o),
         \A w \in Workers :
           \/ run'[w] = run[w]
           \/ /\ run'[w].job = 0 /\ run'[w].pc \in {"poll", "claim"}
              /\ run[w].pc \notin Steps \/ run[w].pc = "intend",
         \A c \in Clients :
           \/ ask'[c] = ask[c]
           \/ /\ ask'[c].want = "resume" /\ ask'[c].job \in Jobs
              /\ row[ask'[c].job].state = "paused_budget"
  PROVE  SteadyInv' /\ FinishedKept
  <1>1. /\ \A j \in Jobs : row[j].state # "absent" => row'[j] = row[j]
        /\ \A j \in Jobs : row[j].state = "absent" =>
             row'[j] = row[j] \/ (row'[j].state = "queued" /\ row'[j].beat = "null")
        /\ KeysApart'
    <2>1. CASE UNCHANGED row BY <2>1 DEF SteadyInv, KeysApart
    <2>2. ASSUME NEW o, Insert(o) PROVE <1>1!1 /\ <1>1!2 /\ <1>1!3
      <3> DEFINE new == [Absent EXCEPT !.state = "queued", !.kind = o.kind, !.key = o.key,
                                       !.prio = o.prio]
      <3>1. PICK j \in Jobs : Fresh(j) /\ Unique(j, o.key) /\ row' = [row EXCEPT ![j] = new]
        BY <2>2 DEF Insert
      <3>2. new.state = "queued" /\ new.beat = "null" /\ new.key = o.key
        BY DEF Absent
      <3> HIDE DEF new
      <3>3. /\ row[j].state = "absent" /\ row'[j] = new
            /\ \A k \in Jobs \ {j} : row'[k] = row[k]
        BY <3>1 DEF Fresh, TypeInv, TypeOK
      <3>4. KeysApart'
        BY <3>1, <3>2, <3>3 DEF SteadyInv, KeysApart, Unique
      <3> QED BY <3>2, <3>3, <3>4
    <2> QED BY <2>1, <2>2
  <1>2. \A j \in Jobs : row'[j].beat # "stale"
    BY <1>1 DEF SteadyInv
  <1>3. \A w \in Workers : run'[w].job \in {0, run[w].job}
    OBVIOUS
  <1>4. OneRunner'
    BY <1>3 DEF SteadyInv, OneRunner
  <1>5. ASSUME NEW w \in Workers PROVE InHand(w)'
    <2>1. CASE run'[w] = run[w]
      <3>1. InHand(w) /\ Holds(w)
        BY DEF SteadyInv, TypeInv
      <3>2. run[w].pc \in Steps => row'[run[w].job] = row[run[w].job]
        BY <1>1, <3>1 DEF Holds
      <3> QED BY <2>1, <3>1, <3>2 DEF InHand, Steps
    <2>2. CASE run'[w].pc \in {"poll", "claim"} BY <2>2 DEF InHand
    <2> QED BY <2>1, <2>2
  <1>6. ASSUME NEW j \in Jobs, row'[j].state \in InProgress
        PROVE  \E w \in Workers : run'[w].job = j
    <2>1. row[j].state \in InProgress /\ row[j] = row'[j]
      BY <1>1, <1>6 DEF InProgress
    <2>2. PICK w \in Workers : run[w].job = j
      BY <2>1 DEF SteadyInv
    <2>3. j # 0
      BY DEF Jobs
    <2>4. run[w].pc \in Steps /\ run[w].pc # "intend"
      BY <2>1, <2>2, <2>3, JobInHand DEF TypeInv, Holds, InProgress
    <2> QED BY <2>2, <2>4
  <1>7. \A c \in Clients : Waits(c)'
    BY <1>1 DEF SteadyInv, Waits
  <1>8. FinishedKept
    BY <1>1 DEF FinishedKept, Terminal
  <1> QED BY <1>1, <1>2, <1>4, <1>5, <1>6, <1>7, <1>8 DEF SteadyInv

\* A step in which a worker writes, or not, the active row it has or claims.
LEMMA SteadyWrite ==
  ASSUME TypeInv, SteadyInv, NEW w \in Workers, NEW j \in Jobs,
         row[j].state \in InProgress \cup {"queued"},
         row'[j].key = row[j].key, row'[j].beat # "stale",
         \A k \in Jobs \ {j} : row'[k] = row[k],
         \A v \in Workers \ {w} : run'[v] = run[v],
         run[w].job = j \/ (run[w].job = 0 /\ row[j].state = "queued"),
         run'[w].job \in {0, j},
         row'[j].state \in InProgress => run'[w].job = j,
         InHand(w)', UNCHANGED ask
  PROVE  SteadyInv' /\ FinishedKept
  <1>0. j # 0
    BY DEF Jobs
  <1>1. KeysApart'
    BY DEF SteadyInv, KeysApart, Active, InProgress
  <1>2. \A k \in Jobs : row'[k].beat # "stale"
    BY DEF SteadyInv
  <1>3. \A v \in Workers \ {w} : run[v].job # j
    BY <1>0, JobInHand DEF SteadyInv, OneRunner, InProgress
  <1>4. OneRunner'
    <2> SUFFICES ASSUME NEW u \in Workers, NEW v \in Workers, u # v, run'[u].job # 0
                 PROVE  run'[u].job # run'[v].job
      BY DEF OneRunner
    <2> QED BY <1>0, <1>3 DEF SteadyInv, OneRunner
  <1>5. ASSUME NEW v \in Workers PROVE InHand(v)'
    <2>1. CASE v = w BY <2>1
    <2>2. CASE v # w
      <3>1. run'[v] = run[v] /\ InHand(v) /\ run[v].job # j
        BY <1>3, <2>2 DEF SteadyInv
      <3>2. run[v].pc \in Steps => row'[run[v].job] = row[run[v].job]
        BY <3>1 DEF TypeInv, Holds
      <3> QED BY <3>1, <3>2 DEF InHand, Steps
    <2> QED BY <2>1, <2>2
  <1>6. ASSUME NEW k \in Jobs, row'[k].state \in InProgress
        PROVE  \E v \in Workers : run'[v].job = k
    <2>1. CASE k = j BY <1>6, <2>1
    <2>2. CASE k # j
      <3>1. PICK v \in Workers : run[v].job = k
        BY <1>6, <2>2 DEF SteadyInv
      <3>2. k # 0 BY DEF Jobs
      <3> QED BY <2>2, <3>1, <3>2
    <2> QED BY <2>1, <2>2
  <1>7. \A c \in Clients : Waits(c)'
    <2>1. ASSUME NEW c \in Clients, ask[c].want # "none"
          PROVE  ask[c].job # j
      BY <2>1 DEF SteadyInv, Waits, InProgress
    <2> QED BY <2>1 DEF SteadyInv, Waits
  <1>8. FinishedKept
    BY DEF FinishedKept, Terminal, InProgress
  <1> QED BY <1>1, <1>2, <1>4, <1>5, <1>6, <1>7, <1>8 DEF SteadyInv

\* An active row is alone with its key, so the unique index lets its state change.
LEMMA ActiveUnique ==
  ASSUME SteadyInv, NEW j \in Jobs, row[j].state \in Active
  PROVE  Unique(j, row[j].key)
  BY DEF SteadyInv, KeysApart, Unique

\* A new state, with or without a heartbeat, leaves the key and no stale heartbeat.
LEMMA SteadyState ==
  ASSUME TypeInv, SteadyInv, NEW j \in Jobs, NEW s,
         \/ row' = [row EXCEPT ![j].state = s]
         \/ row' = [row EXCEPT ![j].state = s, ![j].beat = "fresh"]
  PROVE  /\ row'[j].state = s /\ row'[j].key = row[j].key /\ row'[j].beat # "stale"
         /\ \A k \in Jobs \ {j} : row'[k] = row[k]
  BY DEF TypeInv, TypeOK, Row, SteadyInv

\* The steps of a worker that runs in time.
LEMMA SteadyWorker ==
  ASSUME TypeInv, SteadyInv, NEW w \in Workers, WorkerStep(w) \/ WorkerError(w)
  PROVE  SteadyInv' /\ FinishedKept
  <1> DEFINE j == run[w].job
  <1>0. /\ row \in [Jobs -> Row] /\ run \in [Workers -> Worker] /\ run[w] \in Worker
        /\ InHand(w) /\ Holds(w)
    BY DEF TypeInv, TypeOK, SteadyInv
  <1>h. ASSUME run[w].pc \in Steps \ {"intend"}
        PROVE  /\ j \in Jobs /\ j # 0 /\ row[j].state \in InProgress /\ Unique(j, row[j].key)
               /\ row[j].beat # "stale"
    <2>1. j \in Jobs /\ j # 0
      BY <1>0, <1>h DEF Holds, Jobs
    <2>2. row[j].state \in InProgress
      BY <1>h, <2>1, JobInHand
    <2> QED BY <2>1, <2>2, ActiveUnique DEF InProgress, Active, SteadyInv
  <1>l. ASSUME Loop(w) PROVE run'[w] = Poll /\ \A v \in Workers \ {w} : run'[v] = run[v]
    BY <1>0, <1>l DEF Loop
  <1>p. Poll.pc = "poll" /\ Poll.job = 0
    BY DEF Poll
  <1>1. CASE ReapRead(w)
    <2>1. Stale = {}
      BY DEF Stale, SteadyInv
    <2>2. /\ run'[w].pc = "claim" /\ run'[w].job = j /\ run[w].pc = "poll"
          /\ \A v \in Workers \ {w} : run'[v] = run[v]
          /\ UNCHANGED <<row, ask>>
      BY <1>0, <1>1, <2>1 DEF ReapRead, At, Worker
    <2>3. j = 0
      BY <1>0, <2>2 DEF Holds, Steps
    <2> QED BY <2>2, <2>3, SteadyRest DEF Steps
  <1>2. CASE ReapWrite(w)
    BY <1>0, <1>2 DEF ReapWrite, At, InHand
  <1>3. CASE Claim(w)
    <2>1. run[w].pc = "claim" /\ j = 0 /\ UNCHANGED ask
      BY <1>0, <1>3 DEF Claim, At, Holds, Steps
    <2>2. CASE Loop(w) /\ UNCHANGED row
      BY <1>l, <1>p, <2>1, <2>2, SteadyRest DEF Steps
    <2>3. ASSUME NEW k \in Jobs, First(k),
                 row' = [row EXCEPT ![k].state = "claimed", ![k].beat = "fresh"],
                 run' = [run EXCEPT ![w].pc = "claimed", ![w].job = k]
          PROVE  SteadyInv' /\ FinishedKept
      <3>1. row[k].state = "queued"
        BY <2>3 DEF First, Candidates
      <3>2. /\ run'[w].pc = "claimed" /\ run'[w].job = k
            /\ \A v \in Workers \ {w} : run'[v] = run[v]
        BY <1>0, <2>3 DEF Worker
      <3>3. /\ row'[k].state = "claimed" /\ row'[k].key = row[k].key /\ row'[k].beat # "stale"
            /\ \A i \in Jobs \ {k} : row'[i] = row[i]
        BY <2>3, SteadyState
      <3>4. InHand(w)'
        BY <3>2, <3>3 DEF InHand
      <3> QED BY <2>1, <3>1, <3>2, <3>3, <3>4, SteadyWrite
    <2> QED BY <1>3, <2>2, <2>3 DEF Claim
  <1>4. CASE Start(w)
    <2>1. run[w].pc = "claimed" /\ UNCHANGED ask
      BY <1>4 DEF Start, Mine, At
    <2>2. /\ j \in Jobs /\ row[j].state \in InProgress /\ Unique(j, row[j].key)
      BY <1>h, <2>1 DEF Steps
    <2>3. /\ row' = [row EXCEPT ![j].state = "running", ![j].beat = "fresh"]
          /\ Goto(w, "score") \/ Goto(w, "read")
      BY <1>4, <2>2 DEF Start
    <2>4. /\ run'[w].pc \in {"score", "read"} /\ run'[w].job = j
          /\ \A v \in Workers \ {w} : run'[v] = run[v]
      BY <1>0, <2>3 DEF Goto, Worker
    <2>5. /\ row'[j].state = "running" /\ row'[j].key = row[j].key /\ row'[j].beat # "stale"
          /\ \A k \in Jobs \ {j} : row'[k] = row[k]
      BY <2>2, <2>3, SteadyState
    <2>6. InHand(w)'
      BY <2>4, <2>5 DEF InHand
    <2> QED BY <2>1, <2>2, <2>4, <2>5, <2>6, SteadyWrite
  <1>5. CASE ReadCheckpoint(w) \/ StagesDone(w)
    <2>1. /\ run[w].pc \in {"read", "stages"} /\ run'[w].pc \in {"stages", "complete", "budget"}
          /\ run'[w].job = j /\ \A v \in Workers \ {w} : run'[v] = run[v]
          /\ UNCHANGED <<row, ask>>
      BY <1>0, <1>5 DEF ReadCheckpoint, StagesDone, At, Goto, Worker
    <2>2. InHand(w)'
      BY <1>0, <2>1 DEF InHand
    <2>3. j \in Jobs /\ row[j].state \in InProgress /\ row[j].beat # "stale"
      BY <1>h, <2>1 DEF Steps
    <2> QED BY <2>1, <2>2, <2>3, SteadyWrite
  <1>6. CASE RunStage(w) \/ RunBuild(w)
    <2>1. run[w].pc \in {"stages", "build"} /\ UNCHANGED ask
      BY <1>6 DEF RunStage, RunBuild, Mine, At
    <2>2. j \in Jobs /\ row[j].state \in InProgress
      BY <1>h, <2>1 DEF Steps
    <2>3. /\ row'[j].state = row[j].state /\ row'[j].key = row[j].key /\ row'[j].beat = "fresh"
          /\ \A k \in Jobs \ {j} : row'[k] = row[k]
      BY <1>0, <1>6, <2>2 DEF RunStage, RunBuild, Row
    <2>4. /\ run'[w].pc \in {"stages", "complete"} /\ run'[w].job = j
          /\ \A v \in Workers \ {w} : run'[v] = run[v]
      BY <1>0, <1>6, <2>1 DEF RunStage, RunBuild, Mine, At, Worker
    <2>5. InHand(w)'
      BY <1>0, <2>1, <2>3, <2>4 DEF InHand
    <2> QED BY <2>1, <2>2, <2>3, <2>4, <2>5, SteadyWrite
  <1>7. CASE CheckBudget(w)
    <2>1. run[w].pc = "budget" /\ UNCHANGED ask
      BY <1>7 DEF CheckBudget, Mine, At
    <2>2. j \in Jobs /\ row[j].state \in InProgress /\ Unique(j, row[j].key) /\ row[j].beat # "stale"
      BY <1>h, <2>1 DEF Steps
    <2>3. CASE Goto(w, "build") /\ UNCHANGED row
      <3>1. /\ run'[w].pc = "build" /\ run'[w].job = j
            /\ \A v \in Workers \ {w} : run'[v] = run[v]
        BY <1>0, <2>3 DEF Goto, Worker
      <3>2. InHand(w)'
        BY <1>0, <2>1, <2>3, <3>1 DEF InHand
      <3> QED BY <2>1, <2>2, <2>3, <3>1, <3>2, SteadyWrite
    <2>4. CASE row' = [row EXCEPT ![j].state = "paused_budget"] /\ Loop(w)
      <3>1. /\ row'[j].state = "paused_budget" /\ row'[j].key = row[j].key
            /\ row'[j].beat # "stale" /\ \A k \in Jobs \ {j} : row'[k] = row[k]
        BY <2>2, <2>4, SteadyState
      <3>2. InHand(w)'
        BY <1>l, <1>p, <2>4 DEF InHand
      <3> QED BY <1>l, <1>p, <2>1, <2>2, <2>4, <3>1, <3>2, SteadyWrite DEF InProgress
    <2> QED BY <1>7, <2>2, <2>3, <2>4 DEF CheckBudget
  <1>8. CASE Complete(w)
    <2>1. run[w].pc \in {"complete", "score"} /\ UNCHANGED ask
      BY <1>8 DEF Complete, Mine, At
    <2>2. j \in Jobs /\ row[j].state \in InProgress
      BY <1>h, <2>1 DEF Steps
    <2>3. /\ row'[j].state = "completed" /\ row'[j].key = row[j].key /\ row'[j].beat # "stale"
          /\ \A k \in Jobs \ {j} : row'[k] = row[k]
      BY <1>8, <2>2, SteadyState DEF Complete
    <2>4. CASE Goto(w, "intend")
      <3>1. /\ run'[w].pc = "intend" /\ run'[w].job = j
            /\ \A v \in Workers \ {w} : run'[v] = run[v]
        BY <1>0, <2>4 DEF Goto, Worker
      <3>2. InHand(w)'
        BY <2>3, <3>1 DEF InHand
      <3> QED BY <2>1, <2>2, <2>3, <3>1, <3>2, SteadyWrite
    <2>5. CASE Loop(w)
      <3>1. InHand(w)'
        BY <1>l, <1>p, <2>5 DEF InHand
      <3> QED BY <1>l, <1>p, <2>1, <2>2, <2>3, <2>5, <3>1, SteadyWrite DEF InProgress
    <2> QED BY <1>8, <2>4, <2>5 DEF Complete
  <1>9. CASE IntendDrift(w)
    <2>1. /\ run[w].pc = "intend" /\ UNCHANGED ask /\ Loop(w)
          /\ UNCHANGED row \/ \E o : Insert(o)
      BY <1>9 DEF IntendDrift, At
    <2> QED BY <1>l, <1>p, <2>1, SteadyRest
  <1>10. CASE WorkerError(w)
    <2>1. /\ run[w].pc \in {"claimed", "read", "stages", "budget", "build", "complete", "score"}
          /\ Loop(w) /\ UNCHANGED ask
      BY <1>10 DEF WorkerError, CannotRun, Fail, Mine, At
    <2>2. j \in Jobs /\ row[j].state \in InProgress /\ Unique(j, row[j].key)
      BY <1>h, <2>1 DEF Steps
    <2>3. \/ row' = [row EXCEPT ![j].state = "failed"]
          \/ row' = [row EXCEPT ![j].state = "failed", ![j].beat = "fresh"]
      BY <1>10, <2>2 DEF WorkerError, CannotRun, Fail
    <2>4. /\ row'[j].state = "failed" /\ row'[j].key = row[j].key /\ row'[j].beat # "stale"
          /\ \A k \in Jobs \ {j} : row'[k] = row[k]
      BY <2>2, <2>3, SteadyState
    <2>5. InHand(w)'
      BY <1>l, <1>p, <2>1 DEF InHand
    <2> QED BY <1>l, <1>p, <2>1, <2>2, <2>4, <2>5, SteadyWrite DEF InProgress
  <1> QED BY <1>1, <1>2, <1>3, <1>4, <1>5, <1>6, <1>7, <1>8, <1>9, <1>10 DEF WorkerStep

\* The only client resumes a job that has waited for it since it asked.
LEMMA SteadyResume ==
  ASSUME Steady, TypeInv, SteadyInv, NEW c \in Clients, NEW j \in Jobs, Resume(c, j)
  PROVE  SteadyInv' /\ FinishedKept
  <1>0. row \in [Jobs -> Row] /\ UNCHANGED run
    BY DEF TypeInv, TypeOK, Resume
  <1>1. row[j].state = "paused_budget"
    BY DEF Resume, Asking, SteadyInv, Waits
  <1>2. row' = [row EXCEPT ![j] = Requeued(@)]
    BY <1>1, ActiveUnique DEF Resume, Active
  <1>3. /\ row'[j].state = "queued" /\ row'[j].key = row[j].key /\ row'[j].beat = "null"
        /\ \A k \in Jobs \ {j} : row'[k] = row[k]
    BY <1>0, <1>2 DEF Requeued, Row
  <1>4. \A w \in Workers : run[w].job # j
    BY <1>1, JobInHand DEF InProgress, Jobs
  <1>5. KeysApart'
    BY <1>1, <1>3 DEF SteadyInv, KeysApart, Active
  <1>6. ASSUME NEW w \in Workers PROVE InHand(w)'
    <2>1. InHand(w) /\ (run[w].pc \in Steps => row'[run[w].job] = row[run[w].job])
      BY <1>3, <1>4 DEF SteadyInv, TypeInv, Holds
    <2> QED BY <1>0, <2>1 DEF InHand, Steps
  <1>7. \A k \in Jobs : row'[k].state \in InProgress => \E w \in Workers : run'[w].job = k
    BY <1>0, <1>3 DEF SteadyInv, InProgress
  <1>8. \A d \in Clients : Waits(d)'
    BY DEF Steady, Resume, Answered, TypeInv, TypeOK, Waits
  <1>9. OneRunner' /\ FinishedKept /\ \A k \in Jobs : row'[k].beat # "stale"
    BY <1>0, <1>1, <1>3 DEF SteadyInv, OneRunner, FinishedKept, Terminal
  <1> QED BY <1>5, <1>6, <1>7, <1>8, <1>9 DEF SteadyInv

\* SteadyInv is inductive, and no step revives a finished job.
LEMMA SteadyStep ==
  Steady /\ TypeInv /\ SteadyInv /\ [Next]_vars => SteadyInv' /\ FinishedKept
  <1> SUFFICES ASSUME Steady, TypeInv, SteadyInv, [Next]_vars
               PROVE  SteadyInv' /\ FinishedKept
    OBVIOUS
  <1>0. faults = 0 /\ MaxFaults = 0
    BY DEF Steady, TypeInv, TypeOK
  <1>1. ASSUME NEW o \in Offers, Enqueue(o) PROVE SteadyInv' /\ FinishedKept
    BY <1>1, SteadyRest DEF Enqueue
  <1>2. ASSUME NEW w \in Workers, Crash(w) \/ Restart(w) PROVE FALSE
    BY <1>0, <1>2 DEF Crash, Restart, At, SteadyInv, InHand
  <1>3. ASSUME NEW j \in Jobs, Expire(j) \/ Outlast(j) PROVE FALSE
    BY <1>0, <1>3 DEF Expire, Outlast, Beating, SteadyInv, InProgress
  <1>4. ASSUME NEW c \in Clients, NEW j \in Jobs, NEW want \in Asks, Ask(c, want, j)
        PROVE  SteadyInv' /\ FinishedKept
    <2>1. want = "resume" /\ row[j].state = "paused_budget" /\ UNCHANGED <<row, run>>
      BY <1>4 DEF Steady, Ask, Accepts
    <2>2. \A d \in Clients :
            \/ ask'[d] = ask[d]
            \/ ask'[d].want = "resume" /\ ask'[d].job = j
      BY <1>4, <2>1 DEF Ask, TypeInv, TypeOK
    <2> QED BY <2>1, <2>2, SteadyRest
  <1>5. ASSUME NEW c \in Clients, NEW j \in Jobs, Cancel(c, j) PROVE FALSE
    BY <1>5 DEF Cancel, Asking, SteadyInv, Waits
  <1>6. CASE UNCHANGED vars
    BY <1>6, SteadyRest DEF vars
  <1> QED BY <1>1, <1>2, <1>3, <1>4, <1>5, <1>6, SteadyWorker, SteadyResume DEF Next, ClientStep

\* Nobody has a job at first.
LEMMA SteadyInit == Init => SteadyInv
  <1> SUFFICES ASSUME Init PROVE SteadyInv
    OBVIOUS
  <1>1. \A j \in Jobs : row[j].state = "absent" /\ row[j].beat = "null"
    BY DEF Init, Absent
  <1>2. \A w \in Workers : run[w].pc = "poll" /\ run[w].job = 0
    BY DEF Init, Poll
  <1>3. \A c \in Clients : ask[c].want = "none"
    BY DEF Init
  <1> QED BY <1>1, <1>2, <1>3
          DEF SteadyInv, KeysApart, InHand, OneRunner, Waits, Active, InProgress

\* Workers that run in time never have the same job, whatever their number.
THEOREM RunnersAreAlone == ASSUME Steady PROVE Spec => []OneRunner
  <1>1. SteadyInv => OneRunner
    BY DEF SteadyInv
  <1> QED BY <1>1, TypeInit, TypeNext, SteadyInit, SteadyStep, PTL DEF Spec

\* And a job that completed, failed or was cancelled stays so.
THEOREM FinishedIsFinal == ASSUME Steady PROVE Spec => FinishedStays
  <1>1. TypeInv /\ SteadyInv /\ [Next]_vars => [FinishedKept]_vars
    BY SteadyStep
  <1>2. [FinishedKept]_vars =>
          [\A j \in Jobs : row[j].state \in Terminal => row'[j].state = row[j].state]_vars
    BY DEF FinishedKept
  <1> QED BY <1>1, <1>2, TypeInit, TypeNext, SteadyInit, SteadyStep, PTL DEF Spec, FinishedStays
=============================================================================
