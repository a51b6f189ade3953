------------------------------- MODULE JobQueue -------------------------------
(***************************************************************************)
(* The job queue of one knowledge base: the table job_queue                *)
(* (control/jobs.py), the loop of the ingest worker                        *)
(* (services/ingest_worker.py), the job runner with its checkpoints and    *)
(* budget gate (pipeline/jobs.py), the cost ledger, and the calls of the   *)
(* command line and the web console.                                       *)
(*                                                                         *)
(* A step ends with one commit.  Every repository method finds its row by  *)
(* job_id and writes it without looking at its state or its owner; in      *)
(* PostgreSQL at READ COMMITTED the UPDATE lands on whatever the row is by *)
(* then.  claimed_by, attempt, progress and the timestamps other than the  *)
(* heartbeat are written and displayed, never read by the queue, and left  *)
(* out.                                                                    *)
(***************************************************************************)
EXTENDS Naturals, FiniteSets

CONSTANTS
  Workers,     \* ingest-worker processes
  Clients,     \* processes of `corpus jobs resume' and `corpus jobs cancel'
  MaxJobs,     \* bound on the number of rows
  MaxAsks,     \* bound on the number of client calls
  MaxFaults,   \* bound on the number of worker deaths and outlasted timeouts
  PreBuild,    \* number of stages before Build; the code has four
  Slow,        \* the steps that may outlast worker_heartbeat_timeout_seconds
  Asks,        \* what clients ask for, a subset of {"resume", "cancel"}
  Offers,      \* the jobs clients and triggers enqueue: [kind, key, prio]
  Capped, Cap, \* whether budgets.per_kb_cap_usd is set, and its value
  Price,       \* cost of one build; the projection before it is exact
  DriftKey,    \* the dedupe key drift_<kb>
  None

Steps == {"claimed", "read", "stages", "budget", "build", "complete", "intend", "score"}
Kinds == {"pipeline", "eval_drift", "unsupported"}

ASSUME QueueAssumption ==
  /\ IsFiniteSet(Workers) /\ Workers # {}
  /\ {MaxJobs, MaxAsks, MaxFaults, PreBuild, Cap, Price} \subseteq Nat
  /\ Slow \subseteq Steps /\ Asks \subseteq {"resume", "cancel"}
  /\ Capped \in BOOLEAN /\ DriftKey # None
  /\ \A o \in Offers : o.kind \in Kinds /\ o.prio \in Nat

VARIABLES
  row,      \* row[j]: job j of job_queue, numbered by created_at
  ledger,   \* sum of cost_ledger over the knowledge base
  run,      \* run[w]: where worker w is, and its local variables
  ask,      \* ask[c]: the call client c is in
  asks, faults,
  builds    \* history: builds[j], the committed builds of job j

vars == <<row, ledger, run, ask, asks, faults, builds>>

Jobs == 1 .. MaxJobs
Active == {"queued", "claimed", "running", "paused_budget"}
Terminal == {"completed", "failed", "cancelled"}
Keys == {o.key : o \in Offers} \cup {DriftKey, None}

\* stages_completed: how many of the stages before Build, and whether Build.
Progress == [pre : 0 .. PreBuild, build : BOOLEAN]
NoProgress == [pre |-> 0, build |-> FALSE]

Row ==
  [ state      : Active \cup Terminal \cup {"absent"},
    kind       : Kinds,
    key        : Keys,
    prio       : Nat,
    beat       : {"null", "fresh", "stale"},  \* heartbeat_at against the cutoff
    checkpoint : Progress,
    cost       : Nat ]                        \* cost_accrued_usd

Absent ==
  [ state |-> "absent", kind |-> "pipeline", key |-> None, prio |-> 0, beat |-> "null",
    checkpoint |-> NoProgress, cost |-> 0 ]

\* A worker: job 0 is none; done and cost are stages_completed and
\* cost_accrued_usd as its session last loaded them; reaping is the list of
\* stale jobs it has read.
Worker ==
  [ pc : {"down", "poll", "reap", "claim"} \cup Steps, job : 0 .. MaxJobs,
    done : Progress, cost : Nat, reaping : SUBSET Jobs ]
Poll == [pc |-> "poll", job |-> 0, done |-> NoProgress, cost |-> 0, reaping |-> {}]

TypeOK ==
  /\ row \in [Jobs -> Row]
  /\ ledger \in Nat
  /\ run \in [Workers -> Worker]
  /\ ask \in [Clients -> [want : {"none", "resume", "cancel"}, job : 0 .. MaxJobs]]
  /\ asks \in 0 .. MaxAsks
  /\ faults \in 0 .. MaxFaults
  /\ builds \in [Jobs -> Nat]

Init ==
  /\ row = [j \in Jobs |-> Absent]
  /\ ledger = 0
  /\ run = [w \in Workers |-> Poll]
  /\ ask = [c \in Clients |-> [want |-> "none", job |-> 0]]
  /\ asks = 0
  /\ faults = 0
  /\ builds = [j \in Jobs |-> 0]

-----------------------------------------------------------------------------
(* The table.                                                              *)

\* The partial unique index on (kb_id, dedupe_key) over the active states.
Unique(j, key) ==
  key # None => \A k \in Jobs \ {j} : row[k].key = key => row[k].state \notin Active

(***************************************************************************)
(* With a cap, the budget query of the session flushes the heartbeat that  *)
(* followed the last checkpoint, so the transaction holds the lock of the  *)
(* row until Build commits.  Writers of the row wait, claim skips it.      *)
(***************************************************************************)
LockedBy(v, j) == Capped /\ run[v].pc = "build" /\ run[v].job = j
Locked(j) == \E v \in Workers : LockedBy(v, j)
LockedFor(w, j) == \E v \in Workers \ {w} : LockedBy(v, j)

Fresh(j) == row[j].state = "absent" /\ \A k \in Jobs : k < j => row[k].state # "absent"

\* enqueue adds a row unless an active one has the key.
Insert(o) ==
  \E j \in Jobs :
    /\ Fresh(j)
    /\ Unique(j, o.key)
    /\ row' = [row EXCEPT ![j] =
                [Absent EXCEPT !.state = "queued", !.kind = o.kind, !.key = o.key,
                               !.prio = o.prio]]

Enqueue(o) ==
  /\ Insert(o)
  /\ UNCHANGED <<ledger, run, ask, asks, faults, builds>>

\* Mutant: claim also takes jobs that were claimed and not started.
CandidatesUnstarted == {j \in Jobs : row[j].state \in {"queued", "claimed"} /\ ~Locked(j)}

\* What claim selects: the highest priority, then the oldest.
Candidates == {j \in Jobs : row[j].state = "queued" /\ ~Locked(j)}
First(j) ==
  /\ j \in Candidates
  /\ \A k \in Candidates :
       row[k].prio < row[j].prio \/ (row[k].prio = row[j].prio /\ j <= k)

\* Mutant: a worker that dies between claim and start is not reaped.
StaleRunning == {j \in Jobs : row[j].state = "running" /\ row[j].beat = "stale"}

Stale == {j \in Jobs : row[j].state \in {"claimed", "running"} /\ row[j].beat = "stale"}

\* Mutant: a requeued job starts from scratch.
RequeuedFromScratch(r) ==
  [r EXCEPT !.state = "queued", !.beat = "null", !.checkpoint = NoProgress]

Requeued(r) == [r EXCEPT !.state = "queued", !.beat = "null"]

-----------------------------------------------------------------------------
(* The worker loop.                                                        *)

At(w, pc) == run[w].pc = pc
Goto(w, pc) == run' = [run EXCEPT ![w].pc = pc]
Loop(w) == run' = [run EXCEPT ![w] = Poll]

\* reap_stale reads the stale jobs; the loop commits only if there are any.
ReapRead(w) ==
  /\ At(w, "poll")
  /\ run' = [run EXCEPT ![w].reaping = Stale, ![w].pc = IF Stale = {} THEN "claim" ELSE "reap"]
  /\ UNCHANGED <<row, ledger, ask, asks, faults, builds>>

\* The commit of the reaped rows; a unique violation undoes it, and leaves the
\* session unable to claim in this iteration.
ReapWrite(w) ==
  LET reaping == run[w].reaping
      after == [j \in Jobs |-> IF j \in reaping THEN Requeued(row[j]) ELSE row[j]]
      legal == \A j, k \in Jobs :
                 /\ j # k /\ after[j].key = after[k].key /\ after[j].key # None
                 /\ after[j].state \in Active
                 => after[k].state \notin Active
  IN  /\ At(w, "reap")
      /\ \A j \in reaping : ~Locked(j)
      /\ \/ legal /\ row' = after /\ run' = [run EXCEPT ![w] = [Poll EXCEPT !.pc = "claim"]]
         \/ ~legal /\ Loop(w) /\ UNCHANGED row
      /\ UNCHANGED <<ledger, ask, asks, faults, builds>>

Claim(w) ==
  /\ At(w, "claim")
  /\ \/ /\ Candidates = {}
        /\ Loop(w)
        /\ UNCHANGED row
     \/ \E j \in Jobs :
          /\ First(j)
          /\ row' = [row EXCEPT ![j].state = "claimed", ![j].beat = "fresh"]
          /\ run' = [run EXCEPT ![w].pc = "claimed", ![w].job = j]
  /\ UNCHANGED <<ledger, ask, asks, faults, builds>>

\* Every write to the row of the worker's own job waits for its lock.
Mine(w, pc) == At(w, pc) /\ ~LockedFor(w, run[w].job)

\* start, with its commit.  Reviving a finished job whose key is taken raises.
Start(w) ==
  LET j == run[w].job
  IN  /\ Mine(w, "claimed")
      /\ \/ /\ Unique(j, row[j].key)
            /\ row' = [row EXCEPT ![j].state = "running", ![j].beat = "fresh"]
            /\ Goto(w, IF row[j].kind = "eval_drift" THEN "score" ELSE "read")
         \/ /\ ~Unique(j, row[j].key)
            /\ Loop(w)
            /\ UNCHANGED row
      /\ UNCHANGED <<ledger, ask, asks, faults, builds>>

\* The runner cannot be built, or drift has no adapter: start and fail, one commit.
CannotRun(w) ==
  LET j == run[w].job
  IN  /\ Mine(w, "claimed")
      /\ IF Unique(j, row[j].key)
         THEN row' = [row EXCEPT ![j].state = "failed", ![j].beat = "fresh"]
         ELSE UNCHANGED row
      /\ Loop(w)
      /\ UNCHANGED <<ledger, ask, asks, faults, builds>>

\* Mutant: a stage error is logged and the run goes on to its end.
FailSwallowed(w) ==
  /\ \E pc \in {"read", "stages", "budget", "build"} : Mine(w, pc)
  /\ Goto(w, "complete")
  /\ UNCHANGED <<row, ledger, ask, asks, faults, builds>>

\* The runner's except clause, and that of the drift service.
Fail(w) ==
  /\ \E pc \in {"read", "stages", "budget", "build", "complete", "score"} : Mine(w, pc)
  /\ row' = [row EXCEPT ![run[w].job].state = "failed"]
  /\ Loop(w)
  /\ UNCHANGED <<ledger, ask, asks, faults, builds>>

\* Types the runner refuses always fail; the others may also raise the
\* dispatch guard of incremental reindexing, which is Fail.
ReadCheckpoint(w) ==
  LET r == row[run[w].job]
  IN  /\ At(w, "read")
      /\ r.kind = "pipeline"
      /\ run' = [run EXCEPT ![w].done = r.checkpoint, ![w].cost = r.cost, ![w].pc = "stages"]
      /\ UNCHANGED <<row, ledger, ask, asks, faults, builds>>

\* Mutant: a stage runs although stages_completed has it.
RunStageAgain(w) ==
  LET j == run[w].job
      after == [run[w].done EXCEPT !.pre = @ + 1]
  IN  /\ Mine(w, "stages")
      /\ row' = [row EXCEPT ![j].checkpoint = after, ![j].beat = "fresh"]
      /\ run' = [run EXCEPT ![w].done = after, ![w].cost = row[j].cost]
      /\ UNCHANGED <<ledger, ask, asks, faults, builds>>

\* One stage before Build, with its checkpoint.
RunStage(w) ==
  LET j == run[w].job
      after == [run[w].done EXCEPT !.pre = @ + 1]
  IN  /\ Mine(w, "stages")
      /\ run[w].done.pre < PreBuild
      /\ row' = [row EXCEPT ![j].checkpoint = after, ![j].beat = "fresh"]
      /\ run' = [run EXCEPT ![w].done = after, ![w].cost = row[j].cost]
      /\ UNCHANGED <<ledger, ask, asks, faults, builds>>

StagesDone(w) ==
  /\ At(w, "stages")
  /\ run[w].done.pre = PreBuild
  /\ Goto(w, IF run[w].done.build THEN "complete" ELSE "budget")
  /\ UNCHANGED <<row, ledger, ask, asks, faults, builds>>

\* Mutant: the projection is left out of the comparison.
WithinBudgetSoFar == Capped => ledger <= Cap

\* accrued_usd once a row over this cost is recorded; rows are only added.
Recorded(cost) == ledger + cost

WithinBudget == Capped => Recorded(Price) <= Cap

\* _check_budget_before_build: nothing is reserved for the build it allows.
CheckBudget(w) ==
  LET j == run[w].job
  IN  /\ Mine(w, "budget")
      /\ \/ WithinBudget /\ Goto(w, "build") /\ UNCHANGED row
         \/ /\ ~WithinBudget
            /\ IF Unique(j, row[j].key)
               THEN row' = [row EXCEPT ![j].state = "paused_budget"]
               ELSE UNCHANGED row
            /\ Loop(w)
      /\ UNCHANGED <<ledger, ask, asks, faults, builds>>

\* Mutant: the build is not checkpointed.
RunBuildUnmarked(w) ==
  LET j == run[w].job
  IN  /\ Mine(w, "build")
      /\ ledger' = ledger + Price
      /\ row' = [row EXCEPT ![j].cost = run[w].cost + Price, ![j].beat = "fresh"]
      /\ builds' = [builds EXCEPT ![j] = @ + 1]
      /\ Goto(w, "complete")
      /\ UNCHANGED <<ask, asks, faults>>

\* Ledger entry, accrued cost and checkpoint in one commit after the build.
RunBuild(w) ==
  LET j == run[w].job
      after == [run[w].done EXCEPT !.build = TRUE]
  IN  /\ Mine(w, "build")
      /\ ledger' = Recorded(Price)
      /\ row' = [row EXCEPT ![j].cost = run[w].cost + Price, ![j].checkpoint = after,
                            ![j].beat = "fresh"]
      /\ builds' = [builds EXCEPT ![j] = @ + 1]
      /\ run' = [run EXCEPT ![w].done = after, ![w].pc = "complete"]
      /\ UNCHANGED <<ask, asks, faults>>

\* Mutant: complete writes the cost as it was loaded before the build.
CompleteAtOldCost(w) ==
  /\ Mine(w, "complete") \/ Mine(w, "score")
  /\ row' = [row EXCEPT ![run[w].job].state = "completed", ![run[w].job].cost = run[w].cost]
  /\ IF At(w, "complete") THEN Goto(w, "intend") ELSE Loop(w)
  /\ UNCHANGED <<ledger, ask, asks, faults, builds>>

Complete(w) ==
  /\ Mine(w, "complete") \/ Mine(w, "score")
  /\ row' = [row EXCEPT ![run[w].job].state = "completed"]
  /\ IF At(w, "complete") THEN Goto(w, "intend") ELSE Loop(w)
  /\ UNCHANGED <<ledger, ask, asks, faults, builds>>

\* The drift check after a reindex is enqueued best effort, or coalesced.
IntendDrift(w) ==
  /\ At(w, "intend")
  /\ Insert([kind |-> "eval_drift", key |-> DriftKey, prio |-> 0]) \/ UNCHANGED row
  /\ Loop(w)
  /\ UNCHANGED <<ledger, ask, asks, faults, builds>>

-----------------------------------------------------------------------------
(* Death and time.                                                         *)

\* A worker dies; its transaction, and with it its locks, is gone.
Crash(w) ==
  /\ ~At(w, "down")
  /\ faults < MaxFaults
  /\ faults' = faults + 1
  /\ run' = [run EXCEPT ![w] = [Poll EXCEPT !.pc = "down"]]
  /\ UNCHANGED <<row, ledger, ask, asks, builds>>

Restart(w) ==
  /\ At(w, "down")
  /\ Loop(w)
  /\ UNCHANGED <<row, ledger, ask, asks, faults, builds>>

Beating(j) == row[j].state \in {"claimed", "running"} /\ row[j].beat = "fresh"
Overdue(j) ==
  /\ row' = [row EXCEPT ![j].beat = "stale"]
  /\ UNCHANGED <<ledger, run, ask, asks, builds>>

\* The timeout passes: the worker that took the job has died or abandoned it.
Expire(j) ==
  /\ Beating(j)
  /\ \A w \in Workers : run[w].job # j
  /\ Overdue(j)
  /\ UNCHANGED faults

\* The timeout passes in a step of a live worker, which sends no heartbeat.
Outlast(j) ==
  /\ Beating(j)
  /\ \E w \in Workers : run[w].job = j
  /\ \A w \in Workers : run[w].job = j => run[w].pc \in Slow
  /\ faults < MaxFaults
  /\ faults' = faults + 1
  /\ Overdue(j)

-----------------------------------------------------------------------------
(* Clients: the call reads the row and checks its state, then writes it.   *)

Asking(c, want, j) == ask[c] = [want |-> want, job |-> j]

\* Mutant: a failed job can be resumed as well.
AcceptsFailed(want) ==
  IF want = "resume" THEN {"paused_budget", "failed"} ELSE {"queued", "paused_budget"}

Accepts(want) == IF want = "resume" THEN {"paused_budget"} ELSE {"queued", "paused_budget"}

Ask(c, want, j) ==
  /\ ask[c].want = "none"
  /\ asks < MaxAsks
  /\ asks' = asks + 1
  /\ row[j].state \in Accepts(want)
  /\ ask' = [ask EXCEPT ![c] = [want |-> want, job |-> j]]
  /\ UNCHANGED <<row, ledger, run, faults, builds>>

Answered(c) == ask' = [ask EXCEPT ![c] = [want |-> "none", job |-> 0]]

Resume(c, j) ==
  /\ Asking(c, "resume", j)
  /\ ~Locked(j)
  /\ IF Unique(j, row[j].key)
     THEN row' = [row EXCEPT ![j] = Requeued(@)]
     ELSE UNCHANGED row
  /\ Answered(c)
  /\ UNCHANGED <<ledger, run, asks, faults, builds>>

Cancel(c, j) ==
  /\ Asking(c, "cancel", j)
  /\ ~Locked(j)
  /\ row' = [row EXCEPT ![j].state = "cancelled"]
  /\ Answered(c)
  /\ UNCHANGED <<ledger, run, asks, faults, builds>>

-----------------------------------------------------------------------------
WorkerStep(w) ==
  \/ ReapRead(w) \/ ReapWrite(w) \/ Claim(w) \/ Start(w) \/ ReadCheckpoint(w)
  \/ RunStage(w) \/ StagesDone(w) \/ CheckBudget(w) \/ RunBuild(w) \/ Complete(w)
  \/ IntendDrift(w)

WorkerError(w) == CannotRun(w) \/ Fail(w)

ClientStep(c) ==
  \E j \in Jobs : (\E want \in Asks : Ask(c, want, j)) \/ Resume(c, j) \/ Cancel(c, j)

Next ==
  \/ \E o \in Offers : Enqueue(o)
  \/ \E w \in Workers : WorkerStep(w) \/ WorkerError(w) \/ Crash(w) \/ Restart(w)
  \/ \E c \in Clients : ClientStep(c)
  \/ \E j \in Jobs : Expire(j) \/ Outlast(j)

Spec == Init /\ [][Next]_vars

(***************************************************************************)
(* Every worker process runs on and is restarted when it dies (compose:    *)
(* restart unless-stopped; Kubernetes: a Deployment), and time passes.     *)
(* An error is never obliged to happen, nor is a client to call.           *)
(***************************************************************************)
Fairness ==
  /\ \A w \in Workers : WF_vars(WorkerStep(w) \/ WorkerError(w)) /\ WF_vars(Restart(w))
  /\ \A j \in Jobs : WF_vars(Expire(j))

FairSpec == Spec /\ Fairness

-----------------------------------------------------------------------------
(* Properties.                                                             *)

\* "Safe for concurrent workers: each worker gets a distinct job"
\* (JobQueueRepository.claim): two live workers never hold the same job.
OneRunner == \A v, w \in Workers : v # w /\ run[v].job # 0 => run[v].job # run[w].job

\* A job of the pipeline that shows completed has a committed build, whichever
\* of its runs checkpointed the stages and whichever completed it
\* (JobRunner._run_ingest).
CompletedIsBuilt ==
  \A j \in Jobs : row[j].state = "completed" /\ row[j].kind = "pipeline" => builds[j] >= 1

\* A job resumes from its checkpoint (M-082): no run of it commits a second build.
BuiltOnce == \A j \in Jobs : builds[j] <= 1

\* The cost a job shows is what its builds entered in the ledger, although the
\* runner adds to the cost it loaded before the build (_run_build_stage).
CostIsLedgered == \A j \in Jobs : row[j].cost = builds[j] * Price

\* "Ingestion, reindex, and sweep operations pause when this cap is reached"
\* (budgets.per_kb_cap_usd): with exact projections the cap is never exceeded.
SpendWithinCap == Capped => ledger <= Cap

\* The gate compares and reserves nothing, so several workers may pass it before
\* any of them spends; at most all the others do, and each by one build only.
OverspendIsBounded == Capped => ledger <= Cap + (Cardinality(Workers) - 1) * Price

\* A checkpoint is never replaced by an older one, across deaths, reaping and
\* resumption (M-082: without loss).
CheckpointKept ==
  [][\A j \in Jobs :
       /\ row[j].checkpoint.pre <= row'[j].checkpoint.pre
       /\ row[j].checkpoint.build => row'[j].checkpoint.build]_vars

\* A job that completed, failed or was cancelled stays so.
FinishedStays ==
  [][\A j \in Jobs : row[j].state \in Terminal => row'[j].state = row[j].state]_vars

\* "only queued/paused_budget jobs can be cancelled" (cancel_job).
OnlyWaitingIsCancelled ==
  [][\A j \in Jobs :
       row[j].state # "cancelled" /\ row'[j].state = "cancelled"
       => row[j].state \in {"queued", "paused_budget"}]_vars

\* No job is lost (M-082): whatever dies or outlasts its timeout on the way, an
\* enqueued job finishes, fails, is cancelled or waits for the operator.
Settled(j) == row[j].state \in Terminal \cup {"paused_budget"}
EveryJobSettles == \A j \in Jobs : row[j].state # "absent" ~> []Settled(j)

=============================================================================
