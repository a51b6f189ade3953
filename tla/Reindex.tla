-------------------------------- MODULE Reindex --------------------------------
(***************************************************************************)
(* What makes a knowledge base be indexed again (pipeline/reindex.py,      *)
(* control/reindex.py), composed with the job queue it enqueues into: the  *)
(* tick of the scheduler at the head of every iteration of a worker's      *)
(* loop, `corpus reindex', the dispatch guard of incremental jobs, and the *)
(* count of budget pauses on the trigger.                                  *)
(*                                                                         *)
(* A due trigger is two commits: the job, then the row of the trigger.     *)
(* Time is counted in slots of the cron expression.  A worker reads        *)
(* corpus.yaml once, when it starts.                                       *)
(***************************************************************************)
EXTENDS JobQueue

CONSTANTS
  Triggers,          \* rows of reindex_triggers that are enabled
  Kind,              \* Kind[t]: trigger_type
  Versions, First_,  \* config versions, and the one at the start
  MaxDay, MaxEdits,  \* bounds: slots of the schedule, edits of corpus.yaml
  MaxManual,         \* bound on calls of `corpus reindex'
  AlertCount,        \* budgets.scheduled_reindex_cap_hit_alert_count
  ScheduleKey,       \* <kb>:scheduled:<cron>
  ConfigKey,         \* ConfigKey[v]: <kb>:config_change:<v>
  ManualKey          \* <kb>:manual:unversioned, of `corpus reindex' with and without --full

TriggerTypes == {"scheduled", "config_change", "change_detected"}

ASSUME ReindexAssumption ==
  /\ Kind \in [Triggers -> TriggerTypes]
  /\ First_ \in Versions /\ None \notin Versions \cup Triggers
  /\ AlertCount \in Nat \ {0}
  /\ {ScheduleKey, ManualKey} \cup {ConfigKey[v] : v \in Versions} \subseteq Keys

VARIABLES
  trig,    \* trig[t]: last_fired_at, last_seen_config_version, consecutive_cap_hits
  load,    \* load[j]: what the payload and the type of job j say
  tick,    \* tick[w]: where worker w is in scheduler_tick, or its book-keeping after a job
  conf,    \* conf[w]: the config version worker w has loaded
  file,    \* the config version of corpus.yaml
  day, edits, manual,
  alerted, \* history: triggers with an ALERT
  dry,     \* history: dry[t], fires of t that were absorbed by a paused job, in a row
  held     \* history: the slots in which a scheduled job was active when its trigger was due

trigVars == <<trig, load, tick, conf, file, day, edits, manual, alerted, dry, held>>
reVars == <<vars, trigVars>>

Days == 0 .. MaxDay
Never == MaxDay + 1      \* last_fired_at is null

Trigger == [fired : Days \cup {Never}, seen : Versions \cup {None}, hits : Nat]
Load == [of : Triggers \cup {None}, version : Versions \cup {None}, full : BOOLEAN]
NoLoad == [of |-> None, version |-> None, full |-> TRUE]
Tick == [pc : {"off", "eval", "record", "done", "pause", "success"},
         left : SUBSET Triggers, of : Triggers \cup {None}, job : 0 .. MaxJobs, now : Days]
Off == [pc |-> "off", left |-> {}, of |-> None, job |-> 0, now |-> 0]

ReindexTypeOK ==
  /\ TypeOK
  /\ trig \in [Triggers -> Trigger] /\ load \in [Jobs -> Load]
  /\ tick \in [Workers -> Tick] /\ conf \in [Workers -> Versions] /\ file \in Versions

ReindexInit ==
  /\ Init
  /\ trig = [t \in Triggers |-> [fired |-> Never, seen |-> None, hits |-> 0]]
  /\ load = [j \in Jobs |-> NoLoad]
  /\ tick = [w \in Workers |-> Off]
  /\ conf = [w \in Workers |-> First_] /\ file = First_
  /\ day = 0 /\ edits = 0 /\ manual = 0
  /\ alerted = {} /\ dry = [t \in Triggers |-> 0] /\ held = {}

-----------------------------------------------------------------------------
(* The scheduler.                                                          *)

TickAt(w, pc) == tick[w].pc = pc
QueueStays == UNCHANGED <<row, ledger, run, ask, asks, faults, builds>>

\* The enabled rows are read once; their fields are read again at every use.
BeginTick(w) ==
  /\ At(w, "poll") /\ TickAt(w, "off")
  /\ tick' = [tick EXCEPT ![w] = [Off EXCEPT !.pc = IF Triggers = {} THEN "done" ELSE "eval",
                                             !.left = Triggers, !.now = day]]
  /\ QueueStays
  /\ UNCHANGED <<trig, load, conf, file, day, edits, manual, alerted, dry, held>>

\* The next trigger, or the end of the tick.
Next_(w, t) ==
  [tick[w] EXCEPT !.pc = IF tick[w].left \subseteq {t} THEN "done" ELSE "eval",
                  !.left = @ \ {t}, !.of = None, !.job = 0]

\* A schedule is due in every slot after the one it fired in; a config change as
\* long as the row has not seen the version.  scheduler_tick passes no adapter,
\* so that a change_detected trigger is skipped.
Due(w, t) ==
  \/ Kind[t] = "scheduled" /\ trig[t].fired < tick[w].now
  \/ Kind[t] = "config_change" /\ trig[t].seen # conf[w]

\* Mutant: one key for all versions.
OfferShared(w, t) ==
  IF Kind[t] = "scheduled"
  THEN [kind |-> "pipeline", key |-> ScheduleKey, prio |-> 0]
  ELSE [kind |-> "pipeline", key |-> ConfigKey[First_], prio |-> 0]

\* The job a due trigger asks for.
Offer(w, t) ==
  IF Kind[t] = "scheduled"
  THEN [kind |-> "pipeline", key |-> ScheduleKey, prio |-> 0]
  ELSE [kind |-> "pipeline", key |-> ConfigKey[conf[w]], prio |-> 0]

\* A schedule that never fired is anchored: it must not fire at once.
Anchor(w, t) ==
  /\ TickAt(w, "eval") /\ t \in tick[w].left
  /\ Kind[t] = "scheduled" /\ trig[t].fired = Never
  /\ trig' = [trig EXCEPT ![t].fired = tick[w].now]
  /\ tick' = [tick EXCEPT ![w] = Next_(w, t)]
  /\ QueueStays
  /\ UNCHANGED <<load, conf, file, day, edits, manual, alerted, dry, held>>

Skip(w, t) ==
  /\ TickAt(w, "eval") /\ t \in tick[w].left
  /\ ~Due(w, t) /\ ~(Kind[t] = "scheduled" /\ trig[t].fired = Never)
  /\ tick' = [tick EXCEPT ![w] = Next_(w, t)]
  /\ QueueStays
  /\ UNCHANGED <<trig, load, conf, file, day, edits, manual, alerted, dry, held>>

\* enqueue and its commit: a new job, or the active one with the key.
Fire(w, t) ==
  LET o == Offer(w, t)
      new(j) == row[j].state = "absent" /\ row'[j].state # "absent"
  IN  /\ TickAt(w, "eval") /\ t \in tick[w].left /\ Due(w, t)
      /\ \E j \in Jobs :
           /\ \/ /\ Insert(o) /\ new(j)
                 /\ load' = [load EXCEPT ![j] =
                      [of |-> t, version |-> conf[w], full |-> Kind[t] = "config_change"]]
                 /\ dry' = [dry EXCEPT ![t] = 0]
              \/ /\ row[j].key = o.key /\ row[j].state \in Active
                 /\ dry' = [dry EXCEPT ![t] =
                      IF row[j].state = "paused_budget" /\ @ < AlertCount THEN @ + 1 ELSE @]
                 /\ UNCHANGED <<row, load>>
           /\ tick' = [tick EXCEPT ![w].pc = "record", ![w].of = t, ![w].job = j]
      /\ held' = IF Kind[t] = "scheduled" THEN held \cup {tick[w].now} ELSE held
      /\ UNCHANGED <<ledger, run, ask, asks, faults, builds>>
      /\ UNCHANGED <<trig, conf, file, day, edits, manual, alerted>>

Alerts(t) == IF trig[t].hits >= AlertCount THEN alerted \cup {t} ELSE alerted

\* Mutant: the row gets the time of its own commit instead of the time of the tick.
RecordFiredLate(w) ==
  LET t == tick[w].of
  IN  /\ TickAt(w, "record")
      /\ trig' = [trig EXCEPT ![t].fired = day, ![t].seen = conf[w]]
      /\ alerted' = IF Kind[t] = "scheduled" THEN Alerts(t) ELSE alerted
      /\ tick' = [tick EXCEPT ![w] = Next_(w, t)]
      /\ QueueStays
      /\ UNCHANGED <<load, conf, file, day, edits, manual, dry, held>>

\* record_fired and its commit, then the alert of a scheduled trigger.
RecordFired(w) ==
  LET t == tick[w].of
  IN  /\ TickAt(w, "record")
      /\ trig' = [trig EXCEPT ![t].fired = tick[w].now, ![t].seen = conf[w]]
      /\ alerted' = IF Kind[t] = "scheduled" THEN Alerts(t) ELSE alerted
      /\ tick' = [tick EXCEPT ![w] = Next_(w, t)]
      /\ QueueStays
      /\ UNCHANGED <<load, conf, file, day, edits, manual, dry, held>>

\* `corpus reindex', with and without --full: one dedupe key for both.
Manual(full) ==
  /\ manual < MaxManual
  /\ manual' = manual + 1
  /\ \/ \E j \in Jobs :
          /\ Insert([kind |-> "pipeline", key |-> ManualKey, prio |-> 10])
          /\ row[j].state = "absent" /\ row'[j].state # "absent"
          /\ load' = [load EXCEPT ![j] = [NoLoad EXCEPT !.full = full]]
     \/ ~Unique(0, ManualKey) /\ UNCHANGED <<row, load>>
  /\ UNCHANGED <<ledger, run, ask, asks, faults, builds>>
  /\ UNCHANGED <<trig, tick, conf, file, day, edits, alerted, dry, held>>

-----------------------------------------------------------------------------
(* The worker's steps of JobQueue, with what they do to the triggers.      *)

Idle(w) == TickAt(w, "off")
TrigStays == UNCHANGED trigVars

\* The rest of the iteration begins after the tick.
AfterTick(w) ==
  /\ TickAt(w, "done") /\ ReapRead(w)
  /\ tick' = [tick EXCEPT ![w] = Off]
  /\ UNCHANGED <<trig, load, conf, file, day, edits, manual, alerted, dry, held>>

\* assert_incremental_allowed (M-053): an incremental job of another version fails.
Dispatch(w) ==
  LET l == load[run[w].job]
  IN  /\ At(w, "read") /\ Idle(w) /\ TrigStays
      /\ l.full \/ l.version \in {None, conf[w]}
      /\ ReadCheckpoint(w)

\* A job of a trigger leaves its worker with a count to write.
ThenBook(w, pc, step) ==
  LET t == load[run[w].job].of
  IN  /\ Idle(w) /\ step
      /\ tick' = IF t = None THEN tick ELSE [tick EXCEPT ![w] = [Off EXCEPT !.pc = pc, !.of = t]]
      /\ UNCHANGED <<trig, load, conf, file, day, edits, manual, alerted, dry, held>>

Pauses(w) == Mine(w, "budget") /\ ~WithinBudget
CheckedBudget(w) ==
  \/ Idle(w) /\ ~Pauses(w) /\ CheckBudget(w) /\ TrigStays
  \/ Pauses(w) /\ ThenBook(w, "pause", CheckBudget(w))

Completed(w) ==
  \/ Idle(w) /\ ~At(w, "complete") /\ Complete(w) /\ TrigStays
  \/ At(w, "complete") /\ ThenBook(w, "success", Complete(w))

\* record_budget_pause_for_trigger and record_successful_run_for_trigger.
Book(w) ==
  LET t == tick[w].of
      hits == IF TickAt(w, "pause") THEN trig[t].hits + 1 ELSE 0
  IN  /\ TickAt(w, "pause") \/ TickAt(w, "success")
      /\ trig' = [trig EXCEPT ![t].hits = hits]
      /\ alerted' = IF TickAt(w, "pause") /\ hits >= AlertCount THEN alerted \cup {t} ELSE alerted
      /\ dry' = [dry EXCEPT ![t] = IF TickAt(w, "success") THEN 0 ELSE @]
      /\ tick' = [tick EXCEPT ![w] = Off]
      /\ QueueStays
      /\ UNCHANGED <<load, conf, file, day, edits, manual, held>>

Worked(w) ==
  \/ AfterTick(w) \/ Dispatch(w) \/ CheckedBudget(w) \/ Completed(w)
  \/ /\ Idle(w) /\ TrigStays
     /\ \/ ReapWrite(w) \/ Claim(w) \/ Start(w) \/ RunStage(w) \/ StagesDone(w)
        \/ RunBuild(w) \/ IntendDrift(w)

Erred(w) == Idle(w) /\ WorkerError(w) /\ TrigStays

\* The tick and the book-keeping are lost with the process.
Died(w) ==
  /\ Crash(w)
  /\ tick' = [tick EXCEPT ![w] = Off]
  /\ UNCHANGED <<trig, load, conf, file, day, edits, manual, alerted, dry, held>>

\* SIGTERM: the loop ends at its head.  Operators restart workers after an edit.
Stop(w) ==
  /\ At(w, "poll") /\ Idle(w) /\ conf[w] # file
  /\ run' = [run EXCEPT ![w].pc = "down"]
  /\ UNCHANGED <<row, ledger, ask, asks, faults, builds>> /\ TrigStays

Restarted(w) ==
  /\ Restart(w)
  /\ conf' = [conf EXCEPT ![w] = file]
  /\ UNCHANGED <<trig, load, tick, file, day, edits, manual, alerted, dry, held>>

Edit(v) ==
  /\ edits < MaxEdits /\ v # file
  /\ edits' = edits + 1 /\ file' = v
  /\ QueueStays
  /\ UNCHANGED <<trig, load, tick, conf, day, manual, alerted, dry, held>>

NextDay ==
  /\ day < MaxDay
  /\ day' = day + 1
  /\ QueueStays
  /\ UNCHANGED <<trig, load, tick, conf, file, edits, manual, alerted, dry, held>>

Ticked(w) ==
  \/ BeginTick(w) \/ RecordFired(w) \/ Book(w)
  \/ \E t \in Triggers : Anchor(w, t) \/ Skip(w, t) \/ Fire(w, t)

ReindexNext ==
  \/ \E w \in Workers : Ticked(w) \/ Worked(w) \/ Erred(w) \/ Died(w) \/ Stop(w) \/ Restarted(w)
  \/ \E full \in BOOLEAN : Manual(full)
  \/ \E c \in Clients : ClientStep(c) /\ TrigStays
  \/ \E j \in Jobs : (Expire(j) \/ Outlast(j)) /\ TrigStays
  \/ \E v \in Versions : Edit(v)
  \/ NextDay

ReindexSpec == ReindexInit /\ [][ReindexNext]_reVars

\* As in JobQueue: workers run on and come back, time passes; and a worker with an
\* old file is restarted.
ReindexFairness ==
  /\ \A w \in Workers :
       /\ WF_reVars(Ticked(w) \/ Worked(w) \/ Erred(w))
       /\ WF_reVars(Restarted(w)) /\ SF_reVars(Stop(w))
  /\ \A j \in Jobs : WF_reVars(Expire(j) /\ TrigStays)

FairReindexSpec == ReindexSpec /\ ReindexFairness

-----------------------------------------------------------------------------
(* Properties.                                                             *)

\* The bounded table has no room for another job.
Full == \A j \in Jobs : row[j].state # "absent"

\* Every slot after the first is served: a worker may die between the two commits of a
\* due trigger, or hold the tick while the next slot begins, and a job is offered all
\* the same in that slot or a later one (evaluate_triggers: the row is written last).
SlotIsServed ==
  \A t \in Triggers, d \in 1 .. MaxDay :
    Kind[t] = "scheduled"
    => ((day = d /\ trig[t].fired < d) ~> (Full \/ \E s \in held : s >= d))

\* "Any change to the following configuration fields MUST automatically schedule a
\* full rebuild" (index-lifecycle.md 7.4, M-053): once corpus.yaml stays as it is, a
\* full job for its version settles, unless the table has no room left for it.
Rebuilt(v) == \E j \in Jobs : load[j].full /\ load[j].of # None /\ load[j].version = v /\ Settled(j)
ChangeIsRebuilt ==
  (\E t \in Triggers : Kind[t] = "config_change")
  => \A v \in Versions : <>[](file = v) => <>(Rebuilt(v) \/ Full)

-----------------------------------------------------------------------------
(* What the documents say and the code does not do.                        *)

\* The trigger "continues to fire on schedule, hit the cap, and pause", and alerts
\* after AlertCount hits in a row (budget-cap-hit.md:125): the paused job is active,
\* so that every later slot is absorbed by it and counts nothing.
RepeatedHitsAlert == \A t \in Triggers : dry[t] >= AlertCount => t \in alerted
=============================================================================
