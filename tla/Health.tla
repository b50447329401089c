------------------------------- MODULE Health -------------------------------
(***************************************************************************)
(* Scheduler processes (execution/scheduler.py run_schedule), the          *)
(* heartbeats their jobs leave in the journal, and the health check that   *)
(* reads them (ops/health.py).                                             *)
(*                                                                         *)
(* A day has two slots: the session, and the evening in which daily jobs   *)
(* fire.  A job ends in a heartbeat of component "live", unless it failed  *)
(* before its decision, and one of component "scheduler"; both names are   *)
(* shared by all jobs and processes.  What a job trades is LiveTrading.    *)
(***************************************************************************)
EXTENDS Integers

CONSTANTS
    Schedulers,   \* processes, restarted whenever they die
    Jobs,         \* what they run: records with a spec, a symbol, a strategy
    Owner,        \* Owner[j]: the process of job j
    Daily,        \* processes on the mon-fri cron; the others fire each slot
    RunNow,       \* processes that also run every job once when they start
    MaxSilence,   \* slots of silence that the health check tolerates
    Expect,       \* components whose absence is a problem (none by default)
    Ahead,        \* slots the host's clock may be ahead before it is set right
    MaxFaults     \* bound: failures of any kind

ASSUME HealthAssumption ==
    /\ Owner \in [Jobs -> Schedulers]
    /\ Daily \subseteq Schedulers /\ RunNow \subseteq Schedulers
    /\ MaxSilence \in Nat /\ Ahead \in Nat /\ MaxFaults \in Nat

VARIABLES
    day, slot, holiday,   \* the calendar
    skewed,     \* is the host's clock ahead?
    up,         \* up[p]: "down", "starting" or "serving"
    todo,       \* todo[p]: jobs still to run before p serves
    due,        \* jobs whose trigger has fired
    job,        \* job[j]: control point and outcome of a run
    beat,       \* beat[c]: the newest heartbeat of component c
    quiet,      \* history: slots since a run of any job ended in a decision
    since,      \* history: slots since some job was due in a session
    faults      \* failures so far

calendar == <<day, slot, holiday>>
history  == <<quiet, since>>
vars == <<calendar, skewed, up, todo, due, job, beat, history, faults>>

-----------------------------------------------------------------------------
Component == {"live", "scheduler"}

\* Ages beyond every threshold are not told apart.
Oldest == MaxSilence + Ahead + 1
Older(age) == IF age < Oldest THEN age + 1 ELSE age

NoBeat == [status |-> "missing", age |-> 0]
Beat == [status : {"missing", "ok", "warn", "error"}, age : -Ahead..Oldest]

Idle == [pc |-> "idle", status |-> "ok"]
Job == [pc : {"idle", "run", "beat", "tick"}, status : {"ok", "warn", "error"}]

\* The variables hold values of their types.
TypeOK ==
    /\ day \in 0..6 /\ slot \in {"session", "evening"} /\ holiday \in BOOLEAN
    /\ skewed \in BOOLEAN
    /\ up \in [Schedulers -> {"down", "starting", "serving"}]
    /\ todo \in [Schedulers -> SUBSET Jobs]
    /\ due \in SUBSET Jobs
    /\ job \in [Jobs -> Job]
    /\ beat \in [Component -> Beat]
    /\ quiet \in 0..Oldest /\ since \in 0..Oldest
    /\ faults \in 0..MaxFaults

Init ==
    /\ day = 0 /\ slot = "session" /\ holiday = FALSE
    /\ skewed \in BOOLEAN
    /\ up = [p \in Schedulers |-> "down"]
    /\ todo = [p \in Schedulers |-> {}]
    /\ due = {}
    /\ job = [j \in Jobs |-> Idle]
    /\ beat = [c \in Component |-> NoBeat]
    /\ quiet = 0 /\ since = Oldest
    /\ faults = 0

Fault   == faults < MaxFaults /\ faults' = faults + 1
NoFault == UNCHANGED faults

-----------------------------------------------------------------------------
(* Calendar and triggers.                                                  *)

IsTradingDay(d, off) == d <= 4 /\ ~off

IsMarketOpen(d, s, off) == s = "session" /\ IsTradingDay(d, off)

\* The trigger of process p fires; whether the job then does anything is up
\* to its gate.
Fires(p, d, s) == p \notin Daily \/ (d <= 4 /\ s = "evening")

Gate(p, d, s, off) ==
    IF p \in Daily THEN IsTradingDay(d, off) ELSE IsMarketOpen(d, s, off)

AtRest == due = {} /\ \A j \in Jobs : job[j].pc = "idle"
          /\ \A p \in Schedulers : up[p] # "starting"

\* Time passes.  A job that is still running lets its next firing go by, and
\* a firing the host slept through is past its misfire grace.
Pass ==
    /\ IF AtRest THEN NoFault ELSE Fault
    /\ \E off \in BOOLEAN :
          /\ IF slot = "session"
             THEN slot' = "evening" /\ day' = day /\ off = holiday
             ELSE slot' = "session" /\ day' = (day + 1) % 7 /\ ~(off /\ holiday)
          /\ holiday' = off
          /\ due' = {j \in Jobs : /\ up[Owner[j]] = "serving" /\ job[j].pc = "idle"
                                  /\ Fires(Owner[j], day', slot')}
          /\ since' = IF \E j \in Jobs : Fires(Owner[j], day', slot')
                                         /\ Gate(Owner[j], day', slot', off)
                      THEN 0 ELSE Older(since)
    /\ beat' = [c \in Component |-> IF beat[c].status = "missing" THEN beat[c]
                                    ELSE [beat[c] EXCEPT !.age = Older(@)]]
    /\ quiet' = Older(quiet)
    /\ UNCHANGED <<skewed, up, todo, job>>

\* The clock is set right: what was stamped before now lies in the future.
ClockCorrected ==
    /\ skewed /\ Fault
    /\ skewed' = FALSE
    /\ beat' = [c \in Component |->
                   IF beat[c].status = "missing" THEN beat[c]
                   ELSE [beat[c] EXCEPT !.age = @ - Ahead]]
    /\ UNCHANGED <<calendar, up, todo, due, job, history>>

-----------------------------------------------------------------------------
(* The processes.                                                          *)

\* Fault: jobs identified by their symbol alone.
JobIdSymbol(j) == j.symbol

JobId(j) == <<j.symbol, j.strategy>>

JobsOf(p) == {j \in Jobs : Owner[j] = p}

Restart(p) ==
    /\ up[p] = "down"
    /\ up' = [up EXCEPT ![p] = "starting"]
    /\ todo' = [todo EXCEPT ![p] = IF p \in RunNow
                                   THEN JobsOf(p) ELSE {}]
    /\ UNCHANGED <<calendar, skewed, due, job, beat, history, faults>>

\* The file of the specs does not parse, has a key nobody knows or lacks the
\* name: the process ends at once, whichever spec is wrong, until the file is
\* mended.
SpecsRejected(p) ==
    /\ up[p] = "down" /\ Fault
    /\ UNCHANGED <<calendar, skewed, up, todo, due, job, beat, history>>

\* sched.start() raises when two jobs share an id, after --run-now has run
\* them; the process then ends.
Serve(p) ==
    /\ up[p] = "starting" /\ todo[p] = {}
    /\ \A j \in Jobs : Owner[j] = p => job[j].pc = "idle"
    /\ up' = [up EXCEPT ![p] =
                IF \A i, j \in JobsOf(p) : JobId(i) = JobId(j) => i = j
                THEN "serving" ELSE "down"]
    /\ UNCHANGED <<calendar, skewed, todo, due, job, beat, history, faults>>

Die(p) ==
    /\ up[p] # "down" /\ Fault
    /\ up' = [up EXCEPT ![p] = "down"]
    /\ todo' = [todo EXCEPT ![p] = {}]
    /\ due' = {j \in due : Owner[j] # p}
    /\ job' = [j \in Jobs |-> IF Owner[j] = p THEN Idle ELSE job[j]]
    /\ UNCHANGED <<calendar, skewed, beat, history>>

\* The gate of a job that starts: no session, no run, only a heartbeat.
Begin(j) ==
    job' = [job EXCEPT ![j] =
              IF Gate(Owner[j], day, slot, holiday)
              THEN [pc |-> "run", status |-> "ok"]
              ELSE [pc |-> "tick", status |-> "ok"]]

\* Triggered jobs of a process run side by side in its thread pool ...
Fire(j) ==
    /\ j \in due
    /\ due' = due \ {j}
    /\ Begin(j)
    /\ UNCHANGED <<calendar, skewed, up, todo, beat, history, faults>>

\* ... those of --run-now one after the other.
FireNow(j) ==
    LET p == Owner[j] IN
    /\ up[p] = "starting" /\ j \in todo[p]
    /\ \A i \in JobsOf(p) : job[i].pc = "idle"
    /\ todo' = [todo EXCEPT ![p] = @ \ {j}]
    /\ Begin(j)
    /\ UNCHANGED <<calendar, skewed, up, due, beat, history, faults>>

Decision(j, outcomes) ==
    /\ job[j].pc = "run"
    /\ \E status \in outcomes :
          job' = [job EXCEPT ![j] = [pc |-> "beat", status |-> status]]
    /\ UNCHANGED <<calendar, skewed, up, todo, due, beat, history, faults>>

\* Fault: the decision's action is taken for its status.
DecideAction(j) == Decision(j, {"ok", "halt"})

\* The run reaches a decision: acted or held (ok), blocked or halted (warn).
Decide(j) == Decision(j, {"ok", "warn"})

\* It fails: without bars or a broker there is no "live" heartbeat, later
\* there is.
Fail(j) ==
    /\ job[j].pc = "run" /\ Fault
    /\ \E pc \in {"tick", "beat"} :
          job' = [job EXCEPT ![j] = [pc |-> pc, status |-> "error"]]
    /\ UNCHANGED <<calendar, skewed, up, todo, due, beat, history>>

\* Fault: an error row wins over the newer ones.
StampSticky(c, status) ==
    beat' = [beat EXCEPT ![c] = [status |-> IF @.status = "error" THEN "error" ELSE status,
                                 age |-> 0]] /\ NoFault

\* record_heartbeat is best effort: the row may be lost.
Stamp(c, status) ==
    \/ beat' = [beat EXCEPT ![c] = [status |-> status, age |-> 0]] /\ NoFault
    \/ UNCHANGED beat /\ Fault

RunEnds(j, status) ==
    /\ job[j].pc = "beat"
    /\ Stamp("live", status)
    /\ job' = [job EXCEPT ![j].pc = "tick"]
    /\ quiet' = IF job[j].status = "error" THEN quiet ELSE 0
    /\ UNCHANGED <<calendar, skewed, up, todo, due, since>>

\* Fault: an error is stamped like any other end of a run.
RecordRunHeartbeatOk(j) == RunEnds(j, "ok")

RecordRunHeartbeat(j) == RunEnds(j, job[j].status)

TickHeartbeat(j) ==
    /\ job[j].pc = "tick"
    /\ Stamp("scheduler", IF job[j].status = "error" THEN "error" ELSE "ok")
    /\ job' = [job EXCEPT ![j] = Idle]
    /\ UNCHANGED <<calendar, skewed, up, todo, due, history>>

-----------------------------------------------------------------------------
(* The health check.                                                       *)

\* Fault: a component is stale a slot before its run can be missed.
StaleEarly(age) == age >= MaxSilence \/ age < 0

\* Silent for too long, or stamped in the future.
Stale(age) == age > MaxSilence \/ age < 0

Problem(c) ==
    IF beat[c].status = "missing" THEN c \in Expect
    ELSE Stale(beat[c].age) \/ beat[c].status = "error"

HealthOK == \A c \in Component : ~Problem(c)

\* quant health.
HealthExit == IF HealthOK THEN 0 ELSE 1

\* What the sections of quant status find: the broker with its reconcile, which
\* --offline skips, and whether the journal and the spec file can be read.
Sections == [broker : {"skipped", "clean", "critical", "fails"},
             journal : BOOLEAN, specs : BOOLEAN]

\* A section that fails does not keep the others from being checked.
StatusOK(found) ==
    found.broker \in {"skipped", "clean"} /\ found.journal /\ HealthOK /\ found.specs

StatusExit(found) == IF StatusOK(found) THEN 0 ELSE 1

-----------------------------------------------------------------------------
JobStep(j) == Decide(j) \/ RecordRunHeartbeat(j) \/ TickHeartbeat(j)

Next ==
    \/ Pass \/ ClockCorrected
    \/ \E p \in Schedulers : Restart(p) \/ SpecsRejected(p) \/ Serve(p) \/ Die(p)
    \/ \E j \in Jobs : Fire(j) \/ FireNow(j) \/ JobStep(j) \/ Fail(j)

Spec == Init /\ [][Next]_vars

\* Time passes, dead processes are restarted (restart: unless-stopped), and
\* a process that is alive goes on.
Fairness ==
    /\ WF_vars(AtRest /\ Pass)
    /\ \A p \in Schedulers : WF_vars(Restart(p)) /\ WF_vars(Serve(p))
    /\ \A j \in Jobs : WF_vars(Fire(j)) /\ WF_vars(FireNow(j)) /\ WF_vars(JobStep(j))

FairSpec == Spec /\ Fairness

-----------------------------------------------------------------------------
(* Properties.                                                             *)

\* "did today's run actually happen?": when no run of any job has ended in a
\* decision for longer than tolerated, the report says so, whichever of
\* deaths, hangs, failed loads and lost rows is the reason, and although the
\* processes keep ticking.  A clock that was ahead delays it by that much.  quant
\* health and quant status both exit with 1, whatever else status finds.
QuietIsReported ==
    quiet > MaxSilence + Ahead /\ beat["live"].status # "missing" =>
        HealthExit = 1 /\ \A found \in Sections : StatusExit(found) = 1

\* No alarm without cause: between sessions closer than the tolerated silence,
\* and with no failure so far, the report is clean once the jobs are done.  (It
\* is not over a weekend: "live" is then silent for three days.)  Status is then
\* bad only by what its other sections find.
AlarmHasCause ==
    AtRest /\ faults = 0 /\ since <= MaxSilence
    /\ (\A p \in Schedulers : up[p] = "serving") /\ quiet <= since
    => /\ HealthExit = 0
       /\ \A found \in Sections :
             StatusExit(found) = 1 =>
                 found.broker \in {"critical", "fails"} \/ ~found.journal \/ ~found.specs

\* Whatever fails, once failures end every job decides again and again at its
\* own time of day: deaths, restarts, --run-now and the job store never lose
\* one of them for good.
EveryJobRuns ==
    \A j \in Jobs :
        []<>(job[j].pc = "beat"
             /\ slot = IF Owner[j] \in Daily THEN "evening" ELSE "session")

\* An alarm does not outlive its cause: failures are bounded, and after them
\* the report is clean again and again.
AlarmClears == []<>HealthOK

=============================================================================
