---------------------------- MODULE Health_proofs ----------------------------
(***************************************************************************)
(* For any number of processes and jobs and any number of failures: the    *)
(* variables keep their types, trading that has stopped is reported, and   *)
(* no alarm is raised without a cause.                                     *)
(*                                                                         *)
(* The report reads the age of the newest "live" row; the property speaks  *)
(* of runs.  LiveIsOld relates the two: a row that is no error is at least *)
(* as old as the last decision, less what the clock has been set back.     *)
(***************************************************************************)
EXTENDS Health, TLAPS

\* Until the clock is set back no row lies in the future.
PastStamps == skewed => \A c \in Component : beat[c].age >= 0

SetBack == IF skewed THEN 0 ELSE Ahead

LiveIsOld ==
    beat["live"].status \in {"ok", "warn"} => beat["live"].age >= quiet - SetBack

IInv == TypeOK /\ PastStamps /\ LiveIsOld

-----------------------------------------------------------------------------
\* The age of a row and the length of a silence stay below their cap, and
\* time makes them no younger.
LEMMA OlderBounds ==
    ASSUME NEW age \in Int, age <= Oldest
    PROVE  /\ Older(age) \in Int /\ Older(age) <= Oldest
           /\ age <= Older(age)
           /\ age < Oldest => Older(age) = age + 1
           /\ ~(age < Oldest) => Older(age) = Oldest
BY HealthAssumption DEF Older, Oldest

LEMMA OldestType == Oldest \in Int /\ Oldest > 0 /\ Oldest = MaxSilence + Ahead + 1
BY HealthAssumption DEF Oldest

-----------------------------------------------------------------------------
LEMMA InitIInv == Init => IInv
<1> SUFFICES ASSUME Init PROVE IInv
    OBVIOUS
<1>1. NoBeat \in Beat
      BY HealthAssumption, OldestType DEF NoBeat, Beat
<1>2. Idle \in Job
      BY DEF Idle, Job
<1>3. skewed \in BOOLEAN
      BY DEF Init
<1>4. /\ holiday \in BOOLEAN /\ due \in SUBSET Jobs
      /\ up \in [Schedulers -> {"down", "starting", "serving"}]
      /\ todo \in [Schedulers -> SUBSET Jobs] /\ job \in [Jobs -> Job]
      /\ beat \in [Component -> Beat]
      BY <1>1, <1>2 DEF Init
<1>5. /\ day \in 0..6 /\ slot \in {"session", "evening"}
      /\ quiet \in 0..Oldest /\ since \in 0..Oldest /\ faults \in 0..MaxFaults
      BY HealthAssumption, OldestType DEF Init
<1>6. PastStamps /\ LiveIsOld
      BY DEF Init, PastStamps, LiveIsOld, NoBeat, Component
<1> QED BY <1>3, <1>4, <1>5, <1>6 DEF IInv, TypeOK

\* A row of any component, or none, is written now.
LEMMA StampIInv ==
    ASSUME IInv, NEW c \in Component, NEW status \in {"ok", "warn", "error"},
           Stamp(c, status), skewed' = skewed, quiet' \in {0, quiet},
           c = "live" => quiet' = 0 \/ status = "error"
    PROVE  /\ beat' \in [Component -> Beat] /\ faults' \in 0..MaxFaults
           /\ quiet' \in 0..Oldest
           /\ PastStamps' /\ LiveIsOld'
<1>1. beat' = beat \/ beat' = [beat EXCEPT ![c] = [status |-> status, age |-> 0]]
      BY DEF Stamp
<1>2. faults' \in 0..MaxFaults
      BY HealthAssumption DEF Stamp, Fault, NoFault, IInv, TypeOK
<1>3. /\ beat \in [Component -> Beat] /\ quiet \in 0..Oldest /\ skewed \in BOOLEAN
      BY DEF IInv, TypeOK
<1>4. [status |-> status, age |-> 0] \in Beat
      BY HealthAssumption, OldestType DEF Beat
<1>5. beat' \in [Component -> Beat] /\ quiet' \in 0..Oldest
      BY <1>1, <1>3, <1>4, OldestType
<1>6. PastStamps'
      BY <1>1, <1>3 DEF PastStamps, IInv
<1>7. "live" \in Component
      BY DEF Component
<1>8. beat["live"].age \in Int /\ beat["live"].age >= -Ahead
      BY <1>3, <1>7, HealthAssumption, OldestType DEF Beat
<1>9. LiveIsOld'
  <2>1. CASE beat' = beat
    <3>1. skewed => beat["live"].age >= 0
          BY <1>7 DEF IInv, PastStamps
    <3> QED BY <2>1, <3>1, <1>3, <1>8, HealthAssumption DEF LiveIsOld, SetBack, IInv
  <2>2. CASE beat' = [beat EXCEPT ![c] = [status |-> status, age |-> 0]] /\ c = "live"
    <3>1. beat'["live"].status = status /\ beat'["live"].age = 0
          BY <2>2, <1>3, <1>7
    <3>2. status \in {"ok", "warn"} => quiet' = 0
          BY <2>2
    <3>3. SetBack' \in Nat
          BY HealthAssumption DEF SetBack
    <3> HIDE DEF SetBack
    <3>4. \A n \in Nat : 0 >= 0 - n
          OBVIOUS
    <3> SUFFICES ASSUME beat'["live"].status \in {"ok", "warn"}
                 PROVE  beat'["live"].age >= quiet' - SetBack'
        BY DEF LiveIsOld
    <3>5. quiet' = 0
          BY <3>1, <3>2
    <3> QED BY <3>1, <3>3, <3>4, <3>5, Zenon
  <2>3. CASE beat' = [beat EXCEPT ![c] = [status |-> status, age |-> 0]] /\ c # "live"
    <3>1. beat'["live"] = beat["live"]
          BY <2>3, <1>3, <1>7
    <3>2. skewed => beat["live"].age >= 0
          BY <1>7 DEF IInv, PastStamps
    <3> QED BY <3>1, <3>2, <1>3, <1>8, HealthAssumption DEF LiveIsOld, SetBack, IInv
  <2> QED BY <1>1, <2>1, <2>2, <2>3
<1> QED BY <1>2, <1>5, <1>6, <1>9

\* Time passes.
LEMMA PassIInv == IInv /\ Pass => IInv'
<1> SUFFICES ASSUME IInv, Pass PROVE IInv'
    OBVIOUS
<1>1. TypeOK
      BY DEF IInv
<1>2. beat' = [c \in Component |-> IF beat[c].status = "missing" THEN beat[c]
                                   ELSE [beat[c] EXCEPT !.age = Older(@)]]
      BY DEF Pass
<1>3. ASSUME NEW c \in Component
      PROVE  /\ beat'[c] \in Beat /\ beat[c] \in Beat
             /\ beat'[c].status = beat[c].status
             /\ beat[c].age <= beat'[c].age
             /\ beat[c].status # "missing" => beat'[c].age = Older(beat[c].age)
  <2>1. beat[c] \in Beat
        BY <1>1 DEF TypeOK
  <2>2. beat[c].age \in Int /\ beat[c].age <= Oldest /\ beat[c].age >= -Ahead
        BY <2>1, HealthAssumption, OldestType DEF Beat
  <2>3. Older(beat[c].age) \in -Ahead..Oldest /\ beat[c].age <= Older(beat[c].age)
        BY <2>2, OlderBounds, HealthAssumption, OldestType
  <2>4. beat'[c] = IF beat[c].status = "missing" THEN beat[c]
                   ELSE [beat[c] EXCEPT !.age = Older(@)]
        BY <1>2
  <2> QED BY <2>1, <2>2, <2>3, <2>4 DEF Beat
<1>4. beat' \in [Component -> Beat]
      BY <1>2, <1>3
<1>5. /\ day' \in 0..6 /\ slot' \in {"session", "evening"} /\ holiday' \in BOOLEAN
      BY <1>1 DEF Pass, TypeOK
<1>6. due' \in SUBSET Jobs /\ faults' \in 0..MaxFaults
      BY <1>1, HealthAssumption DEF Pass, TypeOK, Fault, NoFault
<1>7. quiet' = Older(quiet) /\ quiet \in Int /\ quiet <= Oldest /\ quiet >= 0
      BY <1>1, OldestType DEF Pass, TypeOK
<1>8. quiet' \in 0..Oldest
      BY <1>7, OlderBounds, OldestType
<1>9. since' \in 0..Oldest
  <2>1. since \in Int /\ since <= Oldest /\ since >= 0
        BY <1>1, OldestType DEF TypeOK
  <2>2. since' = 0 \/ since' = Older(since)
        BY DEF Pass
  <2> QED BY <2>1, <2>2, OlderBounds, OldestType
<1>10. TypeOK'
      BY <1>1, <1>4, <1>5, <1>6, <1>8, <1>9 DEF Pass, TypeOK
<1>11. skewed' = skewed
      BY DEF Pass
<1>12. PastStamps'
  <2> SUFFICES ASSUME skewed, NEW c \in Component PROVE beat'[c].age >= 0
      BY <1>11 DEF PastStamps
  <2>1. beat[c].age >= 0
        BY DEF IInv, PastStamps
  <2>2. beat[c].age \in Int /\ beat'[c].age \in Int
        BY <1>3, HealthAssumption, OldestType DEF Beat
  <2> QED BY <1>3, <2>1, <2>2
<1>13. LiveIsOld'
  <2> SUFFICES ASSUME beat'["live"].status \in {"ok", "warn"}
               PROVE  beat'["live"].age >= quiet' - SetBack
      BY <1>11 DEF LiveIsOld, SetBack
  <2>1. "live" \in Component
        BY DEF Component
  <2>2. beat["live"].status \in {"ok", "warn"}
        BY <1>3, <2>1
  <2>3. beat["live"].age >= quiet - SetBack
        BY <2>2 DEF IInv, LiveIsOld
  <2>4. beat'["live"].age = Older(beat["live"].age)
        BY <1>3, <2>1, <2>2
  <2>5. beat["live"].age \in Int /\ beat["live"].age <= Oldest
        BY <1>3, <2>1, HealthAssumption, OldestType DEF Beat
  <2>6. SetBack \in Nat
        BY HealthAssumption DEF SetBack
  <2> HIDE DEF SetBack
  <2> QED BY <2>3, <2>4, <2>5, <2>6, <1>7, OlderBounds, OldestType
<1> QED BY <1>10, <1>12, <1>13 DEF IInv

\* The clock is set right.
LEMMA ClockIInv == IInv /\ ClockCorrected => IInv'
<1> SUFFICES ASSUME IInv, ClockCorrected PROVE IInv'
    OBVIOUS
<1>1. TypeOK /\ skewed /\ ~skewed'
      BY DEF IInv, ClockCorrected
<1>2. ASSUME NEW c \in Component
      PROVE  /\ beat'[c] \in Beat /\ beat[c] \in Beat
             /\ beat'[c].status = beat[c].status
             /\ beat[c].status # "missing" => beat'[c].age = beat[c].age - Ahead
  <2>1. beat[c] \in Beat /\ beat[c].age >= 0
        BY <1>1 DEF TypeOK, IInv, PastStamps
  <2>2. beat[c].age \in Int /\ beat[c].age <= Oldest
        BY <2>1, HealthAssumption, OldestType DEF Beat
  <2>3. beat[c].age - Ahead \in -Ahead..Oldest
        BY <2>1, <2>2, HealthAssumption, OldestType
  <2>4. beat'[c] = IF beat[c].status = "missing" THEN beat[c]
                   ELSE [beat[c] EXCEPT !.age = @ - Ahead]
        BY DEF ClockCorrected
  <2> QED BY <2>1, <2>3, <2>4 DEF Beat
<1>3. beat' \in [Component -> Beat]
      BY <1>2 DEF ClockCorrected
<1>4. faults' \in 0..MaxFaults
      BY <1>1, HealthAssumption DEF ClockCorrected, Fault, TypeOK
<1>5. TypeOK'
      BY <1>1, <1>3, <1>4 DEF ClockCorrected, TypeOK, calendar, history
<1>6. PastStamps'
      BY <1>1 DEF PastStamps
<1>7. LiveIsOld'
  <2>1. "live" \in Component /\ quiet' = quiet /\ SetBack = 0 /\ SetBack' = Ahead
        BY <1>1 DEF Component, ClockCorrected, history, SetBack
  <2>2. beat["live"].age \in Int /\ quiet \in Int
        BY <1>1, <1>2, <2>1, HealthAssumption, OldestType DEF Beat, TypeOK
  <2> HIDE DEF SetBack
  <2> QED BY <1>2, <2>1, <2>2, HealthAssumption DEF IInv, LiveIsOld
<1> QED BY <1>5, <1>6, <1>7 DEF IInv

\* Steps that leave rows, silence and clock alone.
LEMMA OtherIInv ==
    ASSUME IInv, UNCHANGED <<skewed, beat, quiet>>
    PROVE  PastStamps' /\ LiveIsOld'
BY DEF IInv, PastStamps, LiveIsOld, SetBack

LEMMA ProcessIInv ==
    ASSUME IInv, NEW p \in Schedulers,
           Restart(p) \/ SpecsRejected(p) \/ Serve(p) \/ Die(p)
    PROVE  IInv'
<1>1. TypeOK
      BY DEF IInv
<1>2. PastStamps' /\ LiveIsOld'
      BY OtherIInv DEF Restart, SpecsRejected, Serve, Die, history
<1>3. Idle \in Job
      BY DEF Idle, Job
<1>4. CASE Restart(p)
      BY <1>1, <1>2, <1>4 DEF IInv, TypeOK, Restart, JobsOf, calendar, history
<1>5. CASE Serve(p)
      BY <1>1, <1>2, <1>5 DEF IInv, TypeOK, Serve, calendar, history
<1>6. CASE Die(p)
      BY <1>1, <1>2, <1>3, <1>6, HealthAssumption
         DEF IInv, TypeOK, Die, Fault, calendar, history
<1>7. CASE SpecsRejected(p)
      BY <1>1, <1>2, <1>7, HealthAssumption
         DEF IInv, TypeOK, SpecsRejected, Fault, calendar, history
<1> QED BY <1>4, <1>5, <1>6, <1>7

LEMMA JobIInv ==
    ASSUME IInv, NEW j \in Jobs,
           Fire(j) \/ FireNow(j) \/ JobStep(j) \/ Fail(j)
    PROVE  IInv'
<1>1. TypeOK /\ job[j] \in Job /\ faults \in 0..MaxFaults
      BY DEF IInv, TypeOK
<1>2. CASE Fire(j)
  <2>1. PastStamps' /\ LiveIsOld'
        BY <1>2, OtherIInv DEF Fire, history
  <2>2. job' \in [Jobs -> Job]
        BY <1>1, <1>2 DEF Fire, Begin, Job, TypeOK
  <2> QED BY <1>1, <1>2, <2>1, <2>2 DEF IInv, TypeOK, Fire, calendar, history
<1>3. CASE FireNow(j)
  <2>1. PastStamps' /\ LiveIsOld'
        BY <1>3, OtherIInv DEF FireNow, history
  <2>2. job' \in [Jobs -> Job]
        BY <1>1, <1>3 DEF FireNow, Begin, Job, TypeOK
  <2> QED BY <1>1, <1>3, <2>1, <2>2 DEF IInv, TypeOK, FireNow, calendar, history
<1>4. CASE Decide(j)
  <2>1. PastStamps' /\ LiveIsOld'
        BY <1>4, OtherIInv DEF Decide, Decision, history
  <2>2. job' \in [Jobs -> Job]
        BY <1>1, <1>4 DEF Decide, Decision, Job, TypeOK
  <2> QED BY <1>1, <1>4, <2>1, <2>2
             DEF IInv, TypeOK, Decide, Decision, calendar, history
<1>5. CASE Fail(j)
  <2>1. PastStamps' /\ LiveIsOld'
        BY <1>5, OtherIInv DEF Fail, history
  <2>2. job' \in [Jobs -> Job]
        BY <1>1, <1>5 DEF Fail, Job, TypeOK
  <2>3. faults' \in 0..MaxFaults
        BY <1>1, <1>5, HealthAssumption DEF Fail, Fault
  <2> QED BY <1>1, <1>5, <2>1, <2>2, <2>3 DEF IInv, TypeOK, Fail, calendar, history
<1>6. CASE RecordRunHeartbeat(j)
  <2>1. job[j].status \in {"ok", "warn", "error"} /\ "live" \in Component
        BY <1>1 DEF Job, Component
  <2>2. /\ Stamp("live", job[j].status) /\ skewed' = skewed
        /\ quiet' = IF job[j].status = "error" THEN quiet ELSE 0
        BY <1>6 DEF RecordRunHeartbeat, RunEnds
  <2>3. quiet' \in {0, quiet} /\ (quiet' = 0 \/ job[j].status = "error")
        BY <2>2
  <2>4. /\ beat' \in [Component -> Beat] /\ faults' \in 0..MaxFaults
        /\ quiet' \in 0..Oldest /\ PastStamps' /\ LiveIsOld'
        BY <2>1, <2>2, <2>3, StampIInv
  <2>5. job' \in [Jobs -> Job]
        BY <1>1, <1>6 DEF RecordRunHeartbeat, RunEnds, Job, TypeOK
  <2> QED BY <1>1, <1>6, <2>4, <2>5
             DEF IInv, TypeOK, RecordRunHeartbeat, RunEnds, calendar
<1>7. CASE TickHeartbeat(j)
  <2> DEFINE status == IF job[j].status = "error" THEN "error" ELSE "ok"
  <2>1. /\ Stamp("scheduler", status) /\ skewed' = skewed /\ quiet' = quiet
        BY <1>7 DEF TickHeartbeat, history
  <2>2. "scheduler" \in Component /\ status \in {"ok", "warn", "error"}
        BY DEF Component
  <2>3. quiet' \in {0, quiet}
        BY <2>1
  <2> HIDE DEF status
  <2>4. /\ beat' \in [Component -> Beat] /\ faults' \in 0..MaxFaults
        /\ quiet' \in 0..Oldest /\ PastStamps' /\ LiveIsOld'
        BY <2>1, <2>2, <2>3, StampIInv
  <2>5. job' \in [Jobs -> Job]
        BY <1>1, <1>7 DEF TickHeartbeat, Idle, Job, TypeOK
  <2> QED BY <1>1, <1>7, <2>4, <2>5
             DEF IInv, TypeOK, TickHeartbeat, calendar, history
<1> QED BY <1>2, <1>3, <1>4, <1>5, <1>6, <1>7 DEF JobStep

LEMMA NextIInv == IInv /\ [Next]_vars => IInv'
<1> SUFFICES ASSUME IInv, [Next]_vars PROVE IInv'
    OBVIOUS
<1>1. CASE UNCHANGED vars
      BY <1>1 DEF vars, calendar, history, IInv, TypeOK, PastStamps, LiveIsOld, SetBack
<1>2. CASE Next
      BY <1>2, PassIInv, ClockIInv, ProcessIInv, JobIInv DEF Next
<1> QED BY <1>1, <1>2

LEMMA Inductive == Spec => []IInv
BY InitIInv, NextIInv, PTL DEF Spec

-----------------------------------------------------------------------------
\* The variables hold values of their types.
THEOREM TypeCorrectness == Spec => []TypeOK
<1>1. IInv => TypeOK
      BY DEF IInv
<1> QED BY <1>1, Inductive, PTL

\* The report of health_check is not clean while no run of any job has ended
\* in a decision for longer than tolerated, with any number of processes that
\* die, hang, fail or lose their rows, and although they all keep ticking.
THEOREM SilenceIsReported == Spec => []QuietIsReported
<1>1. IInv => QuietIsReported
  <2> SUFFICES ASSUME IInv, quiet > MaxSilence + Ahead, beat["live"].status # "missing"
               PROVE  ~HealthOK
      BY DEF QuietIsReported, HealthExit, StatusExit, StatusOK
  <2>1. "live" \in Component /\ beat["live"] \in Beat /\ quiet \in Int
        BY OldestType DEF Component, IInv, TypeOK
  <2>2. beat["live"].age \in Int /\ beat["live"].status \in {"ok", "warn", "error"}
        BY <2>1, HealthAssumption, OldestType DEF Beat
  <2>3. CASE beat["live"].status = "error"
        BY <2>1, <2>3 DEF HealthOK, Problem
  <2>4. CASE beat["live"].status \in {"ok", "warn"}
    <3>1. beat["live"].age >= quiet - SetBack
          BY <2>4 DEF IInv, LiveIsOld
    <3>2. SetBack \in Nat /\ SetBack <= Ahead
          BY HealthAssumption DEF SetBack
    <3>3. beat["live"].age > MaxSilence
          BY <2>1, <2>2, <3>1, <3>2, HealthAssumption
    <3> QED BY <2>1, <2>4, <3>3 DEF HealthOK, Problem, Stale
  <2> QED BY <2>2, <2>3, <2>4
<1> QED BY <1>1, Inductive, PTL

-----------------------------------------------------------------------------
(***************************************************************************)
(* While nothing has failed, the rows are those of the last decision and   *)
(* of the tick after it: the "scheduler" row is never older than the       *)
(* "live" row unless a job is about to write it, and both are written      *)
(* before time passes.  A row that is missing means that no decision was   *)
(* due yet, which is what keeps even an expected component from raising a  *)
(* false alarm.  To keep a tick from being forgotten, a trigger only waits *)
(* for a job that is idle and whose process serves.                        *)
(***************************************************************************)
DueIsIdle == \A j \in due : up[Owner[j]] = "serving" /\ job[j].pc = "idle"

TickAhead == \E j \in Jobs : job[j].pc = "tick"

NoErrors ==
    /\ \A c \in Component : beat[c].status # "error" /\ beat[c].age >= 0
    /\ \A j \in Jobs : job[j].status # "error"

NothingYet == quiet > since \/ since = Oldest

Recent ==
    /\ beat["live"].age <= quiet
    /\ \/ TickAhead
       \/ /\ beat["scheduler"].status # "missing"
          /\ beat["scheduler"].age <= beat["live"].age

Unhurt ==
    /\ NoErrors
    /\ IF beat["live"].status = "missing" THEN NothingYet ELSE Recent

CInv == DueIsIdle /\ (faults = 0 => Unhurt)

-----------------------------------------------------------------------------
\* A failure is counted, so that none has happened while the count is 0.
LEMMA FaultCounts == TypeOK /\ Fault => faults' # 0
BY HealthAssumption DEF TypeOK, Fault

\* The fields of rows and of jobs.
LEMMA RowType ==
    ASSUME TypeOK, NEW c \in Component
    PROVE  beat[c] \in Beat /\ beat[c].age \in Int /\ beat[c].age <= Oldest
           /\ beat[c].status \in {"missing", "ok", "warn", "error"}
BY HealthAssumption, OldestType DEF TypeOK, Beat

LEMMA InitCInv == Init => CInv
<1> SUFFICES ASSUME Init PROVE CInv
    OBVIOUS
<1>1. DueIsIdle
      BY DEF Init, DueIsIdle
<1>2. NoErrors
      BY DEF Init, NoErrors, NoBeat, Idle
<1>3. beat["live"].status = "missing" /\ NothingYet
      BY DEF Init, NoBeat, Component, NothingYet
<1> QED BY <1>1, <1>2, <1>3 DEF CInv, Unhurt

\* Time passes.
LEMMA PassCInv == TypeOK /\ CInv /\ Pass => CInv'
<1> SUFFICES ASSUME TypeOK, CInv, Pass PROVE CInv'
    OBVIOUS
<1>1. DueIsIdle'
      BY DEF Pass, DueIsIdle
<1> SUFFICES ASSUME faults' = 0 PROVE Unhurt'
    BY <1>1 DEF CInv
<1>2. AtRest /\ faults = 0
      BY FaultCounts DEF Pass, NoFault
<1>3. Unhurt /\ ~TickAhead
      BY <1>2 DEF CInv, AtRest, TickAhead
<1>4. ASSUME NEW c \in Component
      PROVE  /\ beat'[c].status = beat[c].status
             /\ beat[c].status = "missing" => beat'[c].age = beat[c].age
             /\ beat[c].status # "missing" => beat'[c].age = Older(beat[c].age)
  <2>1. beat'[c] = IF beat[c].status = "missing" THEN beat[c]
                   ELSE [beat[c] EXCEPT !.age = Older(@)]
        BY DEF Pass
  <2>2. beat[c] \in Beat
        BY RowType
  <2> QED BY <2>1, <2>2 DEF Beat
<1>5. NoErrors'
  <2>1. ASSUME NEW c \in Component
        PROVE  beat'[c].status # "error" /\ beat'[c].age >= 0
    <3>1. /\ beat[c].status # "error" /\ beat[c].age >= 0
          /\ beat[c].age \in Int /\ beat[c].age <= Oldest
          BY <1>3, RowType DEF Unhurt, NoErrors
    <3>2. Older(beat[c].age) \in Int /\ Older(beat[c].age) >= 0
          BY <3>1, OlderBounds
    <3> QED BY <1>4, <3>1, <3>2
  <2>2. job' = job
        BY DEF Pass
  <2> QED BY <2>1, <2>2, <1>3 DEF NoErrors, Unhurt
<1>6. "live" \in Component /\ "scheduler" \in Component
      BY DEF Component
<1>7. /\ quiet' = Older(quiet) /\ quiet \in Int /\ quiet >= 0 /\ quiet <= Oldest
      /\ since \in Int /\ since >= 0 /\ since <= Oldest
      /\ since' = 0 \/ since' = Older(since)
      BY OldestType DEF Pass, TypeOK
<1>8. CASE beat["live"].status = "missing"
  <2>1. NothingYet
        BY <1>3, <1>8 DEF Unhurt
  <2>2. Older(quiet) > 0 /\ Older(since) \in Int
        BY <1>7, OlderBounds, OldestType
  <2>3. since' = 0 => NothingYet'
        BY <2>2, <1>7 DEF NothingYet
  <2>4. since' = Older(since) => NothingYet'
        BY <2>1, <1>7, OlderBounds, OldestType DEF NothingYet
  <2>5. NothingYet'
        BY <2>3, <2>4, <1>7
  <2>6. beat'["live"].status = "missing"
        BY <1>4, <1>6, <1>8
  <2> QED BY <2>5, <2>6, <1>5 DEF Unhurt
<1>9. CASE beat["live"].status # "missing"
  <2>1. /\ beat["live"].age <= quiet
        /\ beat["scheduler"].status # "missing"
        /\ beat["scheduler"].age <= beat["live"].age
        BY <1>3, <1>9 DEF Unhurt, Recent
  <2>2. /\ beat["live"].age \in Int /\ beat["live"].age <= Oldest
        /\ beat["scheduler"].age \in Int /\ beat["scheduler"].age <= Oldest
        BY <1>6, RowType
  <2>3. ASSUME NEW m \in Int, NEW n \in Int, m <= n, n <= Oldest
        PROVE  Older(m) <= Older(n)
        BY <2>3, OlderBounds, OldestType
  <2>4. /\ Older(beat["live"].age) <= Older(quiet)
        /\ Older(beat["scheduler"].age) <= Older(beat["live"].age)
        BY <2>1, <2>2, <2>3, <1>7
  <2>5. /\ beat'["live"].age = Older(beat["live"].age)
        /\ beat'["scheduler"].age = Older(beat["scheduler"].age)
        /\ beat'["live"].status # "missing"
        /\ beat'["scheduler"].status # "missing"
        BY <1>4, <1>6, <1>9, <2>1
  <2>6. Recent'
        BY <2>4, <2>5, <1>7 DEF Recent
  <2> QED BY <2>5, <2>6, <1>5 DEF Unhurt
<1> QED BY <1>8, <1>9

\* A step that is a failure leaves only the triggers to look at.
LEMMA FaultCInv == TypeOK /\ Fault /\ DueIsIdle' => CInv'
BY FaultCounts DEF CInv

\* A step that leaves the rows, the clocks and the jobs alone.
LEMMA QuietStep ==
    ASSUME CInv, DueIsIdle', UNCHANGED <<beat, quiet, since, job, faults>>
    PROVE  CInv'
BY DEF CInv, Unhurt, NoErrors, NothingYet, Recent, TickAhead

LEMMA ProcessCInv ==
    ASSUME TypeOK, CInv, NEW p \in Schedulers,
           Restart(p) \/ SpecsRejected(p) \/ Serve(p) \/ Die(p)
    PROVE  CInv'
<1>1. DueIsIdle /\ due \subseteq Jobs
      BY DEF CInv, TypeOK
<1>2. \A j \in Jobs : Owner[j] \in Schedulers
      BY HealthAssumption
<1>3. CASE Restart(p)
  <2>1. DueIsIdle'
        BY <1>1, <1>2, <1>3 DEF Restart, DueIsIdle, TypeOK
  <2> QED BY <1>3, <2>1, QuietStep DEF Restart, history
<1>4. CASE SpecsRejected(p)
  <2>1. DueIsIdle'
        BY <1>1, <1>4 DEF SpecsRejected, DueIsIdle
  <2> QED BY <1>4, <2>1, FaultCInv DEF SpecsRejected
<1>5. CASE Serve(p)
  <2>1. up[p] = "starting" /\ due' = due /\ job' = job
        /\ \A q \in Schedulers : q # p => up'[q] = up[q]
        BY <1>5 DEF Serve, TypeOK
  <2>2. DueIsIdle'
        BY <1>1, <1>2, <2>1 DEF DueIsIdle
  <2> QED BY <1>5, <2>2, QuietStep DEF Serve, history
<1>6. CASE Die(p)
  <2>1. /\ due' = {j \in due : Owner[j] # p} /\ Fault
        /\ \A q \in Schedulers : q # p => up'[q] = up[q]
        /\ \A j \in Jobs : Owner[j] # p => job'[j] = job[j]
        BY <1>6 DEF Die, TypeOK
  <2>2. DueIsIdle'
        BY <1>1, <1>2, <2>1 DEF DueIsIdle
  <2> QED BY <2>1, <2>2, FaultCInv
<1> QED BY <1>3, <1>4, <1>5, <1>6

\* A job that starts, or decides, has failed no more than before, and the
\* ticks ahead stay ahead.
LEMMA StartCInv ==
    ASSUME TypeOK, CInv, NEW j \in Jobs, job[j].pc # "tick",
           DueIsIdle', UNCHANGED <<beat, quiet, since, faults>>,
           NEW r, r.status # "error", job' = [job EXCEPT ![j] = r]
    PROVE  CInv'
<1>1. /\ job'[j] = r
      /\ \A i \in Jobs : i # j => job'[i] = job[i]
      BY DEF TypeOK
<1>2. TickAhead => TickAhead'
      BY <1>1 DEF TickAhead
<1>3. NoErrors => NoErrors'
      BY <1>1 DEF NoErrors
<1>4. Recent => Recent'
      BY <1>2 DEF Recent
<1> QED BY <1>3, <1>4 DEF CInv, Unhurt, NothingYet

LEMMA JobCInv ==
    ASSUME TypeOK, CInv, NEW j \in Jobs,
           Fire(j) \/ FireNow(j) \/ JobStep(j) \/ Fail(j)
    PROVE  CInv'
<1>1. DueIsIdle /\ due \subseteq Jobs /\ job[j] \in Job
      BY DEF CInv, TypeOK
<1>2. \A i \in Jobs : \A r : job' = [job EXCEPT ![j] = r] /\ i # j => job'[i] = job[i]
      BY DEF TypeOK
<1>3. ASSUME job[j].pc # "idle" \/ up[Owner[j]] # "serving" PROVE j \notin due
      BY <1>1, <1>3 DEF DueIsIdle
<1>4. ASSUME NEW r, job' = [job EXCEPT ![j] = r], due' = due, up' = up, j \notin due
      PROVE  DueIsIdle'
      BY <1>1, <1>2, <1>4 DEF DueIsIdle
<1>5. CASE Fire(j)
  <2>1. PICK pc \in {"run", "tick"} :
            job' = [job EXCEPT ![j] = [pc |-> pc, status |-> "ok"]]
        BY <1>5 DEF Fire, Begin
  <2>2. job[j].pc = "idle" /\ due' = due \ {j} /\ up' = up
        BY <1>1, <1>5 DEF Fire, DueIsIdle
  <2>3. DueIsIdle'
        BY <1>1, <1>2, <2>1, <2>2 DEF DueIsIdle
  <2> QED BY <1>5, <2>1, <2>2, <2>3, StartCInv DEF Fire, history
<1>6. CASE FireNow(j)
  <2>1. PICK pc \in {"run", "tick"} :
            job' = [job EXCEPT ![j] = [pc |-> pc, status |-> "ok"]]
        BY <1>6 DEF FireNow, Begin
  <2>2. job[j].pc = "idle" /\ up[Owner[j]] = "starting"
        BY <1>6 DEF FireNow, JobsOf
  <2>3. DueIsIdle'
        BY <1>3, <1>4, <1>6, <2>1, <2>2 DEF FireNow
  <2> QED BY <1>6, <2>1, <2>2, <2>3, StartCInv DEF FireNow, history
<1>7. CASE Decide(j)
  <2>1. PICK status \in {"ok", "warn"} :
            job' = [job EXCEPT ![j] = [pc |-> "beat", status |-> status]]
        BY <1>7 DEF Decide, Decision
  <2>2. job[j].pc = "run"
        BY <1>7 DEF Decide, Decision
  <2>3. DueIsIdle'
        BY <1>3, <1>4, <1>7, <2>1, <2>2 DEF Decide, Decision
  <2> QED BY <1>7, <2>1, <2>2, <2>3, StartCInv DEF Decide, Decision, history
<1>8. CASE Fail(j)
  <2>1. PICK r : job' = [job EXCEPT ![j] = r]
        BY <1>8 DEF Fail
  <2>2. DueIsIdle'
        BY <1>3, <1>4, <1>8, <2>1 DEF Fail
  <2> QED BY <1>8, <2>2, FaultCInv DEF Fail
<1>9. CASE RecordRunHeartbeat(j)
  <2>1. /\ job[j].pc = "beat" /\ job' = [job EXCEPT ![j].pc = "tick"]
        /\ Stamp("live", job[j].status) /\ due' = due /\ up' = up
        /\ quiet' = IF job[j].status = "error" THEN quiet ELSE 0
        BY <1>9 DEF RecordRunHeartbeat, RunEnds
  <2>2. job'[j].pc = "tick" /\ job'[j].status = job[j].status
        /\ \A i \in Jobs : i # j => job'[i] = job[i]
        BY <1>1, <2>1 DEF TypeOK, Job
  <2>3. DueIsIdle'
        BY <1>1, <1>3, <2>1, <2>2 DEF DueIsIdle
  <2>4. CASE Fault
        BY <2>3, <2>4, FaultCInv
  <2>5. CASE ~Fault /\ faults' = 0
    <3>1. /\ beat' = [beat EXCEPT !["live"] = [status |-> job[j].status, age |-> 0]]
          /\ faults = 0
          BY <2>1, <2>5 DEF Stamp, NoFault
    <3>2. NoErrors /\ job[j].status # "error"
          BY <3>1 DEF CInv, Unhurt, NoErrors
    <3>3. /\ beat'["live"].status = job[j].status /\ beat'["live"].age = 0
          /\ \A c \in Component : c # "live" => beat'[c] = beat[c]
          BY <3>1 DEF TypeOK, Component
    <3>4. NoErrors'
          BY <2>2, <3>2, <3>3 DEF NoErrors
    <3>5. TickAhead' /\ quiet' = 0
          BY <2>1, <2>2, <3>2 DEF TickAhead
    <3>6. Recent'
          BY <3>3, <3>5 DEF Recent
    <3>7. beat'["live"].status # "missing"
          BY <1>1, <3>3 DEF Job
    <3> QED BY <2>3, <3>4, <3>6, <3>7 DEF CInv, Unhurt
  <2>6. CASE faults' # 0
        BY <2>3, <2>6 DEF CInv
  <2> QED BY <2>4, <2>5, <2>6
<1>10. CASE TickHeartbeat(j)
  <2> DEFINE status == IF job[j].status = "error" THEN "error" ELSE "ok"
  <2>1. /\ job[j].pc = "tick" /\ job' = [job EXCEPT ![j] = Idle]
        /\ Stamp("scheduler", status) /\ due' = due /\ up' = up
        /\ quiet' = quiet /\ since' = since
        BY <1>10 DEF TickHeartbeat, history
  <2>2. DueIsIdle'
        BY <1>3, <1>4, <2>1
  <2>3. job'[j].status = "ok" /\ \A i \in Jobs : i # j => job'[i] = job[i]
        BY <2>1 DEF TypeOK, Idle
  <2> HIDE DEF status
  <2>4. CASE Fault
        BY <2>2, <2>4, FaultCInv
  <2>5. CASE ~Fault /\ faults' = 0
    <3>1. /\ beat' = [beat EXCEPT !["scheduler"] = [status |-> status, age |-> 0]]
          /\ faults = 0
          BY <2>1, <2>5 DEF Stamp, NoFault
    <3>2. Unhurt /\ NoErrors /\ status = "ok"
          BY <3>1 DEF CInv, Unhurt, NoErrors, status
    <3>3. /\ beat'["scheduler"].status = "ok" /\ beat'["scheduler"].age = 0
          /\ \A c \in Component : c # "scheduler" => beat'[c] = beat[c]
          BY <3>1, <3>2 DEF TypeOK, Component
    <3>4. beat'["live"] = beat["live"] /\ beat["live"].age >= 0
          BY <3>2, <3>3 DEF Component, NoErrors
    <3>5. NoErrors'
          BY <2>3, <3>2, <3>3 DEF NoErrors
    <3>6. NothingYet => NothingYet'
          BY <2>1 DEF NothingYet
    <3>7. Recent => Recent'
          BY <2>1, <3>3, <3>4 DEF Recent
    <3> QED BY <2>2, <3>2, <3>4, <3>5, <3>6, <3>7 DEF CInv, Unhurt
  <2>6. CASE faults' # 0
        BY <2>2, <2>6 DEF CInv
  <2> QED BY <2>4, <2>5, <2>6
<1> QED BY <1>5, <1>6, <1>7, <1>8, <1>9, <1>10 DEF JobStep

LEMMA NextCInv == TypeOK /\ CInv /\ [Next]_vars => CInv'
<1> SUFFICES ASSUME TypeOK, CInv, [Next]_vars PROVE CInv'
    OBVIOUS
<1>1. CASE UNCHANGED vars
  <2>1. DueIsIdle'
        BY <1>1 DEF CInv, DueIsIdle, vars
  <2> QED BY <1>1, <2>1, QuietStep DEF vars, history
<1>2. CASE ClockCorrected
  <2>1. DueIsIdle'
        BY <1>2 DEF CInv, DueIsIdle, ClockCorrected
  <2> QED BY <1>2, <2>1, FaultCInv DEF ClockCorrected
<1>3. CASE Next /\ ~ClockCorrected
      BY <1>3, PassCInv, ProcessCInv, JobCInv DEF Next
<1> QED BY <1>1, <1>2, <1>3

-----------------------------------------------------------------------------
\* health_check and quant status raise no alarm without cause, whatever
\* components they are told to expect: between sessions closer than the
\* tolerated silence, with no failure so far and the jobs done, a decision as
\* recent as the last session has left both rows, and neither is an error,
\* stale or from the future.
THEOREM AlarmsHaveCauses == Spec => []AlarmHasCause
<1>1. TypeOK /\ CInv => AlarmHasCause
  <2> SUFFICES ASSUME TypeOK, CInv, AtRest, faults = 0, since <= MaxSilence,
                      quiet <= since
               PROVE  HealthOK
      BY DEF AlarmHasCause, HealthExit, StatusExit, StatusOK, Sections
  <2>1. NoErrors /\ ~TickAhead
        BY DEF CInv, Unhurt, AtRest, TickAhead
  <2>2. quiet \in Int /\ since \in Int
        BY OldestType DEF TypeOK
  <2>3. ~NothingYet
        BY <2>2, OldestType, HealthAssumption DEF NothingYet
  <2>4. beat["live"].status # "missing" /\ Recent
        BY <2>3 DEF CInv, Unhurt
  <2>5. /\ beat["live"].age <= quiet
        /\ beat["scheduler"].status # "missing"
        /\ beat["scheduler"].age <= beat["live"].age
        BY <2>1, <2>4 DEF Recent
  <2>6. ASSUME NEW c \in Component
        PROVE  /\ beat[c].age \in Int /\ beat[c].age >= 0
               /\ beat[c].status # "error"
        BY <2>1, RowType DEF NoErrors
  <2>7. "live" \in Component /\ "scheduler" \in Component
        BY DEF Component
  <2>8. /\ beat["live"].age \in Int /\ beat["scheduler"].age \in Int
        BY <2>6, <2>7
  <2>9. /\ beat["live"].age <= MaxSilence
        /\ beat["scheduler"].age <= MaxSilence
        BY <2>2, <2>5, <2>8, HealthAssumption
  <2>10. ASSUME NEW c \in Component PROVE ~Problem(c)
    <3>1. c = "live" \/ c = "scheduler"
          BY DEF Component
    <3>2. beat[c].status # "missing" /\ beat[c].age <= MaxSilence
          BY <2>4, <2>5, <2>9, <3>1
    <3> QED BY <2>6, <3>2, HealthAssumption DEF Problem, Stale
  <2> QED BY <2>10 DEF HealthOK
<1>2. Init => CInv
      BY InitCInv
<1>3. TypeOK /\ CInv /\ [Next]_vars => CInv'
      BY NextCInv
<1> QED BY <1>1, <1>2, <1>3, TypeCorrectness, PTL DEF Spec

=============================================================================
