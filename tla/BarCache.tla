------------------------------ MODULE BarCache ------------------------------
(***************************************************************************)
(* The bar cache of one series: data/loaders.py load_bars, the feeds'      *)
(* bounded retry, the rewrite check of data/integrity.py and the save of   *)
(* the two stores, a parquet file and a TimescaleDB table; and the two     *)
(* commands that work on the same series, cli.py download and integrity.   *)
(*                                                                         *)
(* Loads are made one after the other, by the live runs and the commands   *)
(* of one process or one operator; any step may fail and the process may   *)
(* die at any point.  Days stand for bars.                                 *)
(***************************************************************************)
EXTENDS Integers

CONSTANTS
    Opening, Days,  \* bound: the first and the last day watched
    MaxEra,       \* bound: adjustments (splits) + 1
    Requests,     \* records: start, stale (Days: no limit), how
    Tolerance,    \* _CACHE_START_TOLERANCE_DAYS
    Attempts,     \* with_retries attempts
    MaxFaults,    \* bound: failures of any kind
    Torn          \* contents of a file that is being written

VARIABLES
    now, closed,  \* today, and is its session over?
    era,          \* adjustments so far: each rewrites all of history
    backend,      \* which store is configured
    path,         \* the stored series: the file, or the rows of the table
    tmp, bak,     \* the file's siblings
    load,         \* control point and locals of the load that is running
    served,       \* served[r]: what the latest load of caller r returned
    faults        \* failures so far

clock == <<now, closed, era>>
files == <<path, tmp, bak>>
vars  == <<clock, backend, files, load, served, faults>>

Reg == INSTANCE BarRegister WITH held <- path, keeps <- (backend = "timescale")

Day    == Reg!Day
Series == Reg!Series
Empty  == Reg!Empty       \* also: the file does not exist

\* load_bars with and without use_cache, quant download, quant integrity --check.
Ways == {"cached", "forced", "download", "check"}

ASSUME CacheAssumption ==
    /\ Days \in Nat \ {0} /\ Opening \in Day /\ MaxEra \in Nat \ {0} /\ Tolerance \in Nat
    /\ Attempts \in Nat \ {0} /\ MaxFaults \in Nat
    /\ Requests \subseteq [start : 1..Opening, stale : Nat, how : Ways]
    /\ Torn \notin Series

-----------------------------------------------------------------------------
Contents == Series \cup {Torn}

Reads(r) == r.how \in {"cached", "check"}

\* Those who come back, as schedules and daily research do; the other requests
\* are single commands.
Callers == {r \in Requests : r.how = "cached"}

Nobody == [start |-> 1, stale |-> 0, how |-> "forced"]

Idle == [pc |-> "idle", req |-> Nobody, prior |-> Empty, got |-> Empty,
         tries |-> 0, recorded |-> FALSE]

\* recorded: has this load appended an integrity event?
Load == [pc : {"idle", "fetch", "compare", "record", "save", "written",
               "backup", "copied"},
         req : Requests \cup {Nobody}, prior : Series, got : Series,
         tries : 0..Attempts, recorded : BOOLEAN]

\* The variables hold values of their types.
TypeOK ==
    /\ now \in Day /\ closed \in BOOLEAN /\ era \in 1..MaxEra
    /\ backend \in {"parquet", "timescale"}
    /\ path \in Contents /\ tmp \in Contents /\ bak \in Contents
    /\ load \in Load
    /\ served \in [Callers -> Series]
    /\ faults \in 0..MaxFaults

Init ==
    /\ now = Opening /\ closed = FALSE /\ era = 1
    /\ backend \in {"parquet", "timescale"}
    /\ path = Empty /\ tmp = Empty /\ bak = Empty
    /\ load = Idle
    /\ served = [r \in Callers |-> Empty]
    /\ faults = 0

Fault   == faults < MaxFaults /\ faults' = faults + 1
NoFault == UNCHANGED faults

-----------------------------------------------------------------------------
(* The market.                                                             *)

SessionEnds ==
    /\ ~closed /\ closed' = TRUE
    /\ UNCHANGED <<now, era, backend, files, load, served, faults>>

NextSession ==
    /\ closed /\ now < Days
    /\ now' = now + 1 /\ closed' = FALSE
    /\ UNCHANGED <<era, backend, files, load, served, faults>>

\* A split or dividend: the feed now answers with adjusted prices.
Adjust ==
    /\ era < MaxEra /\ era' = era + 1
    /\ UNCHANGED <<now, closed, backend, files, load, served, faults>>

-----------------------------------------------------------------------------
(* load_bars.                                                              *)

Held(s)  == {d \in Day : s[d] # 0}
First(s) == CHOOSE d \in Held(s) : \A e \in Held(s) : d <= e
Last(s)  == CHOOSE d \in Held(s) : \A e \in Held(s) : e <= d

SliceFrom(s, start) == [d \in Day |-> IF d < start THEN 0 ELSE s[d]]

\* Fault: any cache of the symbol will do.
CoversAny(s, start) == TRUE

Covers(s, start) == First(s) - start <= Tolerance

Fresh(s, stale) == now - Last(s) <= stale

Goto(pc) == load' = [load EXCEPT !.pc = pc]

\* The load is over: by a return, an exception or the end of its process.
Ends(outcome) ==
    /\ served' = IF outcome = Empty \/ load.req \notin Callers THEN served
                 ELSE [served EXCEPT ![load.req] = SliceFrom(outcome, load.req.start)]
    /\ load' = Idle

Serve(r) ==
    /\ load.pc = "idle" /\ r \in Callers /\ path # Torn /\ path # Empty
    /\ Covers(path, r.start) /\ Fresh(path, r.stale)
    /\ served' = [served EXCEPT ![r] = SliceFrom(path, r.start)]
    /\ UNCHANGED <<clock, backend, files, load, faults>>

\* A torn file raises when it is read, every time; without a file there is
\* nothing to check.
Miss(r) ==
    /\ load.pc = "idle"
    /\ Reads(r) => path # Torn
    /\ r.how = "check" => path # Empty
    /\ (r.how = "cached" /\ path # Empty) => ~(Covers(path, r.start) /\ Fresh(path, r.stale))
    /\ load' = [Idle EXCEPT !.pc = "fetch", !.req = r, !.tries = 1,
                            !.prior = IF Reads(r) THEN path ELSE Empty]
    /\ UNCHANGED <<clock, backend, files, served, faults>>

\* A download is saved as it is.
Received(r) == IF r.how = "download" THEN "save" ELSE "compare"

\* The feed answers from the requested start on, or, when it misbehaves, with
\* less than that; with nothing at all it raises.
Answer ==
    /\ load.pc = "fetch"
    /\ \E first, last \in Day :
          /\ load.req.start <= first /\ first <= last /\ last <= now
          /\ IF first = load.req.start /\ last = now THEN NoFault ELSE Fault
          /\ load' = [load EXCEPT !.pc = Received(load.req), !.tries = 0,
                        !.got = Reg!AnswerOf(first, last, era, last = now /\ ~closed)]
    /\ UNCHANGED <<clock, backend, files, served>>

RetryUpTo(attempts) ==
    /\ load.pc = "fetch" /\ load.tries < attempts
    /\ load' = [load EXCEPT !.tries = @ + 1]
    /\ UNCHANGED <<clock, backend, files, served, faults>>

\* Fault: one attempt too many.
RetryOnceMore == RetryUpTo(Attempts + 1)

\* A transient error is retried; a fatal one, or one too many, is raised.
Retry == RetryUpTo(Attempts)

\* Fault: the newest bar that both have is taken for the provisional one.
MutatedOverlap(old, new) ==
    \E d \in Held(old) \cap Held(new) :
        /\ old[d] # new[d]
        /\ \E e \in Held(old) \cap Held(new) : d < e

\* The newest cached bar may still have been forming, unless it is the only one.
Settled(s) == IF \E d, e \in Held(s) : d # e THEN Held(s) \ {Last(s)} ELSE Held(s)

Mutated(old, new) == \E d \in Settled(old) \cap Held(new) : old[d] # new[d]

\* What follows the comparison; a check never saves.
Compared(recorded) ==
    load' = IF load.req.how = "check" THEN Idle
            ELSE [load EXCEPT !.pc = "save", !.recorded = recorded]

Compare ==
    /\ load.pc = "compare"
    /\ IF Mutated(load.prior, load.got) THEN Goto("record") ELSE Compared(FALSE)
    /\ UNCHANGED <<clock, backend, files, served, faults>>

RecordMutationEvent ==
    /\ load.pc = "record" /\ Compared(TRUE)
    /\ UNCHANGED <<clock, backend, files, served, faults>>

-----------------------------------------------------------------------------
(* The save.                                                               *)

Upsert ==
    /\ load.pc = "save" /\ backend = "timescale"
    /\ path' = Reg!Over(load.got, path)
    /\ Ends(load.got)
    /\ UNCHANGED <<clock, backend, tmp, bak, faults>>

\* Fault: the file is written in place.
WriteInPlace ==
    /\ load.pc = "save" /\ backend = "parquet"
    /\ path' = Torn /\ Goto("written")
    /\ UNCHANGED <<clock, backend, tmp, bak, served, faults>>

\* Opening the temporary file truncates what an earlier crash left in it.
Write ==
    /\ load.pc = "save" /\ backend = "parquet"
    /\ tmp' = Torn /\ Goto("written")
    /\ UNCHANGED <<clock, backend, path, bak, served, faults>>

Written ==
    /\ load.pc = "written"
    /\ tmp' = load.got /\ Goto("backup")
    /\ UNCHANGED <<clock, backend, path, bak, served, faults>>

\* Fault: a backup that exists is left alone.
BackupOnce ==
    /\ load.pc = "backup"
    /\ bak' = IF bak = Empty THEN path ELSE bak
    /\ Goto("copied")
    /\ UNCHANGED <<clock, backend, path, tmp, served, faults>>

Backup ==
    /\ load.pc = "backup"
    /\ bak' = IF path = Empty THEN bak ELSE path
    /\ Goto("copied")
    /\ UNCHANGED <<clock, backend, path, tmp, served, faults>>

Replace ==
    /\ load.pc = "copied"
    /\ path' = tmp /\ tmp' = Empty
    /\ Ends(load.got)
    /\ UNCHANGED <<clock, backend, bak, faults>>

Saving == load.pc \in {"written", "backup", "copied"}

\* A statement raises; save then removes its temporary file.  A copy that
\* fails half way leaves a torn backup.
Raise ==
    /\ load.pc # "idle" /\ Fault
    /\ tmp' = IF Saving THEN Empty ELSE tmp
    /\ bak' \in {bak} \cup IF load.pc = "backup" /\ path # Empty THEN {Torn} ELSE {}
    /\ Ends(Empty)
    /\ UNCHANGED <<clock, backend, path>>

\* The process dies.
Crash ==
    /\ load.pc # "idle" /\ Fault
    /\ bak' \in {bak} \cup IF load.pc = "backup" /\ path # Empty THEN {Torn} ELSE {}
    /\ Ends(Empty)
    /\ UNCHANGED <<clock, backend, path, tmp>>

-----------------------------------------------------------------------------
Market == SessionEnds \/ NextSession \/ Adjust

Ask(r) == Serve(r) \/ Miss(r)

LoadStep == \/ Answer \/ Compare \/ RecordMutationEvent
            \/ Upsert \/ Write \/ Written \/ Backup \/ Replace

Next == \/ Market \/ LoadStep \/ Retry \/ Raise \/ Crash
        \/ \E r \in Requests : Ask(r)

Spec == Init /\ [][Next]_vars

\* Time passes, and a load that is running goes on.
Fairness == WF_vars(SessionEnds) /\ WF_vars(NextSession) /\ WF_vars(LoadStep)
            /\ \A r \in Callers : SF_vars(Ask(r))

FairSpec == Spec /\ Fairness

-----------------------------------------------------------------------------
(* Properties.                                                             *)

\* A reader of the file never meets half an answer, a hole or a mixture of two
\* adjustments, whichever statement of a save fails or is the process's last
\* ("a crash mid-write can never leave a half-written parquet in place"); the
\* table changes by whole answers too, but keeps old rows beside them.
ImplementsRegister == Reg!Spec

\* "The past just changed - never silently": when a save gives a settled bar
\* another price, this load has left an event before.  The exceptions are the
\* loads that did not look at the cache (--no-cache, download).  A check is
\* "non-destructive": the series stays what it was.
RewriteIsRecorded ==
    [][ /\ path # Torn /\ path' # Torn /\ load.req.how = "cached"
           /\ (\E d \in Settled(path) \cap Held(path') : path[d] # path'[d])
           => load.recorded
        /\ load.req.how = "check" => path' = path ]_vars

\* Replacing the file destroys nothing: what it held is in the backup then,
\* also after saves that failed half way ("a bad re-download doesn't permanently
\* destroy good history").  It holds for one bad re-download, not for two.
BackupIsPrevious ==
    [][ backend = "parquet" /\ path' # path /\ path # Empty => bak = path ]_vars

\* Whatever fails, each caller is served in the end, and for good, with a
\* series that reaches back to its start and is as recent as it asked for,
\* although loads with a later start and bad answers cut the shared file.  Not
\* so with the table: it covers a start by its oldest row, so that a bar that
\* one bad answer left out is missing from then on.
EveryCallerIsServed ==
    backend = "parquet" =>
    \A r \in Callers :
        <>[](LET s == served[r]
             IN  s # Empty /\ First(s) - r.start <= Tolerance /\ now - Last(s) <= r.stale)

=============================================================================
