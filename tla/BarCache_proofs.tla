--------------------------- MODULE BarCache_proofs ---------------------------
(***************************************************************************)
(* For any number of days, adjustments, requests and failures: the cache   *)
(* implements a register of whole answers, its backup is the previous      *)
(* file, and a save that rewrites the past is preceded by its event.       *)
(*                                                                         *)
(* The save is correct because of what each of its statements finds: once  *)
(* written the temporary file is the answer, and when it replaces the file *)
(* the file has been copied.                                               *)
(***************************************************************************)
EXTENDS BarCache, TLAPS

IsAnswer(s) ==
    \E first, last \in Day, e \in 1..MaxEra, forming \in BOOLEAN :
        first <= last /\ s = Reg!AnswerOf(first, last, e, forming)

Answered == load.pc \in {"compare", "record", "save", "written", "backup", "copied"}

\* What the statements of a load and of its save find.
LoadInv ==
    /\ path \in Series
    /\ Answered => IsAnswer(load.got)
    /\ Saving => backend = "parquet"
    /\ load.pc \in {"backup", "copied"} => tmp = load.got
    /\ load.pc = "copied" => bak = path \/ path = Empty

IInv == TypeOK /\ LoadInv

-----------------------------------------------------------------------------
LEMMA Bounds ==
    /\ Days \in Nat \ {0} /\ Opening \in 1..Days /\ MaxEra \in Nat \ {0}
    /\ 0 \in 0..Attempts /\ 1 \in 0..Attempts /\ MaxFaults \in Nat
    /\ Day = 1..Days
BY CacheAssumption DEF Day, Reg!Day

LEMMA EmptyType == Empty \in Series
BY CacheAssumption DEF Empty, Series, Reg!Empty, Reg!Series, Reg!Price, Reg!Day

LEMMA AnswerType ==
    ASSUME NEW first \in Day, NEW last \in Day, NEW e \in 1..MaxEra, NEW forming \in BOOLEAN
    PROVE  Reg!AnswerOf(first, last, e, forming) \in Series
<1>1. Reg!Final(e) \in Reg!Price /\ Reg!Forming(e) \in Reg!Price /\ 0 \in Reg!Price
      BY CacheAssumption DEF Reg!Final, Reg!Forming, Reg!Price
<1> QED BY <1>1 DEF Reg!AnswerOf, Series, Reg!Series, Day

LEMMA OverType ==
    ASSUME NEW s \in Series, NEW t \in Series
    PROVE  Reg!Over(s, t) \in Series
BY DEF Series, Reg!Series, Reg!Over

LEMMA SliceType ==
    ASSUME NEW s \in Series, NEW start
    PROVE  SliceFrom(s, start) \in Series
<1>1. 0 \in Reg!Price
      BY CacheAssumption DEF Reg!Price
<1> QED BY <1>1 DEF SliceFrom, Series, Reg!Series, Day

\* The end of a load, with or without a result.
LEMMA EndsType ==
    ASSUME TypeOK, NEW s \in Series, Ends(s)
    PROVE  load' = Idle /\ load' \in Load /\ served' \in [Callers -> Series]
<1>1. Idle \in Load
      BY EmptyType, CacheAssumption DEF Idle, Load, Nobody, Ways
<1>2. SliceFrom(s, load.req.start) \in Series
      BY SliceType
<1>3. served' = served \/ served' = [served EXCEPT ![load.req] = SliceFrom(s, load.req.start)]
      BY DEF Ends
<1> QED BY <1>1, <1>2, <1>3 DEF Ends, TypeOK

\* A load that is over owes nothing.
LEMMA IdleLoadInv ==
    ASSUME load' = Idle, path' \in Series
    PROVE  LoadInv'
BY DEF LoadInv, Answered, Saving, Idle

LEMMA InitIInv == Init => IInv
<1> SUFFICES ASSUME Init PROVE IInv
    OBVIOUS
<1>1. Idle \in Load
      BY EmptyType, CacheAssumption DEF Idle, Load, Nobody, Ways
<1>2. TypeOK
  <2>1. now \in Day /\ era \in 1..MaxEra /\ faults \in 0..MaxFaults
        BY Bounds DEF Init
  <2>5. closed \in BOOLEAN
        BY DEF Init
  <2>2. path \in Contents /\ tmp \in Contents /\ bak \in Contents
        BY EmptyType DEF Init, Contents
  <2>3. load \in Load /\ served \in [Callers -> Series]
        BY <1>1, EmptyType DEF Init
  <2>4. backend \in {"parquet", "timescale"}
        BY DEF Init
  <2> QED BY <2>1, <2>2, <2>3, <2>4, <2>5 DEF TypeOK
<1>3. LoadInv
      BY EmptyType DEF Init, LoadInv, Answered, Saving, Idle
<1> QED BY <1>2, <1>3 DEF IInv

-----------------------------------------------------------------------------
LEMMA MarketIInv == IInv /\ Market => IInv'
<1> SUFFICES ASSUME IInv, Market PROVE IInv'
    OBVIOUS
<1>1. TypeOK'
  <2>1. now \in 1..Days /\ closed \in BOOLEAN /\ era \in 1..MaxEra
        BY Bounds DEF IInv, TypeOK
  <2>2. now' \in 1..Days /\ closed' \in BOOLEAN /\ era' \in 1..MaxEra
    <3>1. CASE SessionEnds
          BY <2>1, <3>1 DEF SessionEnds
    <3>2. CASE NextSession
      <4>1. now' \in 1..Days /\ era' = era
            BY <2>1, <3>2, Bounds DEF NextSession
      <4>2. closed' \in BOOLEAN
            BY <3>2 DEF NextSession
      <4> QED BY <2>1, <4>1, <4>2
    <3>3. CASE Adjust
          BY <2>1, <3>3, Bounds DEF Adjust
    <3> QED BY <3>1, <3>2, <3>3 DEF Market
  <2>3. UNCHANGED <<backend, path, tmp, bak, load, served, faults>>
        BY DEF Market, SessionEnds, NextSession, Adjust, files
  <2> QED BY <2>2, <2>3, Bounds DEF IInv, TypeOK
<1>2. LoadInv'
      BY DEF IInv, LoadInv, Answered, Saving, Market, SessionEnds, NextSession, Adjust, files
<1> QED BY <1>1, <1>2 DEF IInv

LEMMA AskIInv ==
    ASSUME IInv, NEW r \in Requests, Ask(r)
    PROVE  IInv'
<1>1. CASE Serve(r)
  <2>1. path \in Series /\ SliceFrom(path, r.start) \in Series
        BY SliceType DEF IInv, LoadInv
  <2>2. served' \in [Callers -> Series]
        BY <1>1, <2>1 DEF Serve, IInv, TypeOK
  <2>3. TypeOK'
        BY <1>1, <2>2 DEF Serve, IInv, TypeOK, clock, files
  <2>4. LoadInv'
        BY <1>1 DEF Serve, IInv, LoadInv, Answered, Saving, files
  <2> QED BY <2>3, <2>4 DEF IInv
<1>2. CASE Miss(r)
  <2>1. load' = [Idle EXCEPT !.pc = "fetch", !.req = r, !.tries = 1,
                             !.prior = IF Reads(r) THEN path ELSE Empty]
        BY <1>2 DEF Miss
  <2>2. path \in Series
        BY DEF IInv, LoadInv
  <2>3. load' = [pc |-> "fetch", req |-> r, prior |-> IF Reads(r) THEN path ELSE Empty,
                 got |-> Empty, tries |-> 1, recorded |-> FALSE]
        BY <2>1 DEF Idle
  <2>4. load' \in Load /\ load'.pc = "fetch"
        BY <2>2, <2>3, EmptyType, Bounds DEF Load
  <2>5. TypeOK'
        BY <1>2, <2>4 DEF Miss, IInv, TypeOK, clock, files
  <2>6. LoadInv'
        BY <1>2, <2>2, <2>4 DEF Miss, LoadInv, Answered, Saving, files
  <2> QED BY <2>5, <2>6 DEF IInv
<1> QED BY <1>1, <1>2 DEF Ask

LEMMA AnswerIInv == IInv /\ Answer => IInv'
<1> SUFFICES ASSUME IInv, Answer PROVE IInv'
    OBVIOUS
<1>1. PICK first \in Day, last \in Day :
          /\ first <= last
          /\ NoFault \/ Fault
          /\ load' = [load EXCEPT !.pc = Received(load.req), !.tries = 0,
                        !.got = Reg!AnswerOf(first, last, era, last = now /\ ~closed)]
      BY DEF Answer
<1>2. era \in 1..MaxEra /\ load \in Load /\ TypeOK
      BY DEF IInv, TypeOK
<1> DEFINE got == Reg!AnswerOf(first, last, era, last = now /\ ~closed)
<1>3. (last = now /\ ~closed) \in BOOLEAN
      OBVIOUS
<1>4. got \in Series /\ IsAnswer(got)
      BY <1>1, <1>2, <1>3, AnswerType DEF IsAnswer
<1> HIDE DEF got
<1>5. load' = [load EXCEPT !.pc = Received(load.req), !.tries = 0, !.got = got]
      BY <1>1 DEF got
<1>6. load' \in Load /\ load'.pc \in {"save", "compare"} /\ load'.got = got
      BY <1>2, <1>4, <1>5, Bounds DEF Load, Received
<1>7. faults' \in 0..MaxFaults
      BY <1>1, <1>2, CacheAssumption DEF NoFault, Fault, TypeOK
<1>8. TypeOK'
      BY <1>2, <1>6, <1>7 DEF Answer, TypeOK, clock, files
<1>9. LoadInv'
      BY <1>4, <1>6 DEF Answer, IInv, LoadInv, Answered, Saving, files
<1> QED BY <1>8, <1>9 DEF IInv

\* What follows the comparison: the save, or nothing after a check.
LEMMA ComparedType ==
    ASSUME TypeOK, NEW recorded \in BOOLEAN, Compared(recorded)
    PROVE  load' \in Load /\ (load' = Idle \/ (load'.pc = "save" /\ load'.got = load.got))
<1>1. Idle \in Load /\ load \in Load
      BY EmptyType, CacheAssumption DEF Idle, Load, Nobody, Ways, TypeOK
<1>2. CASE load' = Idle
      BY <1>1, <1>2
<1>3. CASE load' = [load EXCEPT !.pc = "save", !.recorded = recorded]
      BY <1>1, <1>3 DEF Load
<1> QED BY <1>2, <1>3 DEF Compared

LEMMA CheckIInv == IInv /\ (Retry \/ Compare \/ RecordMutationEvent) => IInv'
<1> SUFFICES ASSUME IInv, Retry \/ Compare \/ RecordMutationEvent PROVE IInv'
    OBVIOUS
<1>1. TypeOK /\ load \in Load
      BY DEF IInv, TypeOK
<1>2. CASE Retry
  <2>1. load' \in Load /\ load'.pc = "fetch"
        BY <1>1, <1>2, CacheAssumption DEF Retry, RetryUpTo, Load
  <2> QED BY <1>1, <1>2, <2>1
             DEF Retry, RetryUpTo, IInv, TypeOK, LoadInv, Answered, Saving, clock, files
<1>3. CASE Compare
  <2>1. /\ load' \in Load
        /\ load' = Idle \/ (load'.pc \in {"record", "save"} /\ load'.got = load.got)
    <3>1. CASE Compared(FALSE)
          BY <1>1, <3>1, ComparedType
    <3>2. CASE Goto("record")
          BY <1>1, <3>2 DEF Goto, Load
    <3> QED BY <1>3, <3>1, <3>2 DEF Compare
  <2>2. Answered
        BY <1>3 DEF Compare, Answered
  <2> QED BY <1>1, <1>3, <2>1, <2>2
             DEF Compare, IInv, TypeOK, LoadInv, Answered, Saving, Idle, clock, files
<1>4. CASE RecordMutationEvent
  <2>1. load' \in Load /\ (load' = Idle \/ (load'.pc = "save" /\ load'.got = load.got))
        BY <1>1, <1>4, ComparedType DEF RecordMutationEvent
  <2>2. Answered
        BY <1>4 DEF RecordMutationEvent, Answered
  <2> QED BY <1>1, <1>4, <2>1, <2>2
             DEF RecordMutationEvent, IInv, TypeOK, LoadInv, Answered, Saving, Idle, clock, files
<1> QED BY <1>2, <1>3, <1>4

LEMMA FileIInv == IInv /\ (Write \/ Written \/ Backup) => IInv'
<1> SUFFICES ASSUME IInv, Write \/ Written \/ Backup PROVE IInv'
    OBVIOUS
<1>1. TypeOK /\ load \in Load /\ load.got \in Series /\ path \in Contents
      BY DEF IInv, TypeOK, Load
<1>2. CASE Write
  <2>1. load' \in Load /\ load'.pc = "written" /\ load'.got = load.got /\ Answered
        BY <1>1, <1>2 DEF Write, Goto, Load, Answered
  <2> QED BY <1>1, <1>2, <2>1
             DEF Write, IInv, TypeOK, LoadInv, Answered, Saving, clock, Contents
<1>3. CASE Written
  <2>1. load' \in Load /\ load'.pc = "backup" /\ load'.got = load.got /\ Answered /\ Saving
        BY <1>1, <1>3 DEF Written, Goto, Load, Answered, Saving
  <2> QED BY <1>1, <1>3, <2>1
             DEF Written, IInv, TypeOK, LoadInv, Answered, Saving, clock, Contents
<1>4. CASE Backup
  <2>1. load' \in Load /\ load'.pc = "copied" /\ load'.got = load.got /\ Answered /\ Saving
        BY <1>1, <1>4 DEF Backup, Goto, Load, Answered, Saving
  <2> QED BY <1>1, <1>4, <2>1
             DEF Backup, IInv, TypeOK, LoadInv, Answered, Saving, clock
<1> QED BY <1>2, <1>3, <1>4

LEMMA PutIInv == IInv /\ (Upsert \/ Replace) => IInv'
<1> SUFFICES ASSUME IInv, Upsert \/ Replace PROVE IInv'
    OBVIOUS
<1>1. TypeOK /\ load \in Load /\ load.got \in Series /\ path \in Series
      BY DEF IInv, TypeOK, LoadInv, Load
<1>2. Ends(load.got)
      BY DEF Upsert, Replace
<1>3. load' = Idle /\ load' \in Load /\ served' \in [Callers -> Series]
      BY <1>1, <1>2, EndsType
<1>4. path' \in Series
  <2>1. CASE Upsert
        BY <1>1, <2>1, OverType DEF Upsert
  <2>2. CASE Replace
        BY <1>1, <2>2 DEF Replace, IInv, LoadInv
  <2> QED BY <2>1, <2>2
<1>5. tmp' \in Contents /\ bak' \in Contents
      BY <1>1, EmptyType DEF Upsert, Replace, TypeOK, Contents
<1>6. TypeOK'
      BY <1>1, <1>3, <1>4, <1>5 DEF Upsert, Replace, TypeOK, clock, Contents
<1> QED BY <1>3, <1>4, <1>6, IdleLoadInv DEF IInv

LEMMA FailureIInv == IInv /\ (Raise \/ Crash) => IInv'
<1> SUFFICES ASSUME IInv, Raise \/ Crash PROVE IInv'
    OBVIOUS
<1>1. TypeOK /\ path \in Series
      BY DEF IInv, LoadInv
<1>2. Ends(Empty) /\ Fault /\ UNCHANGED <<clock, backend, path>>
      BY DEF Raise, Crash
<1>3. load' = Idle /\ load' \in Load /\ served' \in [Callers -> Series]
      BY <1>1, <1>2, EmptyType, EndsType
<1>4. tmp' \in Contents /\ bak' \in Contents
      BY <1>1, EmptyType DEF Raise, Crash, TypeOK, Contents
<1>5. faults' \in 0..MaxFaults
      BY <1>1, <1>2, CacheAssumption DEF Fault, TypeOK
<1>6. TypeOK'
      BY <1>1, <1>2, <1>3, <1>4, <1>5 DEF TypeOK, clock
<1> QED BY <1>1, <1>2, <1>3, <1>6, IdleLoadInv DEF IInv

LEMMA NextIInv == IInv /\ [Next]_vars => IInv'
<1> SUFFICES ASSUME IInv, [Next]_vars PROVE IInv'
    OBVIOUS
<1>1. CASE UNCHANGED vars
      BY <1>1 DEF vars, clock, files, IInv, TypeOK, LoadInv, Answered, Saving
<1>2. CASE Next
      BY <1>2, MarketIInv, AskIInv, AnswerIInv, CheckIInv, FileIInv, PutIInv, FailureIInv
         DEF Next, LoadStep
<1> QED BY <1>1, <1>2

LEMMA Inductive == Spec => []IInv
BY InitIInv, NextIInv, PTL DEF Spec

-----------------------------------------------------------------------------
\* The variables hold values of their types, and the file is never torn.
THEOREM TypeCorrectness == Spec => [](TypeOK /\ path \in Series)
<1>1. IInv => TypeOK /\ path \in Series
      BY DEF IInv, LoadInv
<1> QED BY <1>1, Inductive, PTL

\* Only the two statements that complete a save change what readers see.
LEMMA PathSteps ==
    ASSUME IInv, [Next]_vars
    PROVE  Upsert \/ Replace \/ path' = path
BY DEF Next, vars, files, Market, SessionEnds, NextSession, Adjust, Ask, Serve, Miss,
       LoadStep, Answer, Retry, RetryUpTo, Compare, RecordMutationEvent, Write, Written,
       Backup, Raise, Crash

LEMMA BackendConstant ==
    ASSUME IInv, [Next]_vars
    PROVE  backend' = backend
BY DEF Next, vars, files, Market, SessionEnds, NextSession, Adjust, Ask, Serve, Miss,
       LoadStep, Answer, Retry, RetryUpTo, Compare, RecordMutationEvent, Write, Written,
       Backup, Raise, Crash, Upsert, Replace

LEMMA StepsRefine == IInv /\ [Next]_vars => [Reg!Put]_<<path, backend = "timescale">>
<1> SUFFICES ASSUME IInv, [Next]_vars, path' # path PROVE Reg!Put
    BY BackendConstant
<1>1. Upsert \/ Replace
      BY PathSteps
<1>2. IsAnswer(load.got) /\ (Replace => tmp = load.got /\ backend = "parquet")
      BY <1>1 DEF IInv, LoadInv, Answered, Saving, Upsert, Replace
<1>3. path' = IF backend = "timescale" THEN Reg!Over(load.got, path) ELSE load.got
      BY <1>1, <1>2 DEF Upsert, Replace
<1>4. PICK first \in Day, last \in Day, e \in 1..MaxEra, forming \in BOOLEAN :
          first <= last /\ load.got = Reg!AnswerOf(first, last, e, forming)
      BY <1>2 DEF IsAnswer
<1>5. UNCHANGED (backend = "timescale")
      BY BackendConstant
<1> QED BY <1>3, <1>4, <1>5 DEF Reg!Put, Day

\* Readers of the file meet whole answers of the feed only, whichever statement
\* of a save fails or is the last of its process.
THEOREM CacheImplementsRegister == Spec => ImplementsRegister
<1>1. Init => Reg!Init
      BY DEF Init, Reg!Init, Empty
<1> QED BY <1>1, StepsRefine, Inductive, PTL DEF Spec, ImplementsRegister, Reg!Spec

\* What a save replaces is in the backup, whatever went wrong before.
THEOREM BackupKeepsPrevious == Spec => BackupIsPrevious
<1>1. IInv /\ [Next]_vars =>
          [backend = "parquet" /\ path' # path /\ path # Empty => bak = path]_vars
  <2> SUFFICES ASSUME IInv, [Next]_vars, backend = "parquet", path' # path, path # Empty
               PROVE  bak = path
      OBVIOUS
  <2>1. Replace
        BY PathSteps DEF Upsert
  <2> QED BY <2>1 DEF Replace, IInv, LoadInv
<1> QED BY <1>1, Inductive, PTL DEF Spec, BackupIsPrevious

-----------------------------------------------------------------------------
(* What a load remembers.                                                  *)

\* The cache a load compared with is the one its save will change, and a load
\* that saves other prices has recorded it; a check does not get to the save.
Remembers(l, s) ==
    /\ l.pc # "idle" /\ l.req.how = "cached" => l.prior = s
    /\ l.pc \in {"save", "written", "backup", "copied"} =>
          /\ l.req.how # "check"
          /\ l.req.how = "cached" /\ Mutated(l.prior, l.got) => l.recorded

Memory == Remembers(load, path)

LEMMA IdleMemory == ASSUME NEW s PROVE Remembers(Idle, s)
BY DEF Remembers, Idle

LEMMA InitMemory == Init => Memory
BY IdleMemory DEF Init, Memory

\* The outcome of the comparison is remembered until the save is complete.
LEMMA SavesMemory ==
    ASSUME IInv, Memory, path' = path, load.pc \in {"save", "written", "backup"},
           NEW pc \in {"written", "backup", "copied"}, Goto(pc)
    PROVE  Memory'
<1>1. load \in Load /\ load' = [load EXCEPT !.pc = pc]
      BY DEF IInv, TypeOK, Goto
<1>2. /\ load'.pc = pc /\ load'.req = load.req /\ load'.prior = load.prior
      /\ load'.got = load.got /\ load'.recorded = load.recorded
      BY <1>1 DEF Load
<1> QED BY <1>2 DEF Memory, Remembers

LEMMA ComparedMemory ==
    ASSUME IInv, Memory, path' = path, load.pc \in {"compare", "record"},
           NEW recorded \in BOOLEAN, Compared(recorded),
           recorded \/ ~Mutated(load.prior, load.got)
    PROVE  Memory'
<1>1. load \in Load
      BY DEF IInv, TypeOK
<1>2. CASE load.req.how = "check"
      BY <1>2, IdleMemory DEF Compared, Memory
<1>3. CASE load.req.how # "check"
  <2>1. load' = [load EXCEPT !.pc = "save", !.recorded = recorded]
        BY <1>3 DEF Compared
  <2>2. /\ load'.pc = "save" /\ load'.req = load.req /\ load'.prior = load.prior
        /\ load'.got = load.got /\ load'.recorded = recorded
        BY <1>1, <2>1 DEF Load
  <2> QED BY <1>3, <2>2 DEF Memory, Remembers
<1> QED BY <1>2, <1>3

\* While an answer is awaited nothing has been compared.
LEMMA AwaitsMemory ==
    ASSUME Memory, path' = path, load.pc = "fetch",
           load'.pc \in {"fetch", "compare", "save"},
           load'.req = load.req, load'.prior = load.prior,
           load'.pc = "save" => load.req.how = "download"
    PROVE  Memory'
BY DEF Memory, Remembers

LEMMA NextMemory == IInv /\ Memory /\ [Next]_vars => Memory'
<1> SUFFICES ASSUME IInv, Memory, [Next]_vars PROVE Memory'
    OBVIOUS
<1>1. load \in Load
      BY DEF IInv, TypeOK
<1>2. CASE UNCHANGED <<load, path>>
      BY <1>2 DEF Memory
<1>3. ASSUME NEW r \in Requests, Miss(r) PROVE Memory'
  <2>1. load' = [Idle EXCEPT !.pc = "fetch", !.req = r, !.tries = 1,
                             !.prior = IF Reads(r) THEN path ELSE Empty]
        BY <1>3 DEF Miss
  <2>2. load'.pc = "fetch" /\ load'.req = r /\ (Reads(r) => load'.prior = path)
        BY <2>1 DEF Idle
  <2>3. path' = path
        BY <1>3 DEF Miss, files
  <2> QED BY <2>2, <2>3 DEF Memory, Remembers, Reads
<1>4. CASE Answer
  <2>1. PICK first \in Day, last \in Day :
            load' = [load EXCEPT !.pc = Received(load.req), !.tries = 0,
                        !.got = Reg!AnswerOf(first, last, era, last = now /\ ~closed)]
        BY <1>4 DEF Answer
  <2>2. load'.pc = Received(load.req) /\ load'.req = load.req /\ load'.prior = load.prior
        BY <1>1, <2>1 DEF Load
  <2> QED BY <1>4, <2>2, AwaitsMemory DEF Answer, Received, files
<1>5. CASE Retry
  <2>1. load'.pc = "fetch" /\ load'.req = load.req /\ load'.prior = load.prior
        BY <1>1, <1>5 DEF Retry, RetryUpTo, Load
  <2> QED BY <1>5, <2>1, AwaitsMemory DEF Retry, RetryUpTo, files
<1>6. CASE Compare
  <2>1. CASE Mutated(load.prior, load.got)
    <3>1. load' = [load EXCEPT !.pc = "record"] /\ load.pc = "compare" /\ path' = path
          BY <1>6, <2>1 DEF Compare, Goto, files
    <3>2. load'.pc = "record" /\ load'.req = load.req /\ load'.prior = load.prior
          BY <1>1, <3>1 DEF Load
    <3> QED BY <3>1, <3>2 DEF Memory, Remembers
  <2>2. CASE ~Mutated(load.prior, load.got)
        BY <1>6, <2>2, ComparedMemory DEF Compare, files
  <2> QED BY <2>1, <2>2
<1>7. CASE RecordMutationEvent
      BY <1>7, ComparedMemory DEF RecordMutationEvent, files
<1>8. CASE Write \/ Written \/ Backup
      BY <1>8, SavesMemory DEF Write, Written, Backup
<1>9. CASE Upsert \/ Replace \/ Raise \/ Crash
  <2>1. load' = Idle
        BY <1>9 DEF Upsert, Replace, Raise, Crash, Ends
  <2> QED BY <2>1, IdleMemory DEF Memory
<1> QED BY <1>2, <1>3, <1>4, <1>5, <1>6, <1>7, <1>8, <1>9
           DEF Next, vars, files, Market, SessionEnds, NextSession, Adjust, Ask, Serve, LoadStep

\* A save that gives a settled bar another price saves a mutated answer.
LEMMA RewriteMutates ==
    ASSUME IInv, Upsert \/ Replace,
           NEW d \in Settled(path) \cap Held(path'), path[d] # path'[d]
    PROVE  Mutated(path, load.got)
<1>1. d \in Day
      BY DEF Held
<1>2. path' = Reg!Over(load.got, path) \/ path' = load.got
      BY DEF IInv, LoadInv, Upsert, Replace
<1>3. path'[d] = load.got[d] /\ load.got[d] # 0
  <2>1. path'[d] # 0
        BY DEF Held
  <2>2. CASE path' = load.got
        BY <2>1, <2>2
  <2>3. CASE path' = Reg!Over(load.got, path)
        BY <1>1, <2>1, <2>3 DEF Reg!Over, Reg!Day, Day
  <2> QED BY <1>2, <2>2, <2>3
<1> QED BY <1>1, <1>3 DEF Mutated, Held

\* The past never changes silently: a load that looked at the cache has left
\* an event before its save gives a settled bar another price, and a check
\* changes nothing (loaders.py load_bars, cli.py integrity --check).
THEOREM RewritesAreRecorded == Spec => RewriteIsRecorded
<1>1. IInv /\ Memory /\ [Next]_vars =>
          [ /\ path # Torn /\ path' # Torn /\ load.req.how = "cached"
                 /\ (\E d \in Settled(path) \cap Held(path') : path[d] # path'[d])
                 => load.recorded
            /\ load.req.how = "check" => path' = path ]_vars
  <2> SUFFICES ASSUME IInv, Memory, [Next]_vars
               PROVE  /\ /\ load.req.how = "cached"
                         /\ \E d \in Settled(path) \cap Held(path') : path[d] # path'[d]
                         => load.recorded
                      /\ load.req.how = "check" => path' = path
      OBVIOUS
  <2>1. CASE path' = path
        BY <2>1
  <2>2. CASE Upsert \/ Replace
    <3>1. load.pc \in {"save", "copied"}
          BY <2>2 DEF Upsert, Replace
    <3>2. load.req.how # "check"
          BY <3>1 DEF Memory, Remembers
    <3>3. ASSUME load.req.how = "cached",
                 NEW d \in Settled(path) \cap Held(path'), path[d] # path'[d]
          PROVE  load.recorded
      <4>1. load.prior = path
            BY <3>1, <3>3 DEF Memory, Remembers
      <4>2. Mutated(path, load.got)
            BY <2>2, <3>3, RewriteMutates
      <4> QED BY <3>1, <3>3, <4>1, <4>2 DEF Memory, Remembers
    <3> QED BY <3>2, <3>3
  <2> QED BY <2>1, <2>2, PathSteps
<1>2. Spec => []Memory
      BY InitMemory, NextMemory, Inductive, PTL DEF Spec
<1> QED BY <1>1, <1>2, Inductive, PTL DEF Spec, RewriteIsRecorded

=============================================================================
