----------------------------- MODULE BarRegister -----------------------------
(***************************************************************************)
(* What the bar cache promises its readers: a register that holds whole    *)
(* answers of the feed.  A file store holds the latest one; a table keeps  *)
(* the bars of earlier answers beside it.                                  *)
(***************************************************************************)
EXTENDS Integers

CONSTANTS Days, MaxEra

VARIABLES held,     \* the bars a reader sees
          keeps     \* does an answer leave the bars it does not cover?

Day == 1..Days

\* A price tells the adjustment of its answer and whether the bar was still
\* forming; 0: no bar.
Price == 0..(2 * MaxEra)
Final(era)   == 2 * era
Forming(era) == 2 * era - 1

Series == [Day -> Price]
Empty  == [d \in Day |-> 0]

\* One answer: consecutive days of one adjustment, at most the last forming.
AnswerOf(first, last, era, forming) ==
    [d \in Day |-> IF d \notin first..last THEN 0
                   ELSE IF d = last /\ forming THEN Forming(era) ELSE Final(era)]

Over(new, old) == [d \in Day |-> IF new[d] # 0 THEN new[d] ELSE old[d]]

Init == held = Empty /\ keeps \in BOOLEAN

Put ==
    /\ \E first, last \in Day, era \in 1..MaxEra, forming \in BOOLEAN :
          LET new == AnswerOf(first, last, era, forming)
          IN  first <= last /\ held' = IF keeps THEN Over(new, held) ELSE new
    /\ UNCHANGED keeps

Spec == Init /\ [][Put]_<<held, keeps>>

=============================================================================
