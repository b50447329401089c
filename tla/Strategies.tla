----------------------------- MODULE Strategies -----------------------------
(***************************************************************************)
(* The two strategies (strategies/ma_cross.py, momentum.py), what the live *)
(* runner makes of their signals (execution/live_runner.py _target_state), *)
(* and the one-shot market watch of the command line (cli.py watch).       *)
(*                                                                         *)
(* A price history is a sequence of closes, a bar is its index.  Averages  *)
(* and returns are compared by cross multiplication: they are exact.       *)
(* A value that is not there yet (NaN) makes every comparison false.       *)
(***************************************************************************)
EXTENDS Totals, FiniteSets, FiniteSetsExt, SequencesExt

\* fast and slow belong to ma_cross, lookback and buffer (percent) to momentum,
\* whose constructor refuses a lookback of zero.
Strategy ==
    {s \in [kind : {"ma_cross", "momentum"}, fast : Nat, slow : Nat,
            lookback : Nat, buffer : Nat] : s.kind = "momentum" => s.lookback > 0}

MACross(fast, slow) ==
    [kind |-> "ma_cross", fast |-> fast, slow |-> slow, lookback |-> 0, buffer |-> 0]

Momentum(lookback, buffer) ==
    [kind |-> "momentum", fast |-> 0, slow |-> 0, lookback |-> lookback, buffer |-> buffer]

\* Momentum keeps every combination.
ParamsValid(s) == s.kind = "ma_cross" => s.fast < s.slow

\* Fault: the history that warms the shorter average.
WarmupBarsShort(s) == IF s.kind = "ma_cross" THEN s.fast ELSE s.lookback

WarmupBars(s) == IF s.kind = "ma_cross" THEN s.slow ELSE s.lookback

\* The sum of the n closes up to bar i: rolling(n).
Rolling(c, i, n) == Total(SubSeq(c, i - n + 1, i))

\* above, long_state.
Long(s, c, i) ==
    IF s.kind = "ma_cross"
    THEN i >= s.slow /\ s.slow * Rolling(c, i, s.fast) > s.fast * Rolling(c, i, s.slow)
    ELSE i > s.lookback /\ 100 * c[i] > (100 + s.buffer) * c[i - s.lookback]

\* ~above, flat_state: between the two there is the band of momentum.
Flat(s, c, i) ==
    IF s.kind = "ma_cross"
    THEN ~Long(s, c, i)
    ELSE i > s.lookback /\ 100 * c[i] < (100 - s.buffer) * c[i - s.lookback]

\* prev_above, prev_long: shift(fill_value=False).
WasLong(s, c, i) == i > 1 /\ Long(s, c, i - 1)

\* Fault: an entry needs a flat bar before it.
EntriesFromFlat(s, c) ==
    {i \in 2..Len(c) : Long(s, c, i) /\ Flat(s, c, i - 1)}

Entries(s, c) == {i \in 1..Len(c) : Long(s, c, i) /\ ~WasLong(s, c, i)}

Exits(s, c) == {i \in 1..Len(c) : Flat(s, c, i) /\ WasLong(s, c, i)}

Marks(s, c) == Entries(s, c) \cup Exits(s, c)

\* The held state after the last bar, the exit winning.
Target(s, c) ==
    LET entries == Entries(s, c)
        exits == Exits(s, c)
    IN  IF entries \cup exits = {} THEN "no opinion"
        ELSE IF Max(entries \cup exits) \in exits THEN "flat" ELSE "long"

-----------------------------------------------------------------------------
(* watch, run when bar i is the latest.                                    *)

\* The close minus its n-bar average, n times.
Gap(c, i, n) == n * c[i] - Rolling(c, i, n)

Answers(i, n) == i >= n + 2

Crossed(c, i, n) ==
    \/ Gap(c, i - 1, n) <= 0 /\ Gap(c, i, n) > 0
    \/ Gap(c, i - 1, n) >= 0 /\ Gap(c, i, n) < 0

\* The volume spike is left out.
Triggered(condition, c, i) ==
    \/ condition.kind = "above" /\ c[i] >= condition.arg
    \/ condition.kind = "below" /\ c[i] <= condition.arg
    \/ condition.kind = "cross-ma" /\ Answers(i, condition.arg) /\ Crossed(c, i, condition.arg)

=============================================================================
