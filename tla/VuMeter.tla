------------------------------ MODULE VuMeter ------------------------------
(***************************************************************************)
(* monitor_level() of conf_to_2_sounds.c: the conference demo polls the    *)
(* signal level of one port every SLEEP ms for about `dur' seconds and     *)
(* draws a bar of at most 20 characters from every SAMP_CNT polls.         *)
(*                                                                         *)
(* The bridge is external: a poll answers any pair of levels, or fails.    *)
(* `recent', `bar', `bars' and `slept' record what was polled, drawn and   *)
(* waited; the code never reads them back.                                 *)
(***************************************************************************)
EXTENDS Integers

CONSTANTS
    Levels,      \* the levels the bridge reports, some of 0..255
    Durations,   \* the durations the menu accepts: any int, in seconds
    INT_MAX      \* the largest int; ints wrap modulo 2 * (INT_MAX + 1)

ASSUME LevelsAssumption == Levels \subseteq 0..255
ASSUME DurationsAssumption == Durations \subseteq Int
ASSUME IntMaxAssumption == INT_MAX \in Nat

SLEEP == 20
SAMP_CNT == 2
BarWidth == 20

VARIABLES
    pc,           \* where the function is
    dir,          \* "r" or "t"
    dur,          \* the duration asked for
    total_count,  \* number of polls to make
    i,            \* polls made
    level,        \* sum of the levels since the last bar
    samp_cnt,     \* number of polls since the last bar
    recent,       \* the answers to the last two polls, both directions
    bar,          \* the last bar: its length and the level printed beside it
    bars,         \* number of bars drawn
    slept         \* milliseconds slept

vars == <<pc, dir, dur, total_count, i, level, samp_cnt, recent, bar, bars,
          slept>>

Answer == [t : 0..255, r : 0..255]

(* C arithmetic on int: division truncates; where an operation overflows,  *)
(* either the product wraps or the compiler has folded * 1000 / 20 to * 50.*)
FitsInt(x) == -INT_MAX - 1 <= x /\ x <= INT_MAX
Wrap(x) == ((x + INT_MAX + 1) % (2 * (INT_MAX + 1))) - (INT_MAX + 1)
CDiv(a, b) == IF a >= 0 THEN a \div b ELSE -((-a) \div b)

TotalCounts(d) ==
    IF FitsInt(d * 1000)
    THEN {CDiv(d * 1000, SLEEP)}
    ELSE {CDiv(Wrap(d * 1000), SLEEP), Wrap(d * 50)}

Init ==
    /\ pc = "called"
    /\ dir \in {"r", "t"}
    /\ dur \in Durations
    /\ total_count = 0
    /\ i = 0
    /\ level = 0
    /\ samp_cnt = 0
    /\ recent = [k \in 1..2 |-> [t |-> 0, r |-> 0]]
    /\ bar = [length |-> 0, level |-> 0]
    /\ bars = 0
    /\ slept = 0

Begin ==
    /\ pc = "called"
    /\ total_count' \in TotalCounts(dur)
    /\ pc' = "polling"
    /\ UNCHANGED <<dir, dur, i, level, samp_cnt, recent, bar, bars, slept>>

Picked(answer) == IF dir = "r" THEN answer.r ELSE answer.t

Bar(avg) == [length |-> (BarWidth * avg) \div 255, level |-> avg]

(* What every successful iteration does: poll, count, sleep. *)
Poll(answer) ==
    /\ pc = "polling" /\ i < total_count
    /\ recent' = [recent EXCEPT ![1] = recent[2], ![2] = answer]
    /\ i' = i + 1
    /\ slept' = slept + SLEEP
    /\ UNCHANGED <<pc, dir, dur, total_count>>

Answers == {[t |-> tx_level, r |-> rx_level] :
                tx_level \in Levels, rx_level \in Levels}

(* A slip: the iteration that only accumulates skips the sleep too. *)
AccumulateAtOnce ==
    /\ pc = "polling" /\ i < total_count
    /\ samp_cnt + 1 < SAMP_CNT
    /\ \E answer \in Answers :
          /\ recent' = [recent EXCEPT ![1] = recent[2], ![2] = answer]
          /\ level' = level + Picked(answer)
    /\ i' = i + 1
    /\ samp_cnt' = samp_cnt + 1
    /\ UNCHANGED <<pc, dir, dur, total_count, bar, bars, slept>>

(* An iteration that only accumulates: too few samples for a bar. *)
Accumulate ==
    /\ samp_cnt + 1 < SAMP_CNT
    /\ \E answer \in Answers :
          Poll(answer) /\ level' = level + Picked(answer)
    /\ samp_cnt' = samp_cnt + 1
    /\ UNCHANGED <<bar, bars>>

(* A slip: the level survives the bar. *)
DrawKeepsLevel ==
    /\ samp_cnt + 1 >= SAMP_CNT
    /\ \E answer \in Answers :
          /\ Poll(answer)
          /\ bar' = Bar((level + Picked(answer)) \div (samp_cnt + 1))
    /\ samp_cnt' = 0
    /\ bars' = bars + 1
    /\ UNCHANGED level

(* An iteration that completes a bar and starts over. *)
Draw ==
    /\ samp_cnt + 1 >= SAMP_CNT
    /\ \E answer \in Answers :
          /\ Poll(answer)
          /\ bar' = Bar((level + Picked(answer)) \div (samp_cnt + 1))
    /\ level' = 0
    /\ samp_cnt' = 0
    /\ bars' = bars + 1

(* The bridge refuses the poll: the function returns at once. *)
PollFails ==
    /\ pc = "polling" /\ i < total_count
    /\ pc' = "failed"
    /\ UNCHANGED <<dir, dur, total_count, i, level, samp_cnt, recent, bar,
                   bars, slept>>

(* A slip: the loop runs one poll too few. *)
FinishEarly ==
    /\ pc = "polling" /\ i >= total_count - 1
    /\ pc' = "done"
    /\ UNCHANGED <<dir, dur, total_count, i, level, samp_cnt, recent, bar,
                   bars, slept>>

Finish ==
    /\ pc = "polling" /\ i >= total_count
    /\ pc' = "done"
    /\ UNCHANGED <<dir, dur, total_count, i, level, samp_cnt, recent, bar,
                   bars, slept>>

Returned == pc \in {"done", "failed"} /\ UNCHANGED vars

Next == Begin \/ Accumulate \/ Draw \/ PollFails \/ Finish \/ Returned

Spec == Init /\ [][Next]_vars

-----------------------------------------------------------------------------
(* The shape of every variable. *)
TypeOK ==
    /\ pc \in {"called", "polling", "done", "failed"}
    /\ dir \in {"r", "t"}
    /\ dur \in Durations
    /\ total_count \in Int
    /\ i \in Nat
    /\ level \in Nat
    /\ samp_cnt \in 0..(SAMP_CNT - 1)
    /\ recent \in [1..2 -> Answer]
    /\ bar \in [length : Nat, level : Nat]
    /\ bars \in Nat
    /\ slept \in Nat

(* Every bar is the mean of exactly the last two polls of the direction    *)
(* asked for: nothing of an earlier bar, and nothing of the other          *)
(* direction, is in the accumulator when the bar is drawn.                 *)
BarShowsMean ==
    (bars > 0 /\ samp_cnt = 0) =>
        bar.level = (recent[1][dir] + recent[2][dir]) \div 2

(* The bar fits meter[21]: at most 20 characters and the terminator, for   *)
(* every level a port can report.                                          *)
BarFitsMeter == bar.length <= BarWidth

(* When the duration is not so long that the count overflows, a display    *)
(* that was not cut short lasted exactly dur seconds, and every level it   *)
(* polled was drawn: none is left in the accumulator at the end.           *)
LastsAsAsked ==
    (pc = "done" /\ dur >= 0 /\ FitsInt(dur * 1000)) =>
        /\ slept = 1000 * dur
        /\ i = SAMP_CNT * bars

(* What the function prints when it starts, for every duration the menu    *)
(* lets through: "Displaying VU meter for port .. for about .. seconds".   *)
(* The code breaks it where dur * 1000 overflows.                          *)
LastsAboutDuration ==
    (pc = "done" /\ dur >= 0) => slept = 1000 * dur

(* The inductive invariant: the accumulator holds exactly what was polled  *)
(* since the last bar, and the four counters stay in step.                 *)
IInv ==
    /\ TypeOK
    /\ i = SAMP_CNT * bars + samp_cnt
    /\ slept = SLEEP * i
    /\ level = (IF samp_cnt = 0 THEN 0 ELSE recent[2][dir])
    /\ pc # "called" => total_count \in TotalCounts(dur)
    /\ i = 0 \/ (pc # "called" /\ i <= total_count)
    /\ pc = "done" => i >= total_count
    /\ BarFitsMeter
    /\ BarShowsMean
=============================================================================
