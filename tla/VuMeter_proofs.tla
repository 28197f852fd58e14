--------------------------- MODULE VuMeter_proofs ---------------------------
(* The VU meter's safety properties, for every set of levels within 0..255,*)
(* every set of durations and every width of int.                          *)
EXTENDS VuMeter, TLAPS

(* When the product fits, the count is 50 polls a second, an even number.  *)
LEMMA TotalCountsValue ==
    ASSUME NEW d \in Int
    PROVE  /\ \A n \in TotalCounts(d) : n \in Int
           /\ (d >= 0 /\ FitsInt(d * 1000)) => TotalCounts(d) = {50 * d}
<1> USE IntMaxAssumption
<1>1. ASSUME NEW a \in Int PROVE CDiv(a, SLEEP) \in Int
  BY <1>1 DEF CDiv, SLEEP
<1>2. ASSUME NEW a \in Int PROVE Wrap(a) \in Int
  BY <1>2 DEF Wrap
<1>3. \A n \in TotalCounts(d) : n \in Int
  <2>1. d * 1000 \in Int /\ d * 50 \in Int
    OBVIOUS
  <2>2. CDiv(d * 1000, SLEEP) \in Int
    BY <1>1, <2>1
  <2>3. CDiv(Wrap(d * 1000), SLEEP) \in Int
    BY <1>1, <1>2, <2>1
  <2>4. Wrap(d * 50) \in Int
    BY <1>2, <2>1
  <2> QED BY <2>2, <2>3, <2>4 DEF TotalCounts
<1>4. ASSUME d >= 0, FitsInt(d * 1000) PROVE TotalCounts(d) = {50 * d}
  <2>1. CDiv(d * 1000, SLEEP) = 50 * d
    BY <1>4 DEF CDiv, SLEEP
  <2> QED BY <1>4, <2>1 DEF TotalCounts
<1> QED BY <1>3, <1>4

(* The mean of two levels is a level. *)
LEMMA MeanFits ==
    ASSUME NEW x \in 0..255, NEW y \in 0..255
    PROVE  /\ (x + y) \div (1 + 1) = (x + y) \div 2
           /\ (x + y) \div 2 \in 0..255
<1>1. ASSUME NEW s \in 0..510 PROVE s \div 2 \in 0..255
  OBVIOUS
<1>2. x + y \in 0..510
  OBVIOUS
<1>3. 1 + 1 = 2
  OBVIOUS
<1> QED BY <1>1, <1>2, <1>3, Zenon

(* A bar drawn from a mean of levels within 0..255 fits the meter. *)
LEMMA BarFits ==
    ASSUME NEW avg \in 0..255
    PROVE  /\ Bar(avg) \in [length : Nat, level : Nat]
           /\ Bar(avg).length <= BarWidth
           /\ Bar(avg).level = avg
BY DEF Bar, BarWidth

LEMMA AnswersTyped ==
    ASSUME NEW answer \in Answers, dir \in {"r", "t"}
    PROVE  /\ answer \in Answer
           /\ Picked(answer) = answer[dir]
           /\ Picked(answer) \in 0..255
BY LevelsAssumption DEF Answers, Answer, Picked

LEMMA Initially == Init => IInv
BY DurationsAssumption
   DEF Init, IInv, TypeOK, Answer, SAMP_CNT, SLEEP, BarFitsMeter, BarWidth,
       BarShowsMean

LEMMA AccumulateKeeps == IInv /\ Accumulate => IInv'
<1> SUFFICES ASSUME IInv, Accumulate PROVE IInv'
  OBVIOUS
<1>1. PICK answer \in Answers :
        Poll(answer) /\ level' = level + Picked(answer)
  BY DEF Accumulate
<1>2. answer \in Answer /\ Picked(answer) = answer[dir]
      /\ Picked(answer) \in 0..255
  BY AnswersTyped DEF IInv, TypeOK
<1>3. samp_cnt = 0 /\ samp_cnt' = 1
  BY DEF IInv, TypeOK, Accumulate, SAMP_CNT
<1>4. recent' \in [1..2 -> Answer] /\ recent'[2] = answer
  BY <1>1, <1>2 DEF IInv, TypeOK, Poll
<1>5. TypeOK'
  BY <1>1, <1>2, <1>3, <1>4
     DEF IInv, TypeOK, Accumulate, Poll, SLEEP, SAMP_CNT
<1>6. level' = recent'[2][dir']
  BY <1>1, <1>2, <1>3, <1>4 DEF IInv, TypeOK, Poll
<1>7. i' = SAMP_CNT * bars' + samp_cnt' /\ slept' = SLEEP * i'
  BY <1>1, <1>3 DEF IInv, TypeOK, Accumulate, Poll, SLEEP, SAMP_CNT
<1>8. pc' # "called" /\ pc' # "done" /\ i' <= total_count'
      /\ total_count' \in TotalCounts(dur')
  BY <1>1 DEF IInv, TypeOK, Poll
<1>9. BarFitsMeter' /\ BarShowsMean'
  BY <1>3 DEF IInv, Accumulate, BarFitsMeter, BarShowsMean
<1> QED BY <1>3, <1>5, <1>6, <1>7, <1>8, <1>9 DEF IInv

LEMMA DrawKeeps == IInv /\ Draw => IInv'
<1> SUFFICES ASSUME IInv, Draw PROVE IInv'
  OBVIOUS
<1> DEFINE avg(answer) == (level + Picked(answer)) \div (samp_cnt + 1)
<1>1. PICK answer \in Answers : Poll(answer) /\ bar' = Bar(avg(answer))
  BY DEF Draw
<1>2. answer \in Answer /\ Picked(answer) = answer[dir]
      /\ Picked(answer) \in 0..255
  BY AnswersTyped DEF IInv, TypeOK
<1>3. samp_cnt = 1 /\ samp_cnt' = 0 /\ level' = 0 /\ bars' = bars + 1
  BY DEF IInv, TypeOK, Draw, SAMP_CNT
<1>4. recent' \in [1..2 -> Answer] /\ recent'[1] = recent[2]
      /\ recent'[2] = answer
  BY <1>1, <1>2 DEF IInv, TypeOK, Poll
<1>5. level = recent[2][dir] /\ level \in 0..255
  BY <1>3 DEF IInv, TypeOK, Answer
<1>6. avg(answer) = (recent'[1][dir] + recent'[2][dir]) \div 2
      /\ avg(answer) \in 0..255
  <2>1. ASSUME NEW x \in 0..255, NEW y \in 0..255
        PROVE  (x + y) \div (1 + 1) = (x + y) \div 2
               /\ (x + y) \div 2 \in 0..255
    BY MeanFits, Zenon
  <2>2. avg(answer) = (level + Picked(answer)) \div (1 + 1)
    BY <1>3
  <2>3. avg(answer) = (level + Picked(answer)) \div 2
        /\ (level + Picked(answer)) \div 2 \in 0..255
    BY <1>2, <1>5, <2>1, <2>2, Zenon
  <2>4. level = recent'[1][dir] /\ Picked(answer) = recent'[2][dir]
    BY <1>2, <1>4, <1>5
  <2> QED BY <2>3, <2>4
<1>7. bar' \in [length : Nat, level : Nat] /\ BarFitsMeter'
      /\ bar'.level = (recent'[1][dir'] + recent'[2][dir']) \div 2
  BY <1>1, <1>6, BarFits DEF BarFitsMeter, Poll, BarWidth
<1>8. TypeOK'
  BY <1>1, <1>3, <1>4, <1>7 DEF IInv, TypeOK, Poll, SLEEP, SAMP_CNT
<1>9. i' = SAMP_CNT * bars' + samp_cnt' /\ slept' = SLEEP * i'
  BY <1>1, <1>3 DEF IInv, TypeOK, Poll, SLEEP, SAMP_CNT
<1>10. pc' # "called" /\ pc' # "done" /\ i' <= total_count'
       /\ total_count' \in TotalCounts(dur')
  BY <1>1 DEF IInv, TypeOK, Poll
<1> QED BY <1>3, <1>7, <1>8, <1>9, <1>10 DEF IInv, BarShowsMean

LEMMA StepKeeps == IInv /\ [Next]_vars => IInv'
<1> SUFFICES ASSUME IInv, [Next]_vars PROVE IInv'
  OBVIOUS
<1>1. CASE Begin
  <2>1. total_count' \in Int
    BY <1>1, TotalCountsValue, DurationsAssumption DEF IInv, TypeOK, Begin
  <2>2. i = 0
    BY <1>1 DEF IInv, Begin
  <2> QED BY <1>1, <2>1, <2>2
          DEF IInv, TypeOK, Begin, BarFitsMeter, BarShowsMean
<1>2. CASE Accumulate
  BY <1>2, AccumulateKeeps
<1>3. CASE Draw
  BY <1>3, DrawKeeps
<1>4. CASE PollFails
  BY <1>4 DEF IInv, TypeOK, PollFails, BarFitsMeter, BarShowsMean
<1>5. CASE Finish
  BY <1>5 DEF IInv, TypeOK, Finish, BarFitsMeter, BarShowsMean
<1>6. CASE UNCHANGED vars
  BY <1>6 DEF IInv, TypeOK, vars, BarFitsMeter, BarShowsMean
<1> QED BY <1>1, <1>2, <1>3, <1>4, <1>5, <1>6 DEF Next, Returned

(* The inductive invariant holds of every run of monitor_level. *)
THEOREM Inductive == Spec => []IInv
BY Initially, StepKeeps, PTL DEF Spec

(* Every bar is the mean of the last two polls of the chosen direction. *)
THEOREM MeanTheorem == Spec => []BarShowsMean
<1>1. IInv => BarShowsMean
  BY DEF IInv
<1> QED BY <1>1, Inductive, PTL

(* No bar overruns the 21 characters of the meter. *)
THEOREM FitsTheorem == Spec => []BarFitsMeter
<1>1. IInv => BarFitsMeter
  BY DEF IInv
<1> QED BY <1>1, Inductive, PTL

(* Whenever the count does not overflow, a display that was not cut short  *)
(* lasts exactly dur seconds and draws every level it polled.              *)
THEOREM DurationTheorem == Spec => []LastsAsAsked
<1>1. IInv => LastsAsAsked
  <2> SUFFICES ASSUME IInv, pc = "done", dur >= 0, FitsInt(dur * 1000)
               PROVE  slept = 1000 * dur /\ i = SAMP_CNT * bars
    BY DEF LastsAsAsked
  <2>1. dur \in Int /\ total_count = 50 * dur
    BY TotalCountsValue, DurationsAssumption DEF IInv, TypeOK
  <2>2. i = 50 * dur
    BY <2>1 DEF IInv, TypeOK
  <2>3. samp_cnt = 0
    BY <2>1, <2>2 DEF IInv, TypeOK, SAMP_CNT
  <2> QED BY <2>1, <2>2, <2>3 DEF IInv, TypeOK, SLEEP, SAMP_CNT
<1> QED BY <1>1, Inductive, PTL
=============================================================================
