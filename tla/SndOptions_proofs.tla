-------------------------- MODULE SndOptions_proofs --------------------------
(* get_snd_options, for command lines of any length, any numbers on them   *)
(* and every width of int.                                                 *)
EXTENDS SndOptions, TLAPS

(* An int holds what fits, and something that fits in any case.            *)
LEMMA ModuloFits ==
    ASSUME NEW a \in Int, NEW m \in Nat, m > 0
    PROVE  /\ a % m \in 0..(m - 1)
           /\ a \in 0..(m - 1) => a % m = a
  OBVIOUS

LEMMA AsIntFits ==
    ASSUME NEW v \in Int
    PROVE  /\ AsInt(v) \in (-INT_MAX - 1)..INT_MAX
           /\ v \in (-INT_MAX - 1)..INT_MAX => AsInt(v) = v
<1> DEFINE a == v + INT_MAX + 1
           m == 2 * INT_MAX + 2
<1>1. a \in Int /\ m \in Nat /\ m > 0
  BY IntMaxAssumption
<1>2. /\ a % m \in 0..(m - 1)
      /\ a \in 0..(m - 1) => a % m = a
  BY <1>1, ModuloFits
<1>3. AsInt(v) = (a % m) - INT_MAX - 1
  BY DEF AsInt
<1> HIDE DEF a
<1>4. a = v + INT_MAX + 1
  BY DEF a
<1> QED BY <1>2, <1>3, <1>4, IntMaxAssumption

LEMMA FrameFits ==
    ASSUME NEW rate \in Int, NEW channels \in Int
    PROVE  FrameOf(rate, channels) \in (-INT_MAX - 1)..INT_MAX
<1> DEFINE samples == AsInt(AsInt(rate * channels) * 20)
<1>1. AsInt(rate * channels) \in Int
  BY AsIntFits, IntMaxAssumption
<1>2. samples \in (-INT_MAX - 1)..INT_MAX
  BY <1>1, AsIntFits
<1>3. FrameOf(rate, channels) =
          IF samples >= 0 THEN samples \div 1000 ELSE -((-samples) \div 1000)
  BY DEF FrameOf, Quotient
<1> HIDE DEF samples
<1> QED BY <1>2, <1>3, IntMaxAssumption

LEMMA OptionFields ==
    ASSUME NEW opt \in Options
    PROVE  /\ opt.val \in Int
           /\ opt.good \in BOOLEAN
           /\ opt.good => opt.name \in Names
<1>1. CASE opt \in [name : Names, val : Values, good : {TRUE}]
  BY <1>1, ValuesAssumption
<1>2. CASE opt \in [name : Names \cup {"?"}, val : {0}, good : {FALSE}]
  <2>1. opt.good = FALSE /\ opt.val = 0
    BY <1>2
  <2>2. opt.val \in Int
    BY <2>1
  <2>3. opt.good \in BOOLEAN /\ ~opt.good
    BY <2>1, Zenon
  <2> QED BY <2>2, <2>3, Zenon
<1> QED BY <1>1, <1>2 DEF Options

-----------------------------------------------------------------------------
(* The inductive invariant, part by part.                                  *)
Ints == (-INT_MAX - 1)..INT_MAX

Types ==
    /\ options \in Seq(Options)
    /\ n \in 0..Len(options)
    /\ out \in [Names -> Ints]
    /\ status \in {"called", "parsing", "ok", "einval"}

(* v is what the last of the options 1..n with name o says, or what there  *)
(* was before them.                                                        *)
Latest(o, v) ==
    \/ /\ \A k \in 1..n : options[k].name # o
       /\ v = IF o = "f" THEN 0 ELSE Defaults[o]
    \/ \E k \in 1..n :
          /\ options[k].name = o
          /\ \A j \in 1..n : options[j].name = o => j <= k
          /\ v = AsInt(options[k].val)

(* Which options have been looked at, and that they were in order.         *)
Progress ==
    /\ status = "called" => n = 0 /\ out = Defaults
    /\ status = "ok" => n = Len(options)
    /\ status = "einval" => n < Len(options) /\ ~options[n + 1].good
    /\ \A k \in 1..n : options[k].good

(* What the variables hold meanwhile ...                                   *)
Stored ==
    status \in {"parsing", "ok"} =>
        \A o \in Names \ {"f"} : Latest(o, out[o])

(* ... and samples_per_frame, whose default comes at the end.              *)
Frame ==
    /\ status = "parsing" => Latest("f", out["f"])
    /\ status = "ok" =>
          \E v \in Ints :
              /\ Latest("f", v)
              /\ out["f"] = IF v = 0 THEN FrameOf(out["r"], out["c"]) ELSE v

IInv == Types /\ Progress /\ Stored /\ Frame

LEMMA DefaultsFit == Defaults \in [Names -> Ints]
<1>1. (44100 * 20) \div 1000 = 882
  OBVIOUS
<1> QED BY <1>1, IntMaxAssumption DEF Defaults, Names, Ints

LEMMA Initially == Init => IInv
<1> SUFFICES ASSUME Init PROVE IInv
  OBVIOUS
<1>1. options \in Seq(Options)
  BY MaxOptionsAssumption DEF Init
<1>2. Types
  BY <1>1, DefaultsFit DEF Init, Types
<1> QED BY <1>2 DEF Init, IInv, Progress, Stored, Frame

LEMMA StepKeeps == IInv /\ [Next]_vars => IInv'
<1> SUFFICES ASSUME IInv, [Next]_vars PROVE IInv'
  OBVIOUS
<1> USE DEF IInv
<1>0. Len(options) \in Nat /\ n \in Nat
  BY DEF Types
<1>1. CASE Begin
  <2>1. /\ status = "called" /\ status' = "parsing" /\ n = 0
        /\ UNCHANGED <<options, n>>
    BY <1>1 DEF Begin, Progress
  <2>2. out' = [Defaults EXCEPT !["f"] = 0]
    BY <1>1 DEF Begin, Progress
  <2>3. out' \in [Names -> Ints]
    <3>1. 0 \in Ints
      BY IntMaxAssumption DEF Ints
    <3> QED BY <2>2, <3>1, DefaultsFit
  <2>4. Types' /\ Progress'
    BY <2>1, <2>3 DEF Types, Progress
  <2>5. \A o \in Names : out'[o] = IF o = "f" THEN 0 ELSE Defaults[o]
    BY <2>2, DefaultsFit
  <2>6. \A o \in Names : Latest(o, out[o])'
    BY <2>1, <2>5 DEF Latest
  <2> QED BY <2>1, <2>4, <2>6 DEF Stored, Frame, Names
<1>2. CASE Set
  <2> DEFINE opt == options[n + 1]
  <2>1. /\ status = "parsing" /\ n < Len(options) /\ opt.good
        /\ out' = [out EXCEPT ![opt.name] = AsInt(opt.val)]
        /\ n' = n + 1 /\ options' = options /\ status' = status
    BY <1>2 DEF Set, Current
  <2>2. opt \in Options
    BY <1>0, <2>1 DEF Types
  <2>3. opt.val \in Int /\ opt.name \in Names
    BY <2>1, <2>2, OptionFields
  <2>4. AsInt(opt.val) \in Ints
    BY <2>3, AsIntFits DEF Ints
  <2>5. Types'
    BY <1>0, <2>1, <2>3, <2>4 DEF Types
  <2>6. Progress'
    <3>1. \A k \in 1..n' : options'[k].good
      BY <1>0, <2>1 DEF Progress
    <3> QED BY <2>1, <3>1 DEF Progress
  <2>7. ASSUME NEW o \in Names PROVE Latest(o, out[o])'
    <3>1. CASE o = opt.name
      <4>1. out'[o] = AsInt(options[n + 1].val)
        BY <2>1, <2>3, <3>1 DEF Types
      <4>2. n + 1 \in 1..n' /\ \A j \in 1..n' : j <= n + 1
        BY <1>0, <2>1
      <4> QED BY <2>1, <3>1, <4>1, <4>2 DEF Latest
    <3>2. CASE o # opt.name
      <4>1. out'[o] = out[o]
        BY <2>1, <3>2 DEF Types
      <4>2. Latest(o, out[o])
        BY <2>1 DEF Stored, Frame
      <4>3. \A k \in 1..n' : k \in 1..n \/ options[k].name # o
        BY <1>0, <2>1, <3>2
      <4>4. 1..n \subseteq 1..n'
        BY <1>0, <2>1
      <4> QED BY <2>1, <4>1, <4>2, <4>3, <4>4 DEF Latest
    <3> QED BY <3>1, <3>2
  <2> QED BY <2>1, <2>5, <2>6, <2>7 DEF Stored, Frame, Names
<1>3. CASE Refuse
  <2>1. UNCHANGED <<options, n, out>> /\ status' = "einval"
    BY <1>3 DEF Refuse
  <2>2. Types' /\ Progress'
    BY <1>3, <2>1 DEF Types, Progress, Refuse, Current
  <2> QED BY <2>1, <2>2 DEF Stored, Frame
<1>4. CASE Finish
  <2>1. /\ status = "parsing" /\ n = Len(options)
        /\ status' = "ok" /\ UNCHANGED <<options, n>>
        /\ out' = IF out["f"] = 0
                  THEN [out EXCEPT !["f"] = FrameOf(out["r"], out["c"])]
                  ELSE out
    BY <1>4 DEF Finish
  <2>2. out["r"] \in Int /\ out["c"] \in Int /\ out["f"] \in Ints
    BY DEF Types, Ints, Names
  <2>3. FrameOf(out["r"], out["c"]) \in Ints
    BY <2>2, FrameFits DEF Ints
  <2>4. out' \in [Names -> Ints]
    BY <2>1, <2>3 DEF Types
  <2>5. \A o \in Names \ {"f"} : out'[o] = out[o]
    BY <2>1 DEF Types
  <2>6. out'["f"] = IF out["f"] = 0 THEN FrameOf(out["r"], out["c"])
                    ELSE out["f"]
    BY <2>1 DEF Types, Names
  <2>7. \A o, v : Latest(o, v)' <=> Latest(o, v)
    BY <2>1 DEF Latest
  <2>8. Types' /\ Progress'
    BY <2>1, <2>4 DEF Types, Progress
  <2>9. Stored'
    BY <2>1, <2>5, <2>7 DEF Stored
  <2>10. Latest("f", out["f"])
    BY <2>1 DEF Frame
  <2>11. Frame'
    <3>1. out'["r"] = out["r"] /\ out'["c"] = out["c"]
      BY <2>5 DEF Names
    <3> QED BY <2>1, <2>2, <2>6, <2>10, <3>1 DEF Frame, Latest
  <2> QED BY <2>8, <2>9, <2>11
<1>5. CASE Returned \/ UNCHANGED vars
  BY <1>5 DEF Returned, vars, Types, Progress, Stored, Frame, Latest
<1> QED BY <1>1, <1>2, <1>3, <1>4, <1>5 DEF Next

(* The invariant: the variables hold what the last option of each name     *)
(* said, or the default.                                                   *)
THEOREM Inductive == Spec => []IInv
<1> QED BY Initially, StepKeeps, PTL DEF Spec

(* The last option of a name counts.                                       *)
THEOREM LastTheorem == Spec => []LastWins
<1>1. IInv => LastWins
  <2> SUFFICES ASSUME IInv, status = "ok", NEW o \in Names \ {"f"}
               PROVE  IF Given(o) = {}
                      THEN out[o] = Defaults[o]
                      ELSE \E k \in Given(o) :
                              /\ \A j \in Given(o) : j <= k
                              /\ options[k].val \in (-INT_MAX - 1)..INT_MAX
                                    => out[o] = options[k].val
    BY DEF LastWins
  <2>1. n = Len(options) /\ Latest(o, out[o]) /\ o # "f"
    BY DEF IInv, Progress, Stored
  <2>2. CASE \A k \in 1..n : options[k].name # o
    <3>1. Given(o) = {}
      BY <2>1, <2>2 DEF Given
    <3>2. out[o] = Defaults[o]
      BY <2>1, <2>2 DEF Latest
    <3> QED BY <3>1, <3>2
  <2>3. CASE \E k \in 1..n : options[k].name = o
    <3>1. PICK k \in 1..n :
              /\ options[k].name = o
              /\ \A j \in 1..n : options[j].name = o => j <= k
              /\ out[o] = AsInt(options[k].val)
      BY <2>1, <2>3 DEF Latest
    <3>2. k \in Given(o) /\ \A j \in Given(o) : j <= k
      BY <2>1, <3>1 DEF Given
    <3>3. options[k].val \in Int
      BY <2>1, OptionFields DEF IInv, Types
    <3>4. options[k].val \in (-INT_MAX - 1)..INT_MAX
             => out[o] = options[k].val
      BY <3>1, <3>3, AsIntFits
    <3> QED BY <3>2, <3>4
  <2> QED BY <2>2, <2>3
<1> QED BY <1>1, Inductive, PTL

(* Without a frame size, a frame lasts 20 ms.                              *)
THEOREM FrameTheorem == Spec => []FrameOf20ms
<1>1. IInv => FrameOf20ms
  <2> SUFFICES ASSUME IInv, status = "ok", FrameDefaults,
                      InOneSecond \in 0..(INT_MAX \div 20)
               PROVE  InOneSecond * 20 - out["f"] * 1000 \in 0..999
    BY DEF FrameOf20ms
  <2>1. n = Len(options)
    BY DEF IInv, Progress
  <2>2. PICK v \in Ints :
            /\ Latest("f", v)
            /\ out["f"] = IF v = 0 THEN FrameOf(out["r"], out["c"]) ELSE v
    BY DEF IInv, Frame
  <2>3. v = 0
    <3>1. CASE \A k \in 1..n : options[k].name # "f"
      BY <2>2, <3>1 DEF Latest
    <3>2. CASE \E k \in 1..n : options[k].name = "f"
      <4>1. PICK k \in 1..n :
                /\ options[k].name = "f"
                /\ \A j \in 1..n : options[j].name = "f" => j <= k
                /\ v = AsInt(options[k].val)
        BY <2>2, <3>2 DEF Latest
      <4>2. PICK m \in Given("f") :
                options[m].val = 0 /\ \A j \in Given("f") : j <= m
        BY <2>1, <4>1 DEF FrameDefaults, Given
      <4>3. m = k
        BY <2>1, <4>1, <4>2 DEF Given
      <4>4. AsInt(0) = 0
        BY AsIntFits, IntMaxAssumption
      <4> QED BY <4>1, <4>2, <4>3, <4>4
    <3> QED BY <3>1, <3>2
  <2> DEFINE p == out["r"] * out["c"]
  <2>4. p \in Int /\ p >= 0 /\ p * 20 <= INT_MAX
    BY IntMaxAssumption DEF InOneSecond
  <2> HIDE DEF p
  <2>5. AsInt(p) = p /\ AsInt(p * 20) = p * 20
    BY <2>4, AsIntFits, IntMaxAssumption
  <2>6. FrameOf(out["r"], out["c"]) = Quotient(AsInt(AsInt(p) * 20), 1000)
    BY DEF FrameOf, p
  <2>7. out["f"] = (p * 20) \div 1000
    BY <2>2, <2>3, <2>4, <2>5, <2>6 DEF Quotient
  <2>8. p * 20 - ((p * 20) \div 1000) * 1000 \in 0..999
    BY <2>4
  <2> QED BY <2>7, <2>8 DEF InOneSecond, p
<1> QED BY <1>1, Inductive, PTL

(* Exactly the bad command lines are refused.                              *)
THEOREM RefusalTheorem == Spec => []RefusesOnlyBad
<1>1. IInv => RefusesOnlyBad
  BY DEF IInv, Progress, RefusesOnlyBad
<1> QED BY <1>1, Inductive, PTL
=============================================================================
