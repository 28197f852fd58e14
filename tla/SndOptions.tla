----------------------------- MODULE SndOptions -----------------------------
(***************************************************************************)
(* get_snd_options() of util.h: the options of the command line that       *)
(* describe the sound device, one after the other, into the variables of   *)
(* the caller.  The argument of a good option is a number that strtol read *)
(* to its end (an empty one is 0).  A bad option has another argument or   *)
(* none, or a name that is not known.                                      *)
(***************************************************************************)
EXTENDS Integers, Sequences

CONSTANTS
    Values,      \* the numbers given
    MaxOptions,  \* bound: options on the command line
    INT_MAX      \* the largest int

ASSUME ValuesAssumption == Values \subseteq Int
ASSUME MaxOptionsAssumption == MaxOptions \in Nat
(* The caller's own default rate is an int. *)
ASSUME IntMaxAssumption == INT_MAX \in Nat /\ INT_MAX >= 44100

(* --dev, --rate, --channel, --frame and --bit. *)
Names == {"d", "r", "c", "f", "b"}
Options == [name : Names, val : Values, good : {TRUE}]
           \cup [name : Names \cup {"?"}, val : {0}, good : {FALSE}]

VARIABLES
    options,  \* what pj_getopt_long finds on the command line
    n,        \* options parsed
    out,      \* the caller's variables
    status    \* "called", "parsing", "ok" or "einval"

vars == <<options, n, out, status>>

(* What a caller hands in: the defaults SND_USAGE names. *)
Defaults ==
    [o \in Names |->
        CASE o = "d" -> -1
          [] o = "r" -> 44100
          [] o = "c" -> 1
          [] o = "f" -> (44100 * 20) \div 1000
          [] o = "b" -> 16]

Init ==
    /\ options \in UNION {[1..k -> Options] : k \in 0..MaxOptions}
    /\ n = 0
    /\ out = Defaults
    /\ status = "called"

(* A long, or the result of an int multiplication, in an int. *)
AsInt(v) == ((v + INT_MAX + 1) % (2 * INT_MAX + 2)) - INT_MAX - 1

(* Division in C rounds towards zero. *)
Quotient(a, b) == IF a >= 0 THEN a \div b ELSE -((-a) \div b)

FrameOf(rate, channels) ==
    Quotient(AsInt(AsInt(rate * channels) * 20), 1000)

(* samples_per_frame does not keep the caller's value. *)
Begin ==
    /\ status = "called"
    /\ status' = "parsing"
    /\ out' = [out EXCEPT !["f"] = 0]
    /\ UNCHANGED <<options, n>>

Current == options[n + 1]

(* A slip: the default frame is computed when the rate is known. *)
SetEarly ==
    /\ status = "parsing" /\ n < Len(options)
    /\ Current.good
    /\ LET v == AsInt(Current.val)
       IN  out' = IF Current.name = "r" /\ out["f"] = 0
                  THEN [out EXCEPT !["r"] = v, !["f"] = FrameOf(v, out["c"])]
                  ELSE [out EXCEPT ![Current.name] = v]
    /\ n' = n + 1
    /\ UNCHANGED <<options, status>>

(* A slip: the first occurrence wins. *)
SetOnce ==
    /\ status = "parsing" /\ n < Len(options)
    /\ Current.good
    /\ out' = IF \E k \in 1..n : options[k].name = Current.name
              THEN out
              ELSE [out EXCEPT ![Current.name] = AsInt(Current.val)]
    /\ n' = n + 1
    /\ UNCHANGED <<options, status>>

Set ==
    /\ status = "parsing" /\ n < Len(options)
    /\ Current.good
    /\ out' = [out EXCEPT ![Current.name] = AsInt(Current.val)]
    /\ n' = n + 1
    /\ UNCHANGED <<options, status>>

(* A slip: a bad option is passed over. *)
RefusePasses ==
    /\ status = "parsing" /\ n < Len(options)
    /\ ~Current.good
    /\ n' = n + 1
    /\ UNCHANGED <<options, out, status>>

Refuse ==
    /\ status = "parsing" /\ n < Len(options)
    /\ ~Current.good
    /\ status' = "einval"
    /\ UNCHANGED <<options, n, out>>

Finish ==
    /\ status = "parsing" /\ n = Len(options)
    /\ status' = "ok"
    /\ out' = IF out["f"] = 0
              THEN [out EXCEPT !["f"] = FrameOf(out["r"], out["c"])]
              ELSE out
    /\ UNCHANGED <<options, n>>

Returned == status \in {"ok", "einval"} /\ UNCHANGED vars

Next == Begin \/ Set \/ Refuse \/ Finish \/ Returned

Spec == Init /\ [][Next]_vars /\ WF_vars(Begin \/ Set \/ Refuse \/ Finish)

-----------------------------------------------------------------------------
Given(o) == {k \in 1..Len(options) : options[k].name = o}

(* The last option of a name is the one that counts, wherever it stands    *)
(* among the others; without one, the caller's default counts.  (If it     *)
(* fits: other numbers are cut to their low bits.)                         *)
LastWins ==
    status = "ok" =>
        \A o \in Names \ {"f"} :
            IF Given(o) = {}
            THEN out[o] = Defaults[o]
            ELSE \E k \in Given(o) :
                    /\ \A j \in Given(o) : j <= k
                    /\ options[k].val \in (-INT_MAX - 1)..INT_MAX
                          => out[o] = options[k].val

(* "(default equival 20ms)": without --frame, or with a last --frame of 0, *)
(* a frame lasts 20 ms at the rate and channel count that were given,      *)
(* before --frame or after it; less than a sample is lost.  (If the        *)
(* samples of 20 seconds can be counted at all.)                           *)
FrameDefaults ==
    \/ Given("f") = {}
    \/ \E k \in Given("f") : options[k].val = 0 /\ \A j \in Given("f") : j <= k
InOneSecond == out["r"] * out["c"]
FrameOf20ms ==
    (status = "ok" /\ FrameDefaults /\ InOneSecond \in 0..(INT_MAX \div 20)) =>
        InOneSecond * 20 - out["f"] * 1000 \in 0..999

(* A refusal is for an argument that deserves it, and everything before it *)
(* was in order; a command line without one is accepted.                   *)
RefusesOnlyBad ==
    /\ status = "einval" =>
          /\ ~options[n + 1].good
          /\ \A k \in 1..n : options[k].good
    /\ status = "ok" =>
          \A k \in 1..Len(options) : options[k].good
=============================================================================
