---------------------------- MODULE Phone_proofs ----------------------------
(* The safety of the phone, for every length of a session at its prompt    *)
(* and whatever requests the network loses.                                *)
EXTENDS Phone, TLAPS

LEMMA Initially == Init => IInv
  BY DEF Init, AccInit, IInv, TypeOK, AccTypeOK

(* main()'s own steps. *)
LEMMA MainKeeps == IInv /\ Main => IInv'
<1> SUFFICES ASSUME IInv, Main PROVE IInv'
  OBVIOUS
<1> USE DEF IInv, TypeOK, AccTypeOK, accVars
<1>1. CASE SetUp
  BY <1>1 DEF SetUp
<1>2. CASE AccAdd
  <2>1. request = "none" /\ UNCHANGED <<input, stdin, typed>>
    BY <1>2 DEF AccAdd
  <2>2. CASE pc' = "scanf" /\ SetRegistration(TRUE)
    <3>1. /\ want' = TRUE /\ request' = "register" /\ arrived' = FALSE
          /\ bound' = bound
      BY <2>1, <2>2 DEF SetRegistration, Sends
    <3> QED BY <2>1, <2>2, <3>1
  <2>3. CASE pc' = "exit0" /\ UNCHANGED accVars
    BY <1>2, <2>1, <2>3 DEF AccAdd
  <2> QED BY <1>2, <2>2, <2>3 DEF AccAdd
<1>3. CASE ReadNumber
  BY <1>3 DEF ReadNumber
<1>4. CASE ReadNothing
  BY <1>4 DEF ReadNothing
<1>5. CASE Set
  <2>1. pc = "set" /\ pc' = "scanf" /\ UNCHANGED <<input, stdin, typed>>
    BY <1>5 DEF Set
  <2>2. CASE request = "none"
    <3>1. /\ want' = input /\ arrived' = FALSE /\ bound' = bound
          /\ request' = IF input THEN "register" ELSE "unregister"
      BY <1>5, <2>2 DEF Set, SetRegistration, Sends
    <3> QED BY <2>1, <3>1
  <2>3. CASE request # "none"
    BY <1>5, <2>1, <2>3 DEF Set, SetRegistration
  <2> QED BY <2>2, <2>3
<1> QED BY <1>1, <1>2, <1>3, <1>4, <1>5 DEF Main

LEMMA StepKeeps == IInv /\ [Next]_vars => IInv'
<1> SUFFICES ASSUME IInv, [Next]_vars PROVE IInv'
  OBVIOUS
<1> USE DEF IInv, TypeOK, AccTypeOK, Unattended
<1>1. CASE Main
  BY <1>1, MainKeeps
<1>2. CASE AutoRenew
  BY <1>2 DEF AutoRenew, Renew, Sends
<1>3. CASE BindingLapses
  BY <1>3 DEF BindingLapses, Lapse
<1>4. CASE Network
  <2>1. CASE Arrive /\ Unattended
    BY <2>1 DEF Arrive
  <2>2. CASE Conclude /\ Unattended
    BY <2>2 DEF Conclude
  <2> QED BY <1>4, <2>1, <2>2 DEF Network
<1>5. CASE UNCHANGED vars
  BY <1>5 DEF vars, accVars
<1> QED BY <1>1, <1>2, <1>3, <1>4, <1>5 DEF Next, Gone

(* When no number can be read, `input' is still the last number typed; a   *)
(* request under way asks for what the account wants; and there is no      *)
(* request and no binding without an account.                              *)
THEOREM Inductive == Spec => []IInv
<1> QED BY Initially, StepKeeps, PTL DEF Spec

(* The account is changed only by main() and then to what was typed last:  *)
(* neither a timer, the network nor a failed scanf changes its mind.       *)
MindFollowsTyped ==
    [][want' # want =>
          \/ pc = "acc_add" /\ want'
          \/ pc = "set" /\ (want' <=> input)
             /\ (typed # "none" => (want' <=> typed = "1"))]_vars

(* The account changes its mind at the prompt only, and as it was told.    *)
THEOREM MindTheorem == Spec => MindFollowsTyped
<1> DEFINE Step == want' # want =>
          \/ pc = "acc_add" /\ want'
          \/ pc = "set" /\ (want' <=> input)
             /\ (typed # "none" => (want' <=> typed = "1"))
<1>1. IInv /\ [Next]_vars => [Step]_vars
  <2> SUFFICES ASSUME IInv, Next, want' # want PROVE Step
    BY DEF vars
  <2>1. CASE AccAdd
    BY <2>1 DEF AccAdd, SetRegistration, accVars, IInv, TypeOK, AccTypeOK
  <2>2. CASE Set
    BY <2>2 DEF Set, SetRegistration, accVars, IInv, TypeOK, AccTypeOK
  <2>3. CASE SetUp \/ ReadNumber \/ ReadNothing
    BY <2>3 DEF SetUp, ReadNumber, ReadNothing, accVars
  <2>4. CASE AutoRenew \/ BindingLapses \/ Network \/ Gone
    BY <2>4 DEF AutoRenew, Renew, BindingLapses, Lapse, Network, Arrive,
                Conclude, Gone, vars, accVars
  <2> QED BY <2>1, <2>2, <2>3, <2>4 DEF Next, Main
<1> QED BY <1>1, Inductive, PTL DEF Spec, MindFollowsTyped

(* Once no number can be read and the account is as the last one said, it  *)
(* stays so, whatever is refused, lost or timed out: the safety half of    *)
(* LastNumberHolds.                                                        *)
LastNumberStays ==
    [][/\ stdin = "stuck" => stdin' = "stuck" /\ input' = input
       /\ stdin = "stuck" /\ want = input => want' = input']_vars

(* Nothing but a new number changes an account that has followed the last. *)
THEOREM StaysTheorem == Spec => LastNumberStays
<1> DEFINE Early == pc \in {"init", "acc_add"} => stdin = "open"
           Stays == /\ stdin = "stuck" => stdin' = "stuck" /\ input' = input
                    /\ stdin = "stuck" /\ want = input => want' = input'
<1>1. Init => Early
  BY DEF Init
<1>2. IInv /\ Early /\ [Next]_vars => Early' /\ [Stays]_vars
  <2> SUFFICES ASSUME IInv, Early, [Next]_vars PROVE Early' /\ Stays
    OBVIOUS
  <2>1. CASE SetUp \/ AccAdd
    BY <2>1 DEF SetUp, AccAdd
  <2>2. CASE Set
    BY <2>2 DEF Set, SetRegistration, accVars
  <2>3. CASE ReadNumber \/ ReadNothing
    BY <2>3 DEF ReadNumber, ReadNothing, accVars
  <2>4. CASE AutoRenew \/ BindingLapses \/ Network \/ Gone
    BY <2>4 DEF AutoRenew, Renew, BindingLapses, Lapse, Network, Arrive,
                Conclude, Unattended, Gone, vars, accVars
  <2>5. CASE UNCHANGED vars
    BY <2>5 DEF vars, accVars
  <2> QED BY <2>1, <2>2, <2>3, <2>4, <2>5 DEF Next, Main
<1> QED BY <1>1, <1>2, Inductive, PTL DEF Spec, LastNumberStays
=============================================================================
