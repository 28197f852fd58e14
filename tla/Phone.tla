------------------------------- MODULE Phone -------------------------------
(***************************************************************************)
(* main() of pjsua_phone.c: it adds an account, which registers it, and    *)
(* then obeys numbers typed on stdin, for ever.  The result of scanf is    *)
(* not looked at: when no number can be read, `input' still holds the last *)
(* one (or, before the first, whatever it held), and since the text that   *)
(* is no number stays where it is, so it goes on.                          *)
(***************************************************************************)
EXTENDS Registrar

VARIABLES
    pc,      \* "init", "acc_add", "scanf", "set" or "exit0"
    input,   \* whether `input' is other than 0
    stdin,   \* "open", or "stuck" at a text or at the end of the input
    typed    \* the last number typed, for the properties: "none", "0", "1"

vars == <<pc, input, stdin, typed, accVars>>

Init ==
    /\ pc = "init"
    /\ input \in BOOLEAN
    /\ stdin = "open" /\ typed = "none"
    /\ AccInit

(* The statuses of setting up PJSUA and its transport are not looked at;   *)
(* without them there is no account to add.                                *)
SetUp == pc = "init" /\ pc' = "acc_add"
         /\ UNCHANGED <<input, stdin, typed, accVars>>

AccAdd ==
    /\ pc = "acc_add"
    /\ \/ pc' = "scanf" /\ SetRegistration(TRUE)
       \/ pc' = "exit0" /\ UNCHANGED accVars
    /\ UNCHANGED <<input, stdin, typed>>

ReadNumber ==
    /\ pc = "scanf" /\ stdin = "open"
    /\ input' \in BOOLEAN
    /\ typed' = IF input' THEN "1" ELSE "0"
    /\ pc' = "set"
    /\ UNCHANGED <<stdin, accVars>>

(* A slip: `input' is cleared before scanf is called. *)
ReadNothingClears ==
    /\ pc = "scanf"
    /\ stdin' = "stuck" /\ input' = FALSE
    /\ pc' = "set"
    /\ UNCHANGED <<typed, accVars>>

(* scanf returns at once, and `input' is what it was. *)
ReadNothing ==
    /\ pc = "scanf"
    /\ stdin' = "stuck"
    /\ pc' = "set"
    /\ UNCHANGED <<input, typed, accVars>>

(* A slip: the two branches swapped, as the prompt has it. *)
SetSwapped ==
    /\ pc = "set"
    /\ SetRegistration(~input)
    /\ pc' = "scanf"
    /\ UNCHANGED <<input, stdin, typed>>

(* Non-zero registers; the status is not looked at. *)
Set ==
    /\ pc = "set"
    /\ SetRegistration(input)
    /\ pc' = "scanf"
    /\ UNCHANGED <<input, stdin, typed>>

Unattended == UNCHANGED <<pc, input, stdin, typed>>

(* Slips: nothing is retried; no timeout is asked for. *)
AutoRenewNever == FALSE /\ Renew /\ Unattended
BindingStays == FALSE /\ Lapse /\ Unattended

(* reg_timeout and reg_retry_interval: the account renews, the registrar   *)
(* forgets after the time it was asked for.                                *)
AutoRenew == Renew /\ Unattended

BindingLapses == Lapse /\ Unattended

Network == (Arrive \/ Conclude) /\ Unattended

Gone == pc = "exit0" /\ UNCHANGED vars

Main == SetUp \/ AccAdd \/ ReadNumber \/ ReadNothing \/ Set

Next == Main \/ AutoRenew \/ BindingLapses \/ Network \/ Gone

(* Nobody has to type.  Transactions conclude; the network does not lose   *)
(* requests for ever.  With stdin stuck main() calls without a pause,      *)
(* while a renewal comes seconds after the last request was concluded, so  *)
(* now and then a whole round of main()'s loop falls between the two.      *)
Spec == /\ Init /\ [][Next]_vars
        /\ WF_vars(SetUp \/ AccAdd \/ Set)
        /\ WF_vars(stdin = "stuck" /\ ReadNothing)
        /\ SF_vars(request = "none" /\ stdin = "stuck" /\ ReadNothing)
        /\ SF_vars(request = "none" /\ Set)
        /\ WF_vars(AutoRenew) /\ WF_vars(BindingLapses)
        /\ WF_vars(Conclude /\ Unattended) /\ SF_vars(Arrive /\ Unattended)

-----------------------------------------------------------------------------
(* The shape of every variable. *)
TypeOK ==
    /\ pc \in {"init", "acc_add", "scanf", "set", "exit0"}
    /\ input \in BOOLEAN
    /\ stdin \in {"open", "stuck"}
    /\ typed \in {"none", "0", "1"}
    /\ AccTypeOK

(* The inductive invariant: besides the types, `input' holds the last      *)
(* number typed, also when scanf has failed since; the request under way   *)
(* asks for what the account wants, as main()'s change of mind in the      *)
(* middle of one is refused and a timer asks only for what is wanted; and  *)
(* without an account there is neither a request nor a binding.            *)
IInv ==
    /\ TypeOK
    /\ typed # "none" => (input <=> typed = "1")
    /\ request # "none" => (request = "register" <=> want)
    /\ arrived => request # "none"
    /\ pc \in {"init", "acc_add", "exit0"} => ~want /\ request = "none" /\ ~bound

(* Once the account is left unregistered, its binding is gone for good,    *)
(* even when the request to remove it is lost: no binding outlives the     *)
(* timeout it was asked for with.                                          *)
BindingEnds == <>[](~want) => <>[](~bound)

(* While the account is left registered, its binding comes back, whatever  *)
(* the network loses.                                                      *)
BindingReturns == <>[]want => []<>bound

(* When no number can be read any more, the account ends up as the last    *)
(* number says, and stays so, although any single call may be refused.     *)
LastNumberHolds ==
    (stdin = "stuck" /\ pc # "exit0") ~> [](want = input)

(* "0 = register, 1 = un-register", the program prints: a change of mind   *)
(* is the one the number typed stands for.                                 *)
PromptObeyed ==
    [][(pc = "set" /\ stdin = "open" /\ want' # want) =>
          (want' <=> typed = "0")]_vars
=============================================================================
