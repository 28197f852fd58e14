----------------------------- MODULE Registrar -----------------------------
(***************************************************************************)
(* An account of PJSUA and its registrar, as pjsua_phone.c uses them.  A   *)
(* request is under way until it is answered or given up; while one is, a  *)
(* new one is refused (PJSIP_EBUSY).  Requests and answers may be lost.    *)
(* As long as the account is to be registered it asks again, to refresh or *)
(* to retry.  A binding that is not refreshed lapses.                      *)
(***************************************************************************)

VARIABLES
    want,     \* the account is to be registered
    request,  \* what is under way: "none", "register" or "unregister"
    arrived,  \* it has reached the registrar
    bound     \* the registrar's binding

accVars == <<want, request, arrived, bound>>

AccInit ==
    /\ want = FALSE /\ request = "none" /\ arrived = FALSE /\ bound = FALSE

AccTypeOK ==
    /\ want \in BOOLEAN /\ arrived \in BOOLEAN /\ bound \in BOOLEAN
    /\ request \in {"none", "register", "unregister"}

Sends(r) == request' = r /\ arrived' = FALSE /\ UNCHANGED bound

(* pjsua_acc_set_registration. *)
SetRegistration(renew) ==
    IF request = "none"
    THEN /\ want' = renew
         /\ Sends(IF renew THEN "register" ELSE "unregister")
    ELSE UNCHANGED accVars

(* The refresh before the binding lapses, and the retry after a failure.   *)
Renew ==
    /\ want /\ request = "none"
    /\ Sends("register")
    /\ UNCHANGED want

Arrive ==
    /\ request # "none" /\ ~arrived
    /\ arrived' = TRUE
    /\ bound' = (request = "register")
    /\ UNCHANGED <<want, request>>

(* The answer comes, or the transaction times out. *)
Conclude ==
    /\ request # "none"
    /\ request' = "none" /\ arrived' = FALSE
    /\ UNCHANGED <<want, bound>>

Lapse ==
    /\ bound
    /\ bound' = FALSE
    /\ UNCHANGED <<want, request, arrived>>
=============================================================================
