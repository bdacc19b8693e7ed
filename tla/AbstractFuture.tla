--------------------------- MODULE AbstractFuture ---------------------------
(***************************************************************************)
(* What Promise/Future promise: one outcome, delivered either to the       *)
(* caller of get()/wait_for() or, if it is a value, to one callback.       *)
(***************************************************************************)
VARIABLES
  outcome,    \* "none", "value" or "exception"
  callback,   \* "none", "registered" or "fired"
  answer      \* what get()/wait_for() has returned or thrown

avars == <<outcome, callback, answer>>

AInit == outcome = "none" /\ callback = "none" /\ answer = "none"

Resolve ==
  /\ outcome = "none"
  /\ outcome' \in {"value", "exception"}
  /\ UNCHANGED <<callback, answer>>

Register ==
  /\ callback = "none" /\ answer = "none"
  /\ callback' = "registered"
  /\ UNCHANGED <<outcome, answer>>

Fire ==
  /\ callback = "registered" /\ outcome = "value"
  /\ callback' = "fired"
  /\ UNCHANGED <<outcome, answer>>

Answer ==
  /\ outcome # "none" /\ callback = "none" /\ answer = "none"
  /\ answer' = outcome
  /\ UNCHANGED <<outcome, callback>>

ANext == Resolve \/ Register \/ Fire \/ Answer

ASafety == AInit /\ [][ANext]_avars

\* A callback whose value has arrived is called.
ASpec == ASafety /\ WF_avars(Fire)
=============================================================================
