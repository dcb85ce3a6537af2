----------------------------- MODULE Construction -----------------------------
(***************************************************************************)
(* What whoever constructs an event sees of it, the probing and the files left  *)
(* out: the constructor returns an event that is available somewhere, or it     *)
(* fails in one of a few ways, and that stays so.  An event that exists is      *)
(* never taken back, though a later check may find it unavailable.              *)
(* EventProbe and SysfsProbe implement this; EventResolver calls it.            *)
(***************************************************************************)
CONSTANT Failures    \* the ways the constructor may throw

VARIABLES outcome,   \* "pending", "ok" or a failure
          usable     \* the event is available somewhere, as last checked

kvars == <<outcome, usable>>

KInit == outcome = "pending" /\ usable = FALSE

Succeed ==
  /\ outcome = "pending"
  /\ outcome' = "ok" /\ usable' = TRUE

Fail ==
  /\ outcome = "pending"
  /\ outcome' \in Failures /\ UNCHANGED usable

\* event_is_openable, called again.
Check ==
  /\ outcome = "ok"
  /\ usable' \in BOOLEAN /\ UNCHANGED outcome

KNext == Succeed \/ Fail \/ Check

KSpec == KInit /\ [][KNext]_kvars
=============================================================================
