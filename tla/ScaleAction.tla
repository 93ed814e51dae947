---------------------------- MODULE ScaleAction ----------------------------
(***************************************************************************)
(* What the control loop relies on when it applies a profile: an attempt   *)
(* is at one size, and either it records exactly that size in a single     *)
(* last step, or it is abandoned and what was recorded stays.  ControlLoop *)
(* takes applyResources for one such step; InPlaceResize, where it is a    *)
(* dozen API calls, implements this specification.                         *)
(***************************************************************************)
CONSTANT
  Sizes      \* what a profile requests

VARIABLES
  recorded,  \* what the RabbitmqCluster requests
  attempt    \* the size being applied: none or one

vars == <<recorded, attempt>>

Init == recorded \in Sizes /\ attempt = {}

Begin ==
  /\ attempt = {}
  /\ \E size \in Sizes : attempt' = {size}
  /\ UNCHANGED recorded

Record == recorded' \in attempt /\ attempt' = {}

(* A call has failed, or the process has died. *)
Abandon ==
  /\ attempt # {} /\ attempt' = {}
  /\ UNCHANGED recorded

Next == Begin \/ Record \/ Abandon

Spec == Init /\ [][Next]_vars
============================================================================
