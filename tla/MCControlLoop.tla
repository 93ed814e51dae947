---------------------------- MODULE MCControlLoop ----------------------------
(* Values for the constants of ControlLoop. *)
EXTENDS ControlLoop, TLC

Thresholds(low, medium, high) ==
  [p \in {"LOW", "MEDIUM", "HIGH"} |->
     CASE p = "LOW" -> low [] p = "MEDIUM" -> medium [] p = "HIGH" -> high]

(* Three profiles, scale-up after 1 second and scale-down after 3. *)
ThreeProfiles ==
  [names |-> <<"LOW", "MEDIUM", "HIGH">>,
   cpu |-> [LOW |-> "330m", MEDIUM |-> "800m", HIGH |-> "1600m"],
   memory |-> [LOW |-> "2Gi", MEDIUM |-> "3Gi", HIGH |-> "4Gi"],
   queueThresholds |-> Thresholds(0, 2, 5),
   rateThresholds |-> Thresholds(0, 1, 3),
   scaleUpDebounce |-> 1, scaleDownDebounce |-> 3, checkInterval |-> 1]

TwoProfiles ==
  [names |-> <<"LOW", "HIGH">>,
   cpu |-> [LOW |-> "330m", HIGH |-> "1600m"],
   memory |-> [LOW |-> "2Gi", HIGH |-> "4Gi"],
   queueThresholds |-> [LOW |-> 0, HIGH |-> 5],
   rateThresholds |-> [LOW |-> 0, HIGH |-> 3],
   scaleUpDebounce |-> 2, scaleDownDebounce |-> 3, checkInterval |-> 1]

(* The same, with windows long enough for two copies of the scaler. *)
LongWindows == [TwoProfiles EXCEPT !.scaleUpDebounce = 3]

Sample(ok, depths, rate) == [overviewOK |-> ok, depths |-> depths, rate |-> rate]

(* An idle broker, a backlog of every size, a publish burst, and the two ways
   of having no metrics. *)
AllSamples ==
  { Sample(TRUE, {0}, 0), Sample(TRUE, {0, 3}, 0), Sample(TRUE, {6}, 2), Sample(TRUE, {0}, 4),
    Sample(FALSE, {}, 0), Sample(TRUE, {}, 0) }

(* Somebody writes resources that are no profile's. *)
ForeignResources == {[cpu |-> "500m", memory |-> "1Gi"]}

(* The copies of the scaler run the same program on the same configuration. *)
Copies == Permutations(Scalers)

(* The clock has reached its bound: the run stops here and nowhere else. *)
AtHorizon == clock = MaxTime /\ UNCHANGED vars

MCSpec == Init /\ [][Next \/ AtHorizon]_vars
==============================================================================
