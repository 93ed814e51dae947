-------------------------- MODULE MCScalerProcess --------------------------
(* Values for the constants of ScalerProcess. *)
EXTENDS ScalerProcess

ThreeProfiles ==
  [names |-> <<"LOW", "MEDIUM", "HIGH">>,
   cpu |-> [LOW |-> "330m", MEDIUM |-> "800m", HIGH |-> "1600m"],
   memory |-> [LOW |-> "2Gi", MEDIUM |-> "3Gi", HIGH |-> "4Gi"],
   queueThresholds |-> [LOW |-> 0, MEDIUM |-> 2, HIGH |-> 5],
   rateThresholds |-> [LOW |-> 0, MEDIUM |-> 1, HIGH |-> 3],
   scaleUpDebounce |-> 1, scaleDownDebounce |-> 3, checkInterval |-> 1]

(* No queues, an idle broker, a backlog, and a burst of publishes. *)
AllLoads == {[depths |-> depths, rate |-> 0] : depths \in {{}, {0, 1}, {3}}}
              \cup {[depths |-> {0}, rate |-> 4]}
=============================================================================
