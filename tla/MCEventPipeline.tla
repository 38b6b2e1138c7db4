--------------------------- MODULE MCEventPipeline ---------------------------
(* A small instance of EventFlow, and of the schema registry with two fields. *)
(* One of the two runs, the other stays in its initial state: neither reads   *)
(* the state of the other, and their product would show no more.              *)
EXTENDS EventFlow, SchemaRegistry

CONSTANTS m1, m2, w1, w2, r1, enrollment_id, enrolled_at

\* A row is stored once, and once more for each fault: the partition is never full.
ASSUME LogAssumption == MaxLog >= Cardinality(Keys) * (1 + MaxFaults)

UserEnrolled == [fields |-> [f \in {enrollment_id, enrolled_at} |-> "str"],
                 required |-> {enrollment_id}]

allVars == <<flowVars, schemaVars>>

AllInit == FlowInit /\ SchemaInit

AllNext ==
    \/ SchemaInit /\ FlowNext /\ UNCHANGED schemaVars
    \/ FlowInit /\ SchemaNext /\ UNCHANGED flowVars

AllSpec ==
    /\ AllInit /\ [][AllNext]_allVars
    /\ Relay!Fairness /\ Fairness /\ PipelineFairness
==============================================================================
