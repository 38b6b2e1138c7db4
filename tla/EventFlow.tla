------------------------------- MODULE EventFlow -------------------------------
(***************************************************************************)
(* The way of a user.enrolled event through all processes: the row that the  *)
(* enrollment has committed to the outbox, the replicas of the relay         *)
(* (OutboxRelay), the partition, the bridge consumer and the Celery workers  *)
(* (WelcomePipeline).  The relay and the bridge share the partition, log,    *)
(* and nothing else: what the relay stores is what the bridge is given.      *)
(***************************************************************************)
EXTENDS WelcomePipeline

CONSTANTS Relays, BatchSize, MaxFaults

\* An outbox row is one event: its id stands for its key as well.
ASSUME FlowAssumption ==
    /\ Keys \subseteq Nat /\ IsFiniteSet(Keys)
    /\ BatchSize \in Nat \ {0} /\ MaxFaults \in Nat

VARIABLES outbox, sent, claim, pending, stray, faults

Relay == INSTANCE OutboxRelay WITH Rows <- Keys

relayState == <<outbox, sent, claim, pending, stray, faults>>
flowVars   == <<pipelineVars, relayState>>

FlowInit == PipelineInit /\ Relay!Init

\* A row is staged, or a replica of the relay takes a step.
Upstream ==
    /\ Relay!Next
    /\ Len(log') <= MaxLog
    /\ UNCHANGED <<groupVars, queueVars>>

\* The bridge or a worker takes a step.
Downstream == PipelineStep /\ UNCHANGED relayState

FlowNext == Upstream \/ Downstream

\* Every process is scheduled as it is on its own.
FlowSpec ==
    /\ FlowInit /\ [][FlowNext]_flowVars
    /\ Relay!Fairness /\ Fairness /\ PipelineFairness

-----------------------------------------------------------------------------
Flow ==
    INSTANCE Delivery WITH
        Items <- Keys, LossAllowed <- TRUE,
        accepted <- outbox, delivered <- Mailed, lost <- gaveUp \ Mailed

\* A welcome e-mail goes out, or is given up, only for an enrollment whose event
\* was committed with it, whatever fails in the relay, the bridge or a worker and
\* however often messages are repeated.
OnlyEnrolledAreMailed == Flow!Safety

\* Every committed enrollment is followed by its e-mail, or by a task that was
\* given up; only an exception in the handler of the bridge can keep the event
\* from the queue of the workers (welcome_email_consumer.py:143).
EnrolledAreSettled ==
    \A k \in Keys :
        k \in outbox ~> Flow!Settled(k) \/ (failures > 0 /\ effects[k] = 0)

-----------------------------------------------------------------------------
\* The inductive invariant of WelcomePipelineProofs for the whole way: what was
\* enqueued is in the partition, and what is there was committed.
EffectsAreLogged == \A k \in Keys : effects[k] > 0 => k \in Relay!Logged

FlowInv == Relay!TypeOK /\ Relay!OnlyStaged /\ EffectsAreLogged
=============================================================================
