----------------------------- MODULE OutboxRelay -----------------------------
(***************************************************************************)
(* The outbox relay (workers/outbox_relay.py, repositories/outbox_repo.py). *)
(*                                                                         *)
(* Each replica repeats a tick in one Postgres transaction: claim a batch   *)
(* of unsent rows with FOR UPDATE SKIP LOCKED, publish them to Kafka in     *)
(* parallel, stamp sent_at, commit.  A tick that fails rolls back; the      *)
(* sends that asyncio.gather had started go on without it.                  *)
(***************************************************************************)
EXTENDS Naturals, Sequences, FiniteSets

CONSTANTS
    Rows,       \* the ids of the outbox rows that are ever written
    Relays,     \* the replicas of the relay
    BatchSize,
    MaxFaults   \* bound: failed sends, failed commits and crashes

ASSUME RowsAssumption == Rows \subseteq Nat /\ IsFiniteSet(Rows)
ASSUME BatchAssumption == BatchSize \in Nat \ {0} /\ MaxFaults \in Nat

VARIABLES
    outbox,   \* committed rows
    sent,     \* rows with sent_at set
    claim,    \* rows locked by the open transaction of each replica
    pending,  \* of those, the rows whose send is not acknowledged yet
    stray,    \* sends left over from failed ticks, by replica and row
    log,      \* what Kafka has stored, in order
    faults

relayVars == <<sent, claim, pending, stray, faults>>
vars      == <<outbox, log, relayVars>>

TypeOK ==
    /\ outbox \subseteq Rows
    /\ sent \subseteq Rows
    /\ claim \in [Relays -> SUBSET Rows]
    /\ pending \in [Relays -> SUBSET Rows]
    /\ stray \in [Relays -> [Rows -> Nat]]
    /\ log \in Seq(Rows)
    /\ faults \in Nat

NoStray == [row \in Rows |-> 0]

Init ==
    /\ outbox = {}
    /\ sent = {}
    /\ claim = [r \in Relays |-> {}]
    /\ pending = [r \in Relays |-> {}]
    /\ stray = [r \in Relays |-> NoStray]
    /\ log = <<>>
    /\ faults = 0

\* Faulty variant: the event goes to Kafka from the transaction, which may still
\* roll back.
DualWrite(row) ==
    /\ row \notin outbox
    /\ outbox' \in {outbox, outbox \cup {row}}
    /\ log' = Append(log, row)
    /\ UNCHANGED relayVars

\* An enroll or complete_lesson transaction commits; ids are drawn before the
\* commit, so rows may appear out of id order.
Enqueue(row) ==
    /\ row \notin outbox
    /\ outbox' = outbox \cup {row}
    /\ UNCHANGED <<log, relayVars>>

-----------------------------------------------------------------------------
\* Faulty variant: no row is locked, two replicas read the same batch.
NoLock(r) == {}

LockedElsewhere(r) == UNION {claim[q] : q \in Relays \ {r}}

\* Faulty variant: a cursor on the id instead of sent_at IS NULL.
AboveLastSent(r) ==
    {row \in outbox \ LockedElsewhere(r) : \A q \in sent : q < row}

\* Rows with sent_at IS NULL that no other transaction has locked.
Claimable(r) == (outbox \ sent) \ LockedElsewhere(r)

\* ORDER BY id LIMIT BATCH_SIZE
Batch(available) ==
    {row \in available : Cardinality({q \in available : q < row}) < BatchSize}

Claim(r) ==
    /\ claim[r] = {}
    /\ Claimable(r) # {}
    /\ claim' = [claim EXCEPT ![r] = Batch(Claimable(r))]
    /\ pending' = [pending EXCEPT ![r] = Batch(Claimable(r))]
    /\ UNCHANGED <<outbox, sent, stray, log, faults>>

\* The broker stores the message and acknowledges it.
Publish(r, row) ==
    /\ row \in pending[r]
    /\ log' = Append(log, row)
    /\ pending' = [pending EXCEPT ![r] = @ \ {row}]
    /\ UNCHANGED <<outbox, sent, claim, stray, faults>>

\* Faulty variants: the sends are not awaited; only one row is stamped.
StampAtOnce(r) ==
    /\ claim[r] # {}
    /\ sent' = sent \cup claim[r]
    /\ claim' = [claim EXCEPT ![r] = {}]
    /\ UNCHANGED <<outbox, pending, stray, log, faults>>
StampOne(r) ==
    /\ claim[r] # {}
    /\ pending[r] = {}
    /\ \E row \in claim[r] : sent' = sent \cup {row}
    /\ claim' = [claim EXCEPT ![r] = {}]
    /\ UNCHANGED <<outbox, pending, stray, log, faults>>

\* All acknowledged: stamp the rows and commit.
CommitTick(r) ==
    /\ claim[r] # {}
    /\ pending[r] = {}
    /\ sent' = sent \cup claim[r]
    /\ claim' = [claim EXCEPT ![r] = {}]
    /\ UNCHANGED <<outbox, pending, stray, log, faults>>

\* send_and_wait raises for one row, stored or not: gather raises, the
\* transaction rolls back and the other sends stay in flight.
SendFails(r, row) ==
    /\ row \in pending[r]
    /\ faults < MaxFaults
    /\ faults' = faults + 1
    /\ log' \in {log, Append(log, row)}
    /\ claim' = [claim EXCEPT ![r] = {}]
    /\ pending' = [pending EXCEPT ![r] = {}]
    /\ stray' = [stray EXCEPT ![r] =
                    [q \in Rows |-> IF q \in pending[r] \ {row} THEN @[q] + 1 ELSE @[q]]]
    /\ UNCHANGED <<outbox, sent>>

StrayPublish(r, row) ==
    /\ stray[r][row] > 0
    /\ log' = Append(log, row)
    /\ stray' = [stray EXCEPT ![r][row] = @ - 1]
    /\ UNCHANGED <<outbox, sent, claim, pending, faults>>

\* The transaction fails to commit: rolled back after everything was sent.
CommitFails(r) ==
    /\ claim[r] # {} /\ pending[r] = {}
    /\ faults < MaxFaults
    /\ faults' = faults + 1
    /\ claim' = [claim EXCEPT ![r] = {}]
    /\ UNCHANGED <<outbox, sent, pending, stray, log>>

\* The process dies and restarts: Postgres rolls back, unsent sends are gone.
Crash(r) ==
    /\ claim[r] # {} \/ stray[r] # NoStray
    /\ faults < MaxFaults
    /\ faults' = faults + 1
    /\ claim' = [claim EXCEPT ![r] = {}]
    /\ pending' = [pending EXCEPT ![r] = {}]
    /\ stray' = [stray EXCEPT ![r] = NoStray]
    /\ UNCHANGED <<outbox, sent, log>>

Tick(r) == Claim(r) \/ CommitTick(r) \/ \E row \in Rows : Publish(r, row)

RelayNext ==
    \E r \in Relays :
        \/ Tick(r)
        \/ \E row \in Rows : SendFails(r, row) \/ StrayPublish(r, row)
        \/ CommitFails(r) \/ Crash(r)

Next == RelayNext \/ \E row \in Rows : Enqueue(row)

Spec == Init /\ [][Next]_vars

\* The relay loop goes on polling and a healthy broker acknowledges.
Fairness == \A r \in Relays : WF_vars(Tick(r))
FairSpec == Spec /\ Fairness

-----------------------------------------------------------------------------
(* Properties                                                               *)

Logged == {log[i] : i \in DOMAIN log}

\* No event loss: a row is stamped only when Kafka has stored its message,
\* whatever failed or crashed before (the docstring's "No event loss").
SentIsLogged == sent \subseteq Logged

\* What a replica has claimed and does not wait for any more is in Kafka.
AckedIsLogged == \A r \in Relays : claim[r] \ pending[r] \subseteq Logged

\* Nothing reaches Kafka that no committed transaction has staged.
OnlyStaged ==
    /\ Logged \cup sent \subseteq outbox
    /\ \A r \in Relays : pending[r] \subseteq claim[r] /\ claim[r] \subseteq outbox
    /\ \A r \in Relays, row \in Rows : stray[r][row] > 0 => row \in outbox

\* SKIP LOCKED: replicas work on disjoint batches of rows that are not sent.
ClaimsDisjoint ==
    /\ \A q, r \in Relays : q # r => claim[q] \cap claim[r] = {}
    /\ \A r \in Relays : claim[r] \cap sent = {}

\* The inductive invariant of OutboxRelayProofs.
IndInv == TypeOK /\ AckedIsLogged /\ SentIsLogged /\ OnlyStaged /\ ClaimsDisjoint

Copies(row) == Cardinality({i \in DOMAIN log : log[i] = row})

\* At-least-once has a price only in failures: a message is stored once more
\* than there have been failed ticks and crashes, at most.
CopiesBounded == \A row \in Rows : Copies(row) <= 1 + faults

\* The sends of a row that failed ticks have left behind, numbered by replica.
Strays(row) == UNION {{r} \X (1 .. stray[r][row]) : r \in Relays}

IsPending(row) == \E r \in Relays : row \in pending[r]
IsTaken(row)   == row \in sent \/ \E r \in Relays : row \in claim[r]

\* The inductive invariant behind CopiesBounded: the copies of a row, those that
\* may still come from stray sends and the one that is on its way are paid for by
\* the tick that has the row, or had it last, and by faults.
CopiesCounted ==
    \A row \in Rows :
        /\ IsFiniteSet(Strays(row))
        /\ Copies(row) + Cardinality(Strays(row)) + (IF IsPending(row) THEN 1 ELSE 0)
              <= faults + (IF IsTaken(row) THEN 1 ELSE 0)

\* The relay promises what an asynchronous stage without loss promises: what is
\* committed to the outbox gets to Kafka, and nothing else does.
Delivery ==
    INSTANCE Delivery WITH
        Items <- Rows, LossAllowed <- FALSE,
        accepted <- outbox, delivered <- Logged, lost <- {}

DeliversStaged     == Delivery!Safety
ImplementsDelivery == Delivery!Spec

\* Every committed event is published and stamped in the end, whatever order
\* the transactions that staged them committed in.
EventuallySent == \A row \in Rows : row \in outbox ~> row \in sent
=============================================================================
