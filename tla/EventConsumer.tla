---------------------------- MODULE EventConsumer ----------------------------
(***************************************************************************)
(* A Kafka consumer group with a Postgres dedupe table: the welcome-email   *)
(* bridge (workers/welcome_email_consumer.py) and the events archiver       *)
(* (workers/events_archiver.py).  Both run the same loop on one partition:  *)
(* receive, claim the event key in a transaction, do the side effect,       *)
(* commit the transaction, commit the Kafka offset.  The effect is a Celery *)
(* task in RabbitMQ or an upsert in MongoDB, where $setOnInsert makes a     *)
(* repeated effect harmless; effects counts the executions.                 *)
(*                                                                         *)
(* A member that loses its partition in a rebalance goes on with the        *)
(* message it has; it has then no position of its own to commit.            *)
(***************************************************************************)
EXTENDS Naturals, Sequences, FiniteSets

CONSTANTS
    Keys,        \* event keys (header idempotency_key)
    Members,     \* processes of the consumer group
    MaxLog,      \* bound: messages in the partition
    MaxFailures, \* bound: exceptions in the handler (Postgres, RabbitMQ, Mongo)
    MaxCrashes   \* bound: crashes and rebalances

ASSUME BoundsAssumption ==
    MaxLog \in Nat /\ MaxFailures \in Nat /\ MaxCrashes \in Nat

VARIABLES
    log,        \* the partition: a key may occur again
    offset,     \* committed offset of the group: messages before it are done
    owner,      \* the member the partition is assigned to
    member,     \* each process: where it is, its next position, its message
    processed,  \* committed rows of processed_events
    effects,    \* per key: how often the side effect was done
    failures, crashes

groupVars == <<offset, owner, member, processed, effects, failures, crashes>>
vars      == <<log, groupVars>>

Pcs == {"poll", "claim", "effect", "commit", "ack"}

\* position: index of the next message to fetch; current: the one in hand
Member == [pc : Pcs, position : Nat \ {0}, current : Nat]

TypeOK ==
    /\ log \in Seq(Keys)
    /\ offset \in Nat
    /\ owner \in Members
    /\ member \in [Members -> Member]
    /\ processed \subseteq Keys
    /\ effects \in [Keys -> Nat]
    /\ failures \in Nat /\ crashes \in Nat

Fresh == [pc |-> "poll", position |-> 1, current |-> 0]

Init ==
    /\ log = <<>>
    /\ offset = 0
    /\ owner \in Members
    /\ member = [m \in Members |-> Fresh]
    /\ processed = {}
    /\ effects = [k \in Keys |-> 0]
    /\ failures = 0 /\ crashes = 0

KeyOf(m) == log[member[m].current]
At(m, step) == member[m].pc = step
Goto(m, step) == member' = [member EXCEPT ![m].pc = step]

\* The relay appends, again when it retries.
Produce(k) ==
    /\ Len(log) < MaxLog
    /\ log' = Append(log, k)
    /\ UNCHANGED groupVars

\* Faulty variant: enable_auto_commit, the offset is committed on receipt.
AutoCommit(m) ==
    /\ At(m, "poll")
    /\ owner = m
    /\ member[m].position <= Len(log)
    /\ offset' = member[m].position
    /\ member' = [member EXCEPT ![m] = [pc |-> "claim", position |-> @.position + 1,
                                        current |-> @.position]]
    /\ UNCHANGED <<log, owner, processed, effects, failures, crashes>>

\* The fetch position moves on with every message handed out.
Receive(m) ==
    /\ At(m, "poll")
    /\ owner = m
    /\ member[m].position <= Len(log)
    /\ member' = [member EXCEPT ![m] = [pc |-> "claim", position |-> @.position + 1,
                                        current |-> @.position]]
    /\ UNCHANGED <<log, offset, owner, processed, effects, failures, crashes>>

\* An open transaction of m has inserted the row for k.
Claiming(m, k) == member[m].pc \in {"effect", "commit"} /\ KeyOf(m) = k

\* Faulty variants: the dedupe row is committed before the effect; no dedupe.
ClaimAtOnce(m) ==
    /\ At(m, "claim")
    /\ \/ KeyOf(m) \notin processed /\ Goto(m, "effect")
       \/ KeyOf(m) \in processed /\ Goto(m, "ack")
    /\ processed' = processed \cup {KeyOf(m)}
    /\ UNCHANGED <<log, offset, owner, effects, failures, crashes>>
NoDedupe(m) ==
    /\ At(m, "claim")
    /\ Goto(m, "effect")
    /\ UNCHANGED <<log, offset, owner, processed, effects, failures, crashes>>

\* INSERT ... ON CONFLICT DO NOTHING waits for an open insert of the same key.
ClaimKey(m) ==
    /\ At(m, "claim")
    /\ \A n \in Members \ {m} : ~ Claiming(n, KeyOf(m))
    /\ \/ KeyOf(m) \notin processed /\ Goto(m, "effect")
       \/ KeyOf(m) \in processed /\ Goto(m, "ack")
    /\ UNCHANGED <<log, offset, owner, processed, effects, failures, crashes>>

\* .delay() or update_one(..., upsert=True), inside the Postgres transaction
DoEffect(m) ==
    /\ At(m, "effect")
    /\ effects' = [effects EXCEPT ![KeyOf(m)] = @ + 1]
    /\ Goto(m, "commit")
    /\ UNCHANGED <<log, offset, owner, processed, failures, crashes>>

CommitClaim(m) ==
    /\ At(m, "commit")
    /\ processed' = processed \cup {KeyOf(m)}
    /\ Goto(m, "ack")
    /\ UNCHANGED <<log, offset, owner, effects, failures, crashes>>

\* Faulty variant: commit() stores the offset of the message in hand, whoever
\* owns the partition now.
CommitCurrent(m) ==
    /\ At(m, "ack")
    /\ offset' = member[m].current
    /\ Goto(m, "poll")
    /\ UNCHANGED <<log, owner, processed, effects, failures, crashes>>

\* consumer.commit() stores the fetch position of the partitions assigned to m,
\* if it still has any; whatever the broker answers, the loop goes on.
CommitOffset(m) ==
    /\ At(m, "ack")
    /\ offset' = IF owner = m THEN member[m].position - 1 ELSE offset
    /\ Goto(m, "poll")
    /\ UNCHANGED <<log, owner, processed, effects, failures, crashes>>

\* The handler raises: the transaction rolls back, nothing is committed, and
\* the loop takes the next message.
HandlerFails(m) ==
    /\ member[m].pc \in {"claim", "effect", "commit", "ack"}
    /\ failures < MaxFailures
    /\ failures' = failures + 1
    /\ Goto(m, "poll")
    /\ UNCHANGED <<log, offset, owner, processed, effects, crashes>>

\* The partition goes to n, which fetches from the committed offset; a handler
\* that n is running goes on.
Assign(n, states) ==
    /\ owner' = n
    /\ member' = [states EXCEPT ![n].position = offset + 1]

\* The process dies and restarts; its partition goes to some member.
Crash(m) ==
    /\ crashes < MaxCrashes
    /\ crashes' = crashes + 1
    /\ LET restarted == [member EXCEPT ![m] = Fresh]
       IN \/ owner = m /\ \E n \in Members : Assign(n, restarted)
          \/ owner # m /\ owner' = owner /\ member' = restarted
    /\ UNCHANGED <<log, offset, processed, effects, failures>>

\* The group rebalances: a member joins, or the owner missed its heartbeats.
Rebalance(n) ==
    /\ crashes < MaxCrashes
    /\ crashes' = crashes + 1
    /\ owner # n
    /\ Assign(n, member)
    /\ UNCHANGED <<log, offset, processed, effects, failures>>

Handle(m) == ClaimKey(m) \/ DoEffect(m) \/ CommitClaim(m) \/ CommitOffset(m)

GroupNext ==
    \E m \in Members :
        Receive(m) \/ Handle(m) \/ HandlerFails(m) \/ Crash(m) \/ Rebalance(m)

Next == GroupNext \/ \E k \in Keys : Produce(k)

Spec == Init /\ [][Next]_vars

\* Every process keeps running its loop.
Fairness == \A m \in Members : WF_vars(Receive(m) \/ Handle(m))
FairSpec == Spec /\ Fairness

-----------------------------------------------------------------------------
(* Properties                                                               *)

\* A committed dedupe row, which makes every later delivery be skipped, means
\* that the side effect was done.
ProcessedHasEffect == \A k \in processed : effects[k] > 0

\* The comment in the loop says that a message that was not committed is
\* redelivered: the committed offset never passes an unprocessed message.
NothingSkipped ==
    \A i \in DOMAIN log : i <= offset => log[i] \in processed

\* A side effect is repeated only as often as a handler failed or a process
\* crashed or lost its partition, however often the relay repeated the message.
EffectsBounded == \A k \in Keys : effects[k] <= 1 + failures + crashes

\* While a rebalance hands the partition from one process to another, the
\* committed offset never moves back.
OffsetMonotone == [][offset' >= offset]_vars

\* Two processes never have the row of one key inserted and uncommitted, and
\* none has while a committed one exists.
ClaimsExclusive ==
    \A m \in Members, k \in Keys :
        Claiming(m, k) =>
            k \notin processed /\ \A n \in Members \ {m} : ~ Claiming(n, k)

\* A member that is handling a message has one in hand.
InHand == \A m \in Members : ~ At(m, "poll") => member[m].current \in DOMAIN log

\* The transaction that is about to commit has done the side effect.
EffectBeforeCommit ==
    \A m \in Members : At(m, "commit") => effects[KeyOf(m)] > 0

\* The owner of the partition never fetches what is already committed.
OwnerAhead == member[owner].position > offset

Done(k) == k \in processed \/ \E m \in Members : At(m, "commit") /\ KeyOf(m) = k

\* All effects of a key but one are accounted for by failures and crashes.
EffectsCounted ==
    \A k \in Keys :
        /\ effects[k] <= failures + crashes + 1
        /\ ~ Done(k) => effects[k] <= failures + crashes

\* The inductive invariant of EventConsumerProofs.
IndInv == /\ TypeOK
          /\ InHand
          /\ ClaimsExclusive
          /\ ProcessedHasEffect
          /\ EffectBeforeCommit
          /\ EffectsCounted
          /\ OwnerAhead

\* As long as no handler raises, no message is passed over, whatever crashes
\* and rebalances come between an effect, its commit and the offset commit.
SkippedOnlyAfterFailure == failures = 0 => NothingSkipped

\* Whoever gives its message back has found it processed or done so itself.
AckIsProcessed == \A m \in Members : At(m, "ack") => KeyOf(m) \in processed

\* While no handler has raised, what the owner has fetched is processed but for
\* the message it is handling.
FetchedIsHandled ==
    failures = 0 =>
        \A i \in DOMAIN log : i < member[owner].position =>
            \/ log[i] \in processed
            \/ i = member[owner].current /\ member[owner].pc \in {"claim", "effect", "commit"}

\* The owner fetches, and the group has committed, no further than the log goes.
PositionsInLog == member[owner].position <= Len(log) + 1 /\ offset <= Len(log)

\* The inductive invariant behind SkippedOnlyAfterFailure.
SkipInv == /\ AckIsProcessed
           /\ PositionsInLog
           /\ FetchedIsHandled
           /\ SkippedOnlyAfterFailure

\* In that case every message is processed in the end.
EventuallyProcessed ==
    [](failures = 0) =>
        \A k \in Keys : (\E i \in DOMAIN log : log[i] = k) ~> k \in processed
=============================================================================
