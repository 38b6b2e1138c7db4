--------------------------- MODULE WelcomePipeline ---------------------------
(***************************************************************************)
(* From the user.enrolled event to the welcome e-mail: the bridge consumer   *)
(* (EventConsumer) whose side effect is a task in the queue of the Celery    *)
(* workers (WelcomeEmail).                                                   *)
(***************************************************************************)
EXTENDS EventConsumer

CONSTANTS Workers, MaxRetries, MaxMailFaults

ASSUME MailAssumption == MaxRetries \in Nat /\ MaxMailFaults \in Nat

VARIABLES queue, task, mails, gaveUp, mailFaults

Mail == INSTANCE WelcomeEmail WITH Mails <- Keys

queueVars    == <<queue, task, mails, gaveUp, mailFaults>>
pipelineVars == <<vars, queueVars>>

PipelineInit == Init /\ Mail!MailInit

\* .delay() inside the transaction of the claim.
Enqueue(m) == DoEffect(m) /\ Mail!Enqueue(KeyOf(m))

\* The steps of the bridge that leave the queue alone.
Bridge(m) ==
    /\ Receive(m) \/ ClaimKey(m) \/ CommitClaim(m) \/ CommitOffset(m)
    /\ UNCHANGED queueVars

Disturb ==
    /\ \E m \in Members : HandlerFails(m) \/ Crash(m) \/ Rebalance(m)
    /\ UNCHANGED queueVars

\* The steps of the bridge and of the workers; what comes into the partition is
\* somebody else's.
PipelineStep ==
    \/ \E m \in Members : Bridge(m) \/ Enqueue(m)
    \/ Disturb
    \/ Mail!MailNext /\ UNCHANGED vars

PipelineNext ==
    \/ PipelineStep
    \/ (\E k \in Keys : Produce(k)) /\ UNCHANGED queueVars

\* The workers keep taking tasks and run what they took.
PipelineFairness ==
    \A w \in Workers : WF_pipelineVars(Mail!Work(w) /\ UNCHANGED vars)

PipelineSpec == PipelineInit /\ [][PipelineNext]_pipelineVars /\ PipelineFairness

-----------------------------------------------------------------------------
Mailed == {k \in Keys : mails[k] > 0}

\* No e-mail goes out or is given up of which no task was enqueued, and each does
\* at most one of the two at a time (welcome_email.py:26-34, :37-65).
Delivery ==
    INSTANCE Delivery WITH
        Items <- Keys, LossAllowed <- TRUE,
        accepted <- {k \in Keys : effects[k] > 0},
        delivered <- Mailed, lost <- gaveUp \ Mailed

DeliversEnqueued == Delivery!Safety

\* A student gets a second e-mail only for a failure somewhere on the way: of the
\* bridge, of a send, of a worker.  The relay's repeated messages add none.
MailsBounded ==
    \A k \in Keys : mails[k] <= 1 + failures + crashes + mailFaults

\* The dedupe row, which no later delivery of the event gets past, is committed
\* only with a task on its way, the e-mail sent or the task given up: a crash of
\* the bridge or of a worker loses nothing (celery_app.py:46-48).
ClaimedIsOnItsWay ==
    \A k \in processed :
        \/ mails[k] > 0 \/ k \in gaveUp
        \/ \E n \in 0 .. MaxRetries : queue[k][n] > 0
        \/ \E w \in Workers : task[w].pc # "idle" /\ task[w].mail = k

-----------------------------------------------------------------------------
\* The messages of an e-mail in the queue, numbered; the workers that may still
\* send it.  A task that only waits to be acknowledged sends nothing any more.
Messages(k) == UNION {{n} \X (1 .. queue[k][n]) : n \in 0 .. MaxRetries}
Running(k)  == {w \in Workers : task[w].pc \in {"send", "retry"} /\ task[w].mail = k}

OnItsWay(k) ==
    \/ mails[k] > 0 \/ k \in gaveUp
    \/ \E n \in 0 .. MaxRetries : queue[k][n] > 0
    \/ Running(k) # {}

\* The inductive invariants of WelcomePipelineProofs.  Every enqueued e-mail is
\* accounted for, and nothing else is in the queue, at a worker or sent.
EnqueuedAccounted ==
    /\ \A k \in Keys : effects[k] > 0 <=> OnItsWay(k)
    /\ \A w \in Workers : task[w].pc # "idle" => effects[task[w].mail] > 0

\* What was sent of an e-mail and what may still be sent comes from a .delay()
\* each, or from a failure on the way.
MailsCounted ==
    \A k \in Keys :
        /\ IsFiniteSet(Messages(k)) /\ IsFiniteSet(Running(k))
        /\ mails[k] + Cardinality(Messages(k)) + Cardinality(Running(k))
              <= effects[k] + mailFaults

MailInv == Mail!MailTypeOK /\ EnqueuedAccounted /\ MailsCounted
=============================================================================
