---------------------------- MODULE WelcomeEmail ----------------------------
(***************************************************************************)
(* The Celery task that sends the welcome e-mail (tasks/welcome_email.py,    *)
(* workers/celery_app.py, services/email_service.py).  The message of a task *)
(* is acknowledged when the task has ended (task_acks_late), and goes back   *)
(* to the queue when its worker is killed (task_reject_on_worker_lost).      *)
(*                                                                         *)
(* Nothing records that an e-mail was sent.  The enrollment is committed     *)
(* before its event is staged and is never deleted, so the task finds it.    *)
(***************************************************************************)
EXTENDS Naturals

CONSTANTS
    Mails,          \* one e-mail per enrollment
    Workers,        \* worker processes
    MaxRetries,     \* max_retries of the task, 3 in the code
    MaxMailFaults   \* bound: failed sends and publishes, time limits and killed workers

VARIABLES
    queue,       \* messages by e-mail and number of retries so far
    task,        \* what each worker is doing
    mails,       \* how often an e-mail went out
    gaveUp,      \* e-mails of which a task was given up
    mailFaults

mailVars == <<queue, task, mails, gaveUp, mailFaults>>

NoTask == [pc |-> "idle"]
Task   == [pc : {"send", "retry", "ack"}, mail : Mails, retries : 0 .. MaxRetries]

MailTypeOK ==
    /\ queue \in [Mails -> [0 .. MaxRetries -> Nat]]
    /\ task \in [Workers -> {NoTask} \cup Task]
    /\ mails \in [Mails -> Nat]
    /\ gaveUp \subseteq Mails
    /\ mailFaults \in Nat

MailInit ==
    /\ queue = [k \in Mails |-> [n \in 0 .. MaxRetries |-> 0]]
    /\ task = [w \in Workers |-> NoTask]
    /\ mails = [k \in Mails |-> 0]
    /\ gaveUp = {}
    /\ mailFaults = 0

MailFault == mailFaults < MaxMailFaults /\ mailFaults' = mailFaults + 1

\* send_welcome_email.delay().
Enqueue(k) ==
    /\ queue' = [queue EXCEPT ![k][0] = @ + 1]
    /\ UNCHANGED <<task, mails, gaveUp, mailFaults>>

Take(w) ==
    /\ task[w].pc = "idle"
    /\ \E k \in Mails, n \in 0 .. MaxRetries :
          /\ queue[k][n] > 0
          /\ queue' = [queue EXCEPT ![k][n] = @ - 1]
          /\ task' = [task EXCEPT ![w] = [pc |-> "send", mail |-> k, retries |-> n]]
    /\ UNCHANGED <<mails, gaveUp, mailFaults>>

\* Faulty variant: a task that ends with an exception is acknowledged.
NoRetry(w) ==
    /\ task[w].pc = "retry"
    /\ task' = [task EXCEPT ![w].pc = "ack"]
    /\ UNCHANGED <<queue, mails, gaveUp, mailFaults>>

\* self.retry() publishes the task again before the message at hand is
\* acknowledged; after max_retries the task fails, and is acknowledged as well.
Retry(w) ==
    /\ task[w].pc = "retry"
    /\ IF task[w].retries < MaxRetries
       THEN /\ queue' = [queue EXCEPT ![task[w].mail][task[w].retries + 1] = @ + 1]
            /\ UNCHANGED gaveUp
       ELSE /\ gaveUp' = gaveUp \cup {task[w].mail}
            /\ UNCHANGED queue
    /\ task' = [task EXCEPT ![w].pc = "ack"]
    /\ UNCHANGED <<mails, mailFaults>>

\* The publish raises, though the broker may have the message: self.retry() rejects
\* the message at hand, which does not go back to the queue.
RetryFails(w) ==
    /\ task[w].pc = "retry" /\ task[w].retries < MaxRetries /\ MailFault
    /\ queue' \in {queue, [queue EXCEPT ![task[w].mail][task[w].retries + 1] = @ + 1]}
    /\ gaveUp' = gaveUp \cup {task[w].mail}
    /\ task' = [task EXCEPT ![w] = NoTask]
    /\ UNCHANGED mails

Send(w) ==
    /\ task[w].pc = "send"
    /\ mails' = [mails EXCEPT ![task[w].mail] = @ + 1]
    /\ task' = [task EXCEPT ![w].pc = "ack"]
    /\ UNCHANGED <<queue, gaveUp, mailFaults>>

Ack(w) ==
    /\ task[w].pc = "ack"
    /\ task' = [task EXCEPT ![w] = NoTask]
    /\ UNCHANGED <<queue, mails, gaveUp, mailFaults>>

MaySend(k) == mails' \in {mails, [mails EXCEPT ![k] = @ + 1]}

\* Postgres or the SMTP server raises, or the soft time limit does; the server
\* may have taken the e-mail.
SendFails(w) ==
    /\ task[w].pc = "send" /\ MailFault
    /\ MaySend(task[w].mail)
    /\ task' = [task EXCEPT ![w].pc = "retry"]
    /\ UNCHANGED <<queue, gaveUp>>

\* The hard time limit: Celery acknowledges the task as failed, without a retry.
HardTimeLimit(w) ==
    /\ task[w].pc = "send" /\ MailFault
    /\ MaySend(task[w].mail)
    /\ gaveUp' = gaveUp \cup {task[w].mail}
    /\ task' = [task EXCEPT ![w] = NoTask]
    /\ UNCHANGED queue

\* Faulty variant: without task_reject_on_worker_lost.
LosesTask(w) ==
    /\ task[w].pc # "idle" /\ MailFault
    /\ task' = [task EXCEPT ![w] = NoTask]
    /\ UNCHANGED <<queue, mails, gaveUp>>

\* The worker is killed at any point: the message is delivered again.
Kill(w) ==
    /\ task[w].pc # "idle" /\ MailFault
    /\ queue' = [queue EXCEPT ![task[w].mail][task[w].retries] = @ + 1]
    /\ task' = [task EXCEPT ![w] = NoTask]
    /\ UNCHANGED <<mails, gaveUp>>

Work(w) == Take(w) \/ Send(w) \/ Retry(w) \/ Ack(w)

Disrupt(w) == SendFails(w) \/ RetryFails(w) \/ HardTimeLimit(w) \/ Kill(w)

MailNext == \E w \in Workers : Work(w) \/ Disrupt(w)
=============================================================================
