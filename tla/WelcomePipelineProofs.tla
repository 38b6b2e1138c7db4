------------------------ MODULE WelcomePipelineProofs ------------------------
(* Proofs about WelcomePipeline, for any number of e-mails, members, workers  *)
(* and retries.  The bridge is the consumer group of EventConsumer, whose     *)
(* invariant carries over; the queue and the workers have their own.          *)
EXTENDS EventFlow, EventConsumerProofs, FiniteSetTheorems

\* Every step of the pipeline is a step of the bridge, or none of it.
LEMMA BridgeStep == [PipelineNext]_pipelineVars => [Next]_vars
  BY DEF PipelineNext, PipelineStep, pipelineVars, Bridge, Enqueue, Disturb, Next, GroupNext, Handle

\* So the invariant of the consumer group holds here as well.
LEMMA BridgeInvariance == PipelineSpec => []IndInv
<1>1. PipelineInit => Init
  BY DEF PipelineInit
<1> QED BY <1>1, BridgeStep, IndInit, IndNext, PTL DEF PipelineSpec

-----------------------------------------------------------------------------
(* Counting messages and workers                                            *)

\* The messages of an e-mail when one is added with n retries, or one is taken.
LEMMA MessagesChange ==
    ASSUME Mail!MailTypeOK, Mail!MailTypeOK', NEW k \in Keys, NEW n \in 0 .. MaxRetries,
           \A i \in (0 .. MaxRetries) \ {n} : queue'[k][i] = queue[k][i],
           IsFiniteSet(Messages(k))
    PROVE  /\ queue'[k][n] = queue[k][n] + 1 =>
                 /\ IsFiniteSet(Messages(k)')
                 /\ Cardinality(Messages(k)') = Cardinality(Messages(k)) + 1
           /\ queue'[k][n] = queue[k][n] - 1 =>
                 /\ IsFiniteSet(Messages(k)')
                 /\ Cardinality(Messages(k)') = Cardinality(Messages(k)) - 1
<1> DEFINE c == queue[k][n]
           F == Messages(k)
           G == Messages(k)'
<1>1. c \in Nat /\ queue'[k][n] \in Nat
  BY DEF Mail!MailTypeOK
<1>2. \A e : e \in F <=> \E i \in 0 .. MaxRetries : \E j \in 1 .. queue[k][i] : e = <<i, j>>
  BY DEF Messages
<1>3. \A e : e \in G <=> \E i \in 0 .. MaxRetries : \E j \in 1 .. queue'[k][i] : e = <<i, j>>
  BY DEF Messages
<1>4. ASSUME queue'[k][n] = c + 1
      PROVE  G = F \cup {<<n, c + 1>>} /\ <<n, c + 1>> \notin F
  <2>1. \A i : i \in 1 .. (c + 1) <=> i \in 1 .. c \/ i = c + 1
    BY <1>1, <1>2
  <2>2. <<n, c + 1>> \notin F
    BY <1>1, <1>2
  <2>3. G \subseteq F \cup {<<n, c + 1>>}
    BY <1>2, <1>3, <1>4, <2>1
  <2>4. F \cup {<<n, c + 1>>} \subseteq G
    BY <1>2, <1>3, <1>4, <2>1
  <2> QED BY <2>2, <2>3, <2>4
<1>5. ASSUME queue'[k][n] = c - 1
      PROVE  G = F \ {<<n, c>>} /\ <<n, c>> \in F
  <2>1. c > 0 /\ \A i : i \in 1 .. (c - 1) <=> i \in 1 .. c /\ i # c
    BY <1>1, <1>5
  <2>2. <<n, c>> \in F
    BY <1>1, <1>2, <2>1
  <2>3. G \subseteq F \ {<<n, c>>}
    BY <1>2, <1>3, <1>5, <2>1
  <2>4. F \ {<<n, c>>} \subseteq G
    BY <1>2, <1>3, <1>5, <2>1
  <2> QED BY <2>2, <2>3, <2>4
<1>6. IsFiniteSet(F) /\ Cardinality(F) \in Nat
  BY FS_CardinalityType
<1> HIDE DEF F, G
<1>7. queue'[k][n] = c + 1 => IsFiniteSet(G) /\ Cardinality(G) = Cardinality(F) + 1
  BY <1>4, <1>6, FS_AddElement
<1>8. queue'[k][n] = c - 1 => IsFiniteSet(G) /\ Cardinality(G) = Cardinality(F) - 1
  BY <1>5, <1>6, FS_RemoveElement
<1> QED BY <1>7, <1>8 DEF F, G

\* While the queue of an e-mail stays, so do its messages.
LEMMA MessagesStay ==
    ASSUME NEW k, queue'[k] = queue[k]
    PROVE  Messages(k)' = Messages(k)
  BY DEF Messages

\* One worker goes on to another point of its loop or to another task.
LEMMA RunningChange ==
    ASSUME NEW k, NEW w \in Workers, IsFiniteSet(Running(k)),
           \A v \in Workers \ {w} : task'[v] = task[v]
    PROVE  /\ IsFiniteSet(Running(k)')
           /\ w \in Running(k) /\ w \in Running(k)' => Running(k)' = Running(k)
           /\ w \notin Running(k) /\ w \notin Running(k)' => Running(k)' = Running(k)
           /\ w \in Running(k) /\ w \notin Running(k)' =>
                 Cardinality(Running(k)') = Cardinality(Running(k)) - 1
           /\ w \notin Running(k) /\ w \in Running(k)' =>
                 Cardinality(Running(k)') = Cardinality(Running(k)) + 1
<1>1. Cardinality(Running(k)) \in Nat
  BY FS_CardinalityType
<1>2. \A v \in Workers \ {w} : v \in Running(k)' <=> v \in Running(k)
  BY DEF Running
<1>3. Running(k) \subseteq Workers /\ Running(k)' \subseteq Workers
  BY DEF Running
<1>4. CASE w \in Running(k) <=> w \in Running(k)'
  <2>1. Running(k)' = Running(k)
    BY <1>2, <1>3, <1>4
  <2> QED BY <2>1
<1>5. CASE w \in Running(k) /\ w \notin Running(k)'
  <2>1. Running(k)' = Running(k) \ {w}
    BY <1>2, <1>3, <1>5
  <2> QED BY <1>1, <1>5, <2>1, FS_RemoveElement
<1>6. CASE w \notin Running(k) /\ w \in Running(k)'
  <2>1. Running(k)' = Running(k) \cup {w}
    BY <1>2, <1>3, <1>6
  <2> QED BY <1>1, <1>6, <2>1, FS_AddElement
<1> QED BY <1>4, <1>5, <1>6

-----------------------------------------------------------------------------
(* The invariant of the queue and the workers                               *)

\* What a worker has in hand when it is not idle.
LEMMA TaskInHand ==
    ASSUME Mail!MailTypeOK, NEW w \in Workers, task[w].pc # "idle"
    PROVE  /\ task[w] \in Mail!Task
           /\ task[w].mail \in Keys /\ task[w].retries \in 0 .. MaxRetries
           /\ task[w].pc \in {"send", "retry", "ack"}
  BY DEF Mail!MailTypeOK, Mail!Task, Mail!NoTask

\* A worker's step touches the e-mail k only: that of its task, before or after.
Touches(w, k) ==
    /\ \A v \in Workers \ {w} : task'[v] = task[v]
    /\ \A q \in Keys \ {k} : queue'[q] = queue[q] /\ mails'[q] = mails[q]
                            /\ (q \in gaveUp' <=> q \in gaveUp)
    /\ task[w].pc # "idle" => task[w].mail = k
    /\ task'[w].pc # "idle" => task'[w].mail = k

\* Of every other e-mail nothing changes then.
LEMMA OthersStay ==
    ASSUME Mail!MailTypeOK, NEW w \in Workers, NEW k \in Keys, Touches(w, k),
           NEW q \in Keys \ {k}
    PROVE  /\ Messages(q)' = Messages(q)
           /\ Running(q)' = Running(q)
           /\ OnItsWay(q)' <=> OnItsWay(q)
<1>1. queue'[q] = queue[q] /\ mails'[q] = mails[q] /\ (q \in gaveUp' <=> q \in gaveUp)
  BY DEF Touches
<1>2. Messages(q)' = Messages(q)
  BY <1>1, MessagesStay
<1>3. Running(q)' = Running(q)
  BY DEF Touches, Running
<1> QED BY <1>1, <1>2, <1>3 DEF OnItsWay

\* So it is enough to account for the e-mail it touches.
LEMMA OneMail ==
    ASSUME MailInv, Mail!MailTypeOK', NEW w \in Workers, NEW k \in Keys, Touches(w, k),
           effects' = effects, effects \in [Keys -> Nat],
           mailFaults' >= mailFaults,
           effects[k] > 0 /\ OnItsWay(k)',
           /\ IsFiniteSet(Messages(k)') /\ IsFiniteSet(Running(k)')
           /\ mails'[k] + Cardinality(Messages(k)') + Cardinality(Running(k)')
                 <= effects[k] + mailFaults'
    PROVE  MailInv'
<1>1. EnqueuedAccounted'
  <2>1. ASSUME NEW q \in Keys PROVE effects'[q] > 0 <=> OnItsWay(q)'
    BY OthersStay DEF MailInv, EnqueuedAccounted
  <2>2. ASSUME NEW v \in Workers, task'[v].pc # "idle" PROVE effects'[task'[v].mail] > 0
    <3>1. CASE v = w
      BY <2>2, <3>1 DEF Touches
    <3>2. CASE v # w
      BY <2>2, <3>2 DEF Touches, MailInv, EnqueuedAccounted
    <3> QED BY <3>1, <3>2
  <2> QED BY <2>1, <2>2 DEF EnqueuedAccounted
<1>2. MailsCounted'
  <2> SUFFICES ASSUME NEW q \in Keys
               PROVE  /\ IsFiniteSet(Messages(q)') /\ IsFiniteSet(Running(q)')
                      /\ mails'[q] + Cardinality(Messages(q)') + Cardinality(Running(q)')
                            <= effects'[q] + mailFaults'
    BY DEF MailsCounted
  <2>1. CASE q = k
    BY <2>1
  <2>2. CASE q # k
    <3>1. Messages(q)' = Messages(q) /\ Running(q)' = Running(q) /\ mails'[q] = mails[q]
      BY <2>2, OthersStay DEF MailInv, Touches
    <3>2. /\ IsFiniteSet(Messages(q)) /\ IsFiniteSet(Running(q))
          /\ mails[q] + Cardinality(Messages(q)) + Cardinality(Running(q))
                <= effects[q] + mailFaults
      BY DEF MailInv, MailsCounted
    <3>3. /\ mails[q] \in Nat /\ mailFaults \in Nat /\ mailFaults' \in Nat /\ effects[q] \in Nat
          /\ Cardinality(Messages(q)) \in Nat /\ Cardinality(Running(q)) \in Nat
      BY <3>2, FS_CardinalityType DEF MailInv, Mail!MailTypeOK
    <3> QED BY <3>1, <3>2, <3>3
  <2> QED BY <2>1, <2>2
<1> QED BY <1>1, <1>2 DEF MailInv

\* An entry of the queue is a number.
LEMMA QueueEntry ==
    ASSUME Mail!MailTypeOK, NEW k \in Keys, NEW n \in 0 .. MaxRetries
    PROVE  queue[k][n] \in Nat /\ queue[k][n] + 1 \in Nat
<1>1. queue[k][n] \in Nat
  BY DEF Mail!MailTypeOK
<1> QED BY <1>1

\* The queue when the messages of k with n retries become c.
LEMMA QueueChange ==
    ASSUME Mail!MailTypeOK, NEW k \in Keys, NEW n \in 0 .. MaxRetries, NEW c \in Nat,
           queue' = [queue EXCEPT ![k][n] = c]
    PROVE  /\ queue' \in [Keys -> [0 .. MaxRetries -> Nat]]
           /\ queue'[k][n] = c
           /\ \A i \in (0 .. MaxRetries) \ {n} : queue'[k][i] = queue[k][i]
           /\ \A q \in Keys \ {k} : queue'[q] = queue[q]
<1> DEFINE row == [queue[k] EXCEPT ![n] = c]
<1>1. queue \in [Keys -> [0 .. MaxRetries -> Nat]] /\ queue[k] \in [0 .. MaxRetries -> Nat]
  BY DEF Mail!MailTypeOK
<1>2. row \in [0 .. MaxRetries -> Nat] /\ row[n] = c
      /\ \A i \in (0 .. MaxRetries) \ {n} : row[i] = queue[k][i]
  BY <1>1
<1>3. queue' = [queue EXCEPT ![k] = row]
  OBVIOUS
<1> HIDE DEF row
<1> QED BY <1>1, <1>2, <1>3

\* The queue when a message of k with n retries is added.
LEMMA QueueGrows ==
    ASSUME Mail!MailTypeOK, NEW k \in Keys, NEW n \in 0 .. MaxRetries,
           queue' = [queue EXCEPT ![k][n] = @ + 1]
    PROVE  /\ queue'[k][n] = queue[k][n] + 1
           /\ \A i \in (0 .. MaxRetries) \ {n} : queue'[k][i] = queue[k][i]
  BY DEF Mail!MailTypeOK

\* The invariant, for one e-mail.
LEMMA Counts ==
    ASSUME MailInv, effects \in [Keys -> Nat], NEW k \in Keys
    PROVE  /\ IsFiniteSet(Messages(k)) /\ IsFiniteSet(Running(k))
           /\ mails[k] \in Nat /\ mailFaults \in Nat /\ effects[k] \in Nat
           /\ Cardinality(Messages(k)) \in Nat /\ Cardinality(Running(k)) \in Nat
           /\ mails[k] + Cardinality(Messages(k)) + Cardinality(Running(k))
                 <= effects[k] + mailFaults
           /\ \A n \in 0 .. MaxRetries : queue[k][n] > 0 => effects[k] > 0
           /\ \A w \in Workers : task[w].pc # "idle" /\ task[w].mail = k => effects[k] > 0
<1>1. IsFiniteSet(Messages(k)) /\ IsFiniteSet(Running(k))
  BY DEF MailInv, MailsCounted
<1>2. Cardinality(Messages(k)) \in Nat /\ Cardinality(Running(k)) \in Nat
  BY <1>1, FS_CardinalityType
<1>3. mails[k] \in Nat /\ mailFaults \in Nat /\ effects[k] \in Nat
  BY DEF MailInv, Mail!MailTypeOK
<1> QED BY <1>1, <1>2, <1>3 DEF MailInv, MailsCounted, EnqueuedAccounted, OnItsWay

\* A worker takes a message: one less in the queue, one more running.
LEMMA TakeKeeps ==
    ASSUME MailInv, effects \in [Keys -> Nat], effects' = effects,
           NEW w \in Workers, Mail!Take(w)
    PROVE  MailInv'
<1>0. Mail!MailTypeOK
  BY DEF MailInv
<1>1. PICK k \in Keys, n \in 0 .. MaxRetries :
          /\ queue[k][n] > 0
          /\ queue' = [queue EXCEPT ![k][n] = @ - 1]
          /\ task' = [task EXCEPT ![w] = [pc |-> "send", mail |-> k, retries |-> n]]
  BY DEF Mail!Take
<1>2. task[w].pc = "idle" /\ UNCHANGED <<mails, gaveUp, mailFaults>>
  BY DEF Mail!Take
<1>3. /\ task'[w] = [pc |-> "send", mail |-> k, retries |-> n]
      /\ \A v \in Workers \ {w} : task'[v] = task[v]
  BY <1>0, <1>1 DEF Mail!MailTypeOK
<1>4. /\ queue' \in [Keys -> [0 .. MaxRetries -> Nat]]
      /\ queue'[k][n] = queue[k][n] - 1
      /\ \A i \in (0 .. MaxRetries) \ {n} : queue'[k][i] = queue[k][i]
      /\ \A q \in Keys \ {k} : queue'[q] = queue[q]
  <2>1. queue[k][n] \in Nat
    BY <1>0 DEF Mail!MailTypeOK
  <2>2. queue[k][n] - 1 \in Nat
    BY <1>1, <2>1
  <2> QED BY <1>0, <1>1, <2>2, QueueChange
<1>5. Mail!MailTypeOK'
  <2>1. task' \in [Workers -> {Mail!NoTask} \cup Mail!Task]
    <3>1. [pc |-> "send", mail |-> k, retries |-> n] \in Mail!Task
      BY DEF Mail!Task
    <3> QED BY <1>0, <1>1, <3>1 DEF Mail!MailTypeOK
  <2> QED BY <1>0, <1>2, <1>4, <2>1 DEF Mail!MailTypeOK
<1>6. Touches(w, k)
  BY <1>2, <1>3, <1>4 DEF Touches
<1>7. w \notin Running(k) /\ w \in Running(k)'
  BY <1>2, <1>3 DEF Running
<1>8. effects[k] > 0 /\ OnItsWay(k)'
  BY <1>1, <1>7, Counts DEF OnItsWay
<1>9. /\ IsFiniteSet(Messages(k)') /\ IsFiniteSet(Running(k)')
      /\ Cardinality(Messages(k)') = Cardinality(Messages(k)) - 1
      /\ Cardinality(Running(k)') = Cardinality(Running(k)) + 1
  <2>1. IsFiniteSet(Messages(k)) /\ IsFiniteSet(Running(k))
    BY Counts
  <2> QED BY <1>0, <1>3, <1>4, <1>5, <1>7, <2>1, MessagesChange, RunningChange
<1>10. mails'[k] + Cardinality(Messages(k)') + Cardinality(Running(k)')
          <= effects[k] + mailFaults'
  BY <1>2, <1>9, Counts
<1>11. mailFaults' >= mailFaults
  BY <1>0, <1>2 DEF Mail!MailTypeOK
<1> QED BY <1>5, <1>6, <1>8, <1>9, <1>10, <1>11, OneMail

\* A worker that has a task does something else than taking one: it goes on to
\* the state t, the e-mail of its task goes out or not, and so on.
LEMMA TaskStep ==
    ASSUME Mail!MailTypeOK, NEW w \in Workers, task[w].pc # "idle",
           NEW t \in {Mail!NoTask} \cup Mail!Task, task' = [task EXCEPT ![w] = t],
           t.pc # "idle" => t.mail = task[w].mail,
           mails' = mails \/ mails' = [mails EXCEPT ![task[w].mail] = @ + 1],
           gaveUp' = gaveUp \/ gaveUp' = gaveUp \cup {task[w].mail},
           queue' = queue \/ \E n \in 0 .. MaxRetries :
                                queue' = [queue EXCEPT ![task[w].mail][n] = @ + 1],
           mailFaults' = mailFaults \/ mailFaults' = mailFaults + 1
    PROVE  /\ Mail!MailTypeOK' /\ task'[w] = t
           /\ Touches(w, task[w].mail)
           /\ mailFaults' >= mailFaults
           /\ mails'[task[w].mail] >= mails[task[w].mail]
<1> DEFINE k == task[w].mail
<1>1. k \in Keys
  BY TaskInHand
<1>2. /\ task' \in [Workers -> {Mail!NoTask} \cup Mail!Task] /\ task'[w] = t
      /\ \A v \in Workers \ {w} : task'[v] = task[v]
  BY DEF Mail!MailTypeOK
<1> HIDE DEF k
<1>3. /\ mails' \in [Keys -> Nat] /\ mails'[k] >= mails[k]
      /\ \A q \in Keys \ {k} : mails'[q] = mails[q]
  <2>1. mails[k] \in Nat
    BY <1>1 DEF Mail!MailTypeOK
  <2> QED BY <1>1, <2>1 DEF Mail!MailTypeOK, k
<1>4. /\ queue' \in [Keys -> [0 .. MaxRetries -> Nat]]
      /\ \A q \in Keys \ {k} : queue'[q] = queue[q]
  <2>1. CASE queue' = queue
    BY <2>1 DEF Mail!MailTypeOK
  <2>2. ASSUME NEW n \in 0 .. MaxRetries, queue' = [queue EXCEPT ![k][n] = @ + 1]
        PROVE  /\ queue' \in [Keys -> [0 .. MaxRetries -> Nat]]
               /\ \A q \in Keys \ {k} : queue'[q] = queue[q]
    <3>1. queue[k][n] + 1 \in Nat
      BY <1>1, QueueEntry
    <3> QED BY <1>1, <2>2, <3>1, QueueChange
  <2> QED BY <2>1, <2>2 DEF k
<1>5. Mail!MailTypeOK'
  BY <1>1, <1>2, <1>3, <1>4 DEF Mail!MailTypeOK, k
<1>6. Touches(w, k)
  BY <1>2, <1>3, <1>4 DEF Touches, k
<1>7. mailFaults' >= mailFaults
  BY DEF Mail!MailTypeOK
<1> QED BY <1>2, <1>3, <1>5, <1>6, <1>7 DEF k

\* A step that leaves the queue alone keeps the invariant when the e-mail of the
\* task goes out, or may do so at the price of a fault, or nothing is running.
LEMMA EndStep ==
    ASSUME MailInv, effects \in [Keys -> Nat], effects' = effects,
           NEW w \in Workers, NEW k \in Keys, task[w].mail = k, task[w].pc # "idle",
           Mail!MailTypeOK', Touches(w, k), queue'[k] = queue[k],
           mails'[k] = mails[k] \/ mails'[k] = mails[k] + 1,
           k \in gaveUp => k \in gaveUp',
           mailFaults' = mailFaults \/ mailFaults' = mailFaults + 1,
           \/ /\ w \in Running(k) /\ w \notin Running(k)'
              /\ mails'[k] = mails[k] + 1 \/ k \in gaveUp'
           \/ /\ w \in Running(k) /\ w \in Running(k)'
              /\ mailFaults' = mailFaults + 1
           \/ /\ w \notin Running(k) /\ w \notin Running(k)'
              /\ mails'[k] = mails[k]
    PROVE  MailInv'
<1>1. Messages(k)' = Messages(k)
  BY MessagesStay
<1>2. /\ IsFiniteSet(Messages(k)) /\ IsFiniteSet(Running(k)) /\ effects[k] > 0
      /\ mails[k] \in Nat /\ mailFaults \in Nat /\ effects[k] \in Nat
      /\ Cardinality(Messages(k)) \in Nat /\ Cardinality(Running(k)) \in Nat
      /\ mails[k] + Cardinality(Messages(k)) + Cardinality(Running(k)) <= effects[k] + mailFaults
  BY Counts
<1>3. /\ IsFiniteSet(Running(k)')
      /\ w \in Running(k) /\ w \notin Running(k)' =>
            Cardinality(Running(k)') = Cardinality(Running(k)) - 1
      /\ (w \in Running(k) <=> w \in Running(k)') => Running(k)' = Running(k)
  BY <1>2, RunningChange DEF Touches
<1>4. mails'[k] + Cardinality(Messages(k)') + Cardinality(Running(k)') <= effects[k] + mailFaults'
  BY <1>1, <1>2, <1>3
<1>5. OnItsWay(k)'
  <2>1. OnItsWay(k)
    BY <1>2 DEF MailInv, EnqueuedAccounted
  <2>2. CASE w \in Running(k) /\ w \notin Running(k)'
    BY <1>2, <2>2 DEF OnItsWay
  <2>3. CASE w \in Running(k)'
    BY <2>3 DEF OnItsWay
  <2>4. CASE w \notin Running(k) /\ w \notin Running(k)'
    BY <1>2, <1>3, <2>1, <2>4 DEF OnItsWay
  <2> QED BY <2>2, <2>3, <2>4
<1>6. mailFaults' >= mailFaults
  BY <1>2
<1> QED BY <1>1, <1>2, <1>3, <1>4, <1>5, <1>6, OneMail

\* Sending, acknowledging, a send that fails and the hard time limit are such
\* steps.
LEMMA EndKeeps ==
    ASSUME MailInv, effects \in [Keys -> Nat], effects' = effects, NEW w \in Workers,
           Mail!Send(w) \/ Mail!Ack(w) \/ Mail!HardTimeLimit(w) \/ Mail!SendFails(w)
    PROVE  MailInv'
<1>0. Mail!MailTypeOK /\ task[w].pc # "idle"
  BY DEF MailInv, Mail!Send, Mail!Ack, Mail!HardTimeLimit, Mail!SendFails
<1>1. PICK k \in Keys : task[w] \in Mail!Task /\ k = task[w].mail
  BY <1>0, TaskInHand
<1>2. /\ mails[k] \in Nat /\ mails \in [Keys -> Nat]
      /\ \A f : f = [mails EXCEPT ![k] = @ + 1] => f[k] = mails[k] + 1
  BY <1>0 DEF Mail!MailTypeOK
<1>3. CASE Mail!Send(w)
  <2> DEFINE t == [task[w] EXCEPT !.pc = "ack"]
  <2>1. t \in {Mail!NoTask} \cup Mail!Task /\ t.pc = "ack" /\ t.mail = k
    BY <1>1 DEF Mail!Task
  <2>2. /\ task' = [task EXCEPT ![w] = t] /\ mails' = [mails EXCEPT ![task[w].mail] = @ + 1]
        /\ UNCHANGED <<queue, gaveUp, mailFaults>> /\ task[w].pc = "send"
    BY <1>3 DEF Mail!Send
  <2> HIDE DEF t
  <2>3. Mail!MailTypeOK' /\ task'[w] = t /\ Touches(w, k)
    BY <1>0, <1>1, <2>1, <2>2, TaskStep
  <2>4. w \in Running(k) /\ w \notin Running(k)'
    BY <1>1, <2>1, <2>2, <2>3 DEF Running
  <2> QED BY <1>0, <1>1, <1>2, <2>2, <2>3, <2>4, EndStep
<1>4. CASE Mail!Ack(w)
  <2>1. Mail!NoTask.pc = "idle"
    BY DEF Mail!NoTask
  <2>2. /\ task' = [task EXCEPT ![w] = Mail!NoTask] /\ task[w].pc = "ack"
        /\ UNCHANGED <<queue, mails, gaveUp, mailFaults>>
    BY <1>4 DEF Mail!Ack
  <2>3. Mail!MailTypeOK' /\ task'[w] = Mail!NoTask /\ Touches(w, k)
    BY <1>0, <1>1, <2>1, <2>2, TaskStep
  <2>4. w \notin Running(k) /\ w \notin Running(k)'
    BY <2>1, <2>2, <2>3 DEF Running
  <2> QED BY <1>0, <1>1, <2>2, <2>3, <2>4, EndStep
<1>5. CASE Mail!HardTimeLimit(w)
  <2>1. Mail!NoTask.pc = "idle"
    BY DEF Mail!NoTask
  <2>2. /\ task' = [task EXCEPT ![w] = Mail!NoTask] /\ task[w].pc = "send"
        /\ mails' = mails \/ mails' = [mails EXCEPT ![task[w].mail] = @ + 1]
        /\ gaveUp' = gaveUp \cup {task[w].mail}
        /\ mailFaults' = mailFaults + 1 /\ queue' = queue
    BY <1>5 DEF Mail!HardTimeLimit, Mail!MailFault, Mail!MaySend
  <2>3. Mail!MailTypeOK' /\ task'[w] = Mail!NoTask /\ Touches(w, k)
    BY <1>0, <1>1, <2>1, <2>2, TaskStep
  <2>4. w \in Running(k) /\ w \notin Running(k)'
    BY <1>1, <2>1, <2>2, <2>3 DEF Running
  <2>5. mails'[k] = mails[k] \/ mails'[k] = mails[k] + 1
    BY <1>1, <1>2, <2>2
  <2> QED BY <1>0, <1>1, <2>2, <2>3, <2>4, <2>5, EndStep
<1>6. CASE Mail!SendFails(w)
  <2> DEFINE t == [task[w] EXCEPT !.pc = "retry"]
  <2>1. t \in {Mail!NoTask} \cup Mail!Task /\ t.pc = "retry" /\ t.mail = k
    BY <1>1 DEF Mail!Task
  <2>2. /\ task' = [task EXCEPT ![w] = t] /\ task[w].pc = "send"
        /\ mails' = mails \/ mails' = [mails EXCEPT ![task[w].mail] = @ + 1]
        /\ mailFaults' = mailFaults + 1 /\ UNCHANGED <<queue, gaveUp>>
    BY <1>6 DEF Mail!SendFails, Mail!MailFault, Mail!MaySend
  <2> HIDE DEF t
  <2>3. Mail!MailTypeOK' /\ task'[w] = t /\ Touches(w, k)
    BY <1>0, <1>1, <2>1, <2>2, TaskStep
  <2>4. w \in Running(k) /\ w \in Running(k)'
    BY <1>1, <2>1, <2>2, <2>3 DEF Running
  <2>5. mails'[k] = mails[k] \/ mails'[k] = mails[k] + 1
    BY <1>1, <1>2, <2>2
  <2> QED BY <1>0, <1>1, <2>2, <2>3, <2>4, <2>5, EndStep
<1> QED BY <1>3, <1>4, <1>5, <1>6

\* A step that puts a message of the task back into the queue: it takes the
\* place of the running task, or a fault pays for it.
LEMMA RequeueStep ==
    ASSUME MailInv, effects \in [Keys -> Nat], effects' = effects,
           NEW w \in Workers, NEW k \in Keys, task[w].mail = k, task[w].pc # "idle",
           NEW n \in 0 .. MaxRetries, queue' = [queue EXCEPT ![k][n] = @ + 1],
           Mail!MailTypeOK', Touches(w, k), mails'[k] = mails[k],
           w \notin Running(k)',
           \/ w \in Running(k) /\ mailFaults' = mailFaults
           \/ mailFaults' = mailFaults + 1
    PROVE  MailInv'
<1>0. Mail!MailTypeOK /\ queue[k][n] \in Nat
  BY QueueEntry DEF MailInv
<1>1. /\ queue'[k][n] = queue[k][n] + 1
      /\ \A i \in (0 .. MaxRetries) \ {n} : queue'[k][i] = queue[k][i]
  BY <1>0, QueueGrows
<1>2. /\ IsFiniteSet(Messages(k)) /\ IsFiniteSet(Running(k)) /\ effects[k] > 0
      /\ mails[k] \in Nat /\ mailFaults \in Nat /\ effects[k] \in Nat
      /\ Cardinality(Messages(k)) \in Nat /\ Cardinality(Running(k)) \in Nat
      /\ mails[k] + Cardinality(Messages(k)) + Cardinality(Running(k)) <= effects[k] + mailFaults
  BY Counts
<1>3. /\ IsFiniteSet(Messages(k)')
      /\ Cardinality(Messages(k)') = Cardinality(Messages(k)) + 1
  BY <1>0, <1>1, <1>2, MessagesChange
<1>4. /\ IsFiniteSet(Running(k)')
      /\ w \in Running(k) => Cardinality(Running(k)') = Cardinality(Running(k)) - 1
      /\ w \notin Running(k) => Running(k)' = Running(k)
  BY <1>2, RunningChange DEF Touches
<1>5. mails'[k] + Cardinality(Messages(k)') + Cardinality(Running(k)') <= effects[k] + mailFaults'
  BY <1>2, <1>3, <1>4
<1>6. OnItsWay(k)'
  BY <1>0, <1>1 DEF OnItsWay
<1>7. mailFaults' >= mailFaults
  BY <1>2
<1> QED BY <1>2, <1>3, <1>4, <1>5, <1>6, <1>7, OneMail

\* A retry, or the last failure of a task, and a killed worker.
LEMMA RequeueKeeps ==
    ASSUME MailInv, effects \in [Keys -> Nat], effects' = effects, NEW w \in Workers,
           Mail!Retry(w) \/ Mail!Kill(w)
    PROVE  MailInv'
<1>0. Mail!MailTypeOK /\ task[w].pc # "idle"
  BY DEF MailInv, Mail!Retry, Mail!Kill
<1>1. PICK k \in Keys, n \in 0 .. MaxRetries :
          task[w] \in Mail!Task /\ k = task[w].mail /\ n = task[w].retries
  BY <1>0, TaskInHand
<1>2. CASE Mail!Retry(w)
  <2> DEFINE t == [task[w] EXCEPT !.pc = "ack"]
  <2>1. t \in {Mail!NoTask} \cup Mail!Task /\ t.pc = "ack" /\ t.mail = k
    BY <1>1 DEF Mail!Task
  <2>2. /\ task' = [task EXCEPT ![w] = t] /\ task[w].pc = "retry"
        /\ UNCHANGED <<mails, mailFaults>>
        /\ IF n < MaxRetries
           THEN queue' = [queue EXCEPT ![k][n + 1] = @ + 1] /\ gaveUp' = gaveUp
           ELSE gaveUp' = gaveUp \cup {k} /\ queue' = queue
    BY <1>1, <1>2 DEF Mail!Retry
  <2> HIDE DEF t
  <2>3. n < MaxRetries => n + 1 \in 0 .. MaxRetries
    BY MailAssumption
  <2>4. Mail!MailTypeOK' /\ task'[w] = t /\ Touches(w, k)
    BY <1>0, <1>1, <2>1, <2>2, <2>3, TaskStep
  <2>5. w \in Running(k) /\ w \notin Running(k)'
    BY <1>1, <2>1, <2>2, <2>4 DEF Running
  <2>6. CASE n < MaxRetries
    BY <1>0, <1>1, <2>2, <2>3, <2>4, <2>5, <2>6, RequeueStep
  <2>7. CASE ~ (n < MaxRetries)
    BY <1>0, <1>1, <2>2, <2>4, <2>5, <2>7, EndStep
  <2> QED BY <2>6, <2>7
<1>3. CASE Mail!Kill(w)
  <2>1. Mail!NoTask.pc = "idle"
    BY DEF Mail!NoTask
  <2>2. /\ task' = [task EXCEPT ![w] = Mail!NoTask] /\ UNCHANGED <<mails, gaveUp>>
        /\ queue' = [queue EXCEPT ![k][n] = @ + 1] /\ mailFaults' = mailFaults + 1
    BY <1>1, <1>3 DEF Mail!Kill, Mail!MailFault
  <2>3. Mail!MailTypeOK' /\ task'[w] = Mail!NoTask /\ Touches(w, k)
    BY <1>0, <1>1, <2>1, <2>2, TaskStep
  <2>4. w \notin Running(k)'
    BY <2>1, <2>3 DEF Running
  <2> QED BY <1>0, <1>1, <2>2, <2>3, <2>4, RequeueStep
<1> QED BY <1>2, <1>3

\* A retry that cannot be published.
LEMMA RetryFailsKeeps ==
    ASSUME MailInv, effects \in [Keys -> Nat], effects' = effects, NEW w \in Workers,
           Mail!RetryFails(w)
    PROVE  MailInv'
<1>0. Mail!MailTypeOK /\ task[w].pc = "retry" /\ Mail!NoTask.pc = "idle"
  BY DEF MailInv, Mail!RetryFails, Mail!NoTask
<1>1. PICK k \in Keys, n \in 0 .. MaxRetries :
          task[w] \in Mail!Task /\ k = task[w].mail /\ n = task[w].retries
  BY <1>0, TaskInHand
<1>2. /\ task' = [task EXCEPT ![w] = Mail!NoTask] /\ mails' = mails
      /\ gaveUp' = gaveUp \cup {k} /\ mailFaults' = mailFaults + 1
      /\ n < MaxRetries /\ queue' \in {queue, [queue EXCEPT ![k][n + 1] = @ + 1]}
  BY <1>1 DEF Mail!RetryFails, Mail!MailFault
<1>3. n + 1 \in 0 .. MaxRetries
  BY <1>2, MailAssumption
<1>4. Mail!MailTypeOK' /\ task'[w] = Mail!NoTask /\ Touches(w, k)
  BY <1>0, <1>1, <1>2, <1>3, TaskStep
<1>5. w \in Running(k) /\ w \notin Running(k)'
  BY <1>0, <1>1, <1>4 DEF Running
<1>6. CASE queue' = queue
  BY <1>0, <1>1, <1>2, <1>4, <1>5, <1>6, EndStep
<1>7. CASE queue' = [queue EXCEPT ![k][n + 1] = @ + 1]
  BY <1>0, <1>1, <1>2, <1>3, <1>4, <1>5, <1>7, RequeueStep
<1> QED BY <1>2, <1>6, <1>7

\* The bridge enqueues an e-mail: one effect more, one message more.
LEMMA EnqueueKeeps ==
    ASSUME IndInv, MailInv, NEW m \in Members, Enqueue(m)
    PROVE  MailInv'
<1>k. PICK k \in Keys : k = KeyOf(m)
  BY KeysInHand DEF Enqueue, DoEffect, At
<1>0. Mail!MailTypeOK /\ effects \in [Keys -> Nat] /\ 0 \in 0 .. MaxRetries
  BY MailAssumption DEF MailInv, IndInv, TypeOK
<1>1. /\ effects' = [effects EXCEPT ![k] = @ + 1]
      /\ queue' = [queue EXCEPT ![k][0] = queue[k][0] + 1]
      /\ UNCHANGED <<task, mails, gaveUp, mailFaults>>
  BY <1>k DEF Enqueue, DoEffect, Mail!Enqueue
<1>2. /\ queue' \in [Keys -> [0 .. MaxRetries -> Nat]]
      /\ queue'[k][0] = queue[k][0] + 1 /\ queue[k][0] \in Nat
      /\ \A i \in (0 .. MaxRetries) \ {0} : queue'[k][i] = queue[k][i]
      /\ \A q \in Keys \ {k} : queue'[q] = queue[q]
  <2>1. queue[k][0] \in Nat /\ queue[k][0] + 1 \in Nat
    BY <1>0, QueueEntry
  <2>2. PICK c \in Nat : c = queue[k][0] + 1
    BY <2>1
  <2>3. queue' = [queue EXCEPT ![k][0] = c]
    BY <1>1, <2>2
  <2>4. /\ queue' \in [Keys -> [0 .. MaxRetries -> Nat]]
        /\ queue'[k][0] = c
        /\ \A i \in (0 .. MaxRetries) \ {0} : queue'[k][i] = queue[k][i]
        /\ \A q \in Keys \ {k} : queue'[q] = queue[q]
    BY <1>0, <2>3, QueueChange
  <2> QED BY <2>1, <2>2, <2>4
<1>3. Mail!MailTypeOK'
  BY <1>0, <1>1, <1>2 DEF Mail!MailTypeOK
<1>4. effects'[k] = effects[k] + 1 /\ \A q \in Keys \ {k} : effects'[q] = effects[q]
  BY <1>0, <1>1
<1>5. /\ IsFiniteSet(Messages(k)')
      /\ Cardinality(Messages(k)') = Cardinality(Messages(k)) + 1
  BY <1>0, <1>2, <1>3, MessagesChange DEF MailInv, MailsCounted
<1>6. \A q \in Keys : Running(q)' = Running(q)
  BY <1>1 DEF Running
<1>7. \A q \in Keys \ {k} : Messages(q)' = Messages(q) /\ (OnItsWay(q)' <=> OnItsWay(q))
  BY <1>1, <1>2, <1>6, MessagesStay DEF OnItsWay
<1>8. OnItsWay(k)'
  BY <1>0, <1>2 DEF OnItsWay
<1>9. EnqueuedAccounted'
  <2>1. \A q \in Keys : effects'[q] > 0 <=> OnItsWay(q)'
    BY <1>0, <1>4, <1>7, <1>8 DEF MailInv, EnqueuedAccounted
  <2>2. ASSUME NEW w \in Workers, task'[w].pc # "idle" PROVE effects'[task'[w].mail] > 0
    <3>1. task[w].mail \in Keys /\ effects[task[w].mail] > 0
      BY <1>0, <1>1, <2>2, TaskInHand DEF MailInv, EnqueuedAccounted
    <3> QED BY <1>0, <1>1, <1>4, <3>1
  <2> QED BY <2>1, <2>2 DEF EnqueuedAccounted
<1>10. MailsCounted'
  <2> SUFFICES ASSUME NEW q \in Keys
               PROVE  /\ IsFiniteSet(Messages(q)') /\ IsFiniteSet(Running(q)')
                      /\ mails'[q] + Cardinality(Messages(q)') + Cardinality(Running(q)')
                            <= effects'[q] + mailFaults'
    BY DEF MailsCounted
  <2>1. /\ IsFiniteSet(Messages(q)) /\ IsFiniteSet(Running(q))
        /\ mails[q] \in Nat /\ mailFaults \in Nat /\ effects[q] \in Nat
        /\ Cardinality(Messages(q)) \in Nat /\ Cardinality(Running(q)) \in Nat
        /\ mails[q] + Cardinality(Messages(q)) + Cardinality(Running(q)) <= effects[q] + mailFaults
    BY <1>0, Counts
  <2>2. CASE q = k
    BY <1>1, <1>4, <1>5, <1>6, <2>1, <2>2
  <2>3. CASE q # k
    BY <1>1, <1>4, <1>6, <1>7, <2>1, <2>3
  <2> QED BY <2>2, <2>3
<1> QED BY <1>3, <1>9, <1>10 DEF MailInv

\* A step of the bridge that enqueues nothing changes no effects, no queue.
LEMMA QuietKeeps ==
    ASSUME MailInv, effects' = effects, UNCHANGED queueVars
    PROVE  MailInv'
<1>1. \A q \in Keys : Messages(q)' = Messages(q) /\ Running(q)' = Running(q)
  BY DEF Messages, Running, queueVars
<1>2. \A q \in Keys : OnItsWay(q)' <=> OnItsWay(q)
  BY <1>1 DEF OnItsWay, queueVars
<1>3. Mail!MailTypeOK' /\ EnqueuedAccounted'
  BY <1>2 DEF MailInv, Mail!MailTypeOK, EnqueuedAccounted, queueVars
<1>4. MailsCounted'
  BY <1>1 DEF MailInv, MailsCounted, queueVars
<1> QED BY <1>3, <1>4 DEF MailInv

\* In the beginning nothing is in the queue and nothing is sent.
LEMMA MailInvInit == PipelineInit => MailInv
<1> SUFFICES ASSUME PipelineInit PROVE MailInv
  OBVIOUS
<1>1. Mail!MailTypeOK
  BY DEF PipelineInit, Mail!MailInit, Mail!MailTypeOK
<1>2. \A k \in Keys : Messages(k) = {} /\ Running(k) = {} /\ effects[k] = 0 /\ mails[k] = 0
  <2> TAKE k \in Keys
  <2>1. \A n \in 0 .. MaxRetries : queue[k][n] = 0
    BY DEF PipelineInit, Mail!MailInit
  <2>2. Messages(k) = {}
    BY <2>1 DEF Messages
  <2> QED BY <2>2 DEF PipelineInit, Init, Mail!MailInit, Mail!NoTask, Running
<1>3. EnqueuedAccounted
  BY <1>2 DEF PipelineInit, Mail!MailInit, Mail!NoTask, EnqueuedAccounted, OnItsWay
<1>4. MailsCounted
  <2>1. mailFaults = 0
    BY DEF PipelineInit, Mail!MailInit
  <2> QED BY <1>2, <2>1, FS_EmptySet DEF MailsCounted
<1> QED BY <1>1, <1>3, <1>4 DEF MailInv

\* Every step keeps the invariant.
LEMMA MailInvNext == IndInv /\ MailInv /\ [PipelineNext]_pipelineVars => MailInv'
<1> SUFFICES ASSUME IndInv, MailInv, [PipelineNext]_pipelineVars PROVE MailInv'
  OBVIOUS
<1>0. effects \in [Keys -> Nat]
  BY DEF IndInv, TypeOK
<1>1. CASE \E m \in Members : Enqueue(m)
  BY <1>1, EnqueueKeeps
<1>2. CASE (\E m \in Members : Bridge(m)) \/ Disturb
  <2>1. effects' = effects /\ UNCHANGED queueVars
    BY <1>2 DEF Bridge, Disturb, Receive, ClaimKey, CommitClaim, CommitOffset,
       HandlerFails, Crash, Rebalance, groupVars
  <2> QED BY <2>1, QuietKeeps
<1>3. CASE Mail!MailNext /\ UNCHANGED vars
  <2>1. effects' = effects
    BY <1>3 DEF vars, groupVars
  <2> QED BY <1>0, <1>3, <2>1, TakeKeeps, EndKeeps, RequeueKeeps, RetryFailsKeeps
          DEF Mail!MailNext, Mail!Work, Mail!Disrupt
<1>4. CASE UNCHANGED pipelineVars
  BY <1>4, QuietKeeps DEF pipelineVars, vars, groupVars
<1>5. CASE (\E k \in Keys : Produce(k)) /\ UNCHANGED queueVars
  <2>1. effects' = effects
    BY <1>5 DEF Produce, groupVars
  <2> QED BY <1>5, <2>1, QuietKeeps
<1> QED BY <1>1, <1>2, <1>3, <1>4, <1>5 DEF PipelineNext, PipelineStep

\* The queue and the workers keep their invariant in every reachable state.
THEOREM MailInvariance == PipelineSpec => []MailInv
<1> QED BY MailInvInit, MailInvNext, BridgeInvariance, PTL DEF PipelineSpec

\* A student gets a second welcome e-mail only for a failure on the way: of the
\* bridge, of a send, of a worker.
THEOREM MailsAreEffectsAndFaults == PipelineSpec => []MailsBounded
<1>1. IndInv /\ MailInv => MailsBounded
  <2> SUFFICES ASSUME IndInv, MailInv, NEW k \in Keys
               PROVE  mails[k] <= 1 + failures + crashes + mailFaults
    BY DEF MailsBounded
  <2>1. effects \in [Keys -> Nat] /\ effects[k] <= failures + crashes + 1
        /\ failures \in Nat /\ crashes \in Nat
    BY DEF IndInv, TypeOK, EffectsCounted
  <2>2. /\ mails[k] \in Nat /\ mailFaults \in Nat /\ effects[k] \in Nat
        /\ Cardinality(Messages(k)) \in Nat /\ Cardinality(Running(k)) \in Nat
        /\ mails[k] + Cardinality(Messages(k)) + Cardinality(Running(k)) <= effects[k] + mailFaults
    BY <2>1, Counts
  <2> QED BY <2>1, <2>2
<1> QED BY <1>1, MailInvariance, BridgeInvariance, PTL

\* The dedupe row of an event is committed only with the e-mail sent, a task of
\* it on its way or given up: no crash in between loses it.
THEOREM ClaimedIsNotLost == PipelineSpec => []ClaimedIsOnItsWay
<1>1. IndInv /\ MailInv => ClaimedIsOnItsWay
  <2> SUFFICES ASSUME IndInv, MailInv, NEW k \in processed
               PROVE  \/ mails[k] > 0 \/ k \in gaveUp
                      \/ \E n \in 0 .. MaxRetries : queue[k][n] > 0
                      \/ \E w \in Workers : task[w].pc # "idle" /\ task[w].mail = k
    BY DEF ClaimedIsOnItsWay
  <2>1. k \in Keys /\ effects[k] > 0
    BY DEF IndInv, TypeOK, ProcessedHasEffect
  <2>2. OnItsWay(k)
    BY <2>1 DEF MailInv, EnqueuedAccounted
  <2> QED BY <2>2 DEF OnItsWay, Running
<1> QED BY <1>1, MailInvariance, BridgeInvariance, PTL

-----------------------------------------------------------------------------
(* Refinement                                                               *)

\* The e-mail k, which was enqueued, goes out or is given up, or neither.
Ships(k) ==
    /\ effects[k] > 0
    /\ mails' = mails \/ mails' = [mails EXCEPT ![k] = @ + 1]
    /\ gaveUp' = gaveUp \/ gaveUp' = gaveUp \cup {k}

\* What a worker's step does to the outside: nothing, or the e-mail of its task,
\* which was enqueued, goes out or is given up.
LEMMA ShipsOneMail ==
    ASSUME MailInv, NEW w \in Workers,
           Mail!Work(w) \/ Mail!Disrupt(w)
    PROVE  \/ UNCHANGED <<mails, gaveUp>>
           \/ \E k \in Keys : Ships(k)
<1>1. CASE task[w].pc = "idle"
  BY <1>1 DEF Mail!Work, Mail!Take, Mail!Send, Mail!Retry, Mail!Ack, Mail!Disrupt,
     Mail!SendFails, Mail!RetryFails, Mail!HardTimeLimit, Mail!Kill
<1>2. CASE task[w].pc # "idle"
  <2>1. task[w].mail \in Keys /\ effects[task[w].mail] > 0
    BY <1>2, TaskInHand DEF MailInv, EnqueuedAccounted
  <2> QED BY <1>2, <2>1 DEF Mail!Work, Mail!Take, Mail!Send, Mail!Retry, Mail!Ack,
          Mail!Disrupt, Mail!SendFails, Mail!RetryFails, Mail!HardTimeLimit, Mail!Kill,
          Mail!MaySend, Ships
<1> QED BY <1>1, <1>2

\* A step of the promise, or one that looks like nothing to the outside.
Keeps == [Delivery!Next]_(Delivery!vars)

\* Such a step delivers the e-mail, gives it up, or repeats what was done.
LEMMA ShipsOnce ==
    ASSUME MailInv, NEW k \in Keys, Ships(k)
    PROVE  LET lost == gaveUp \ Mailed
           IN \/ UNCHANGED <<Mailed, lost>>
              \/ k \notin Mailed /\ Mailed' = Mailed \cup {k} /\ lost' = lost \ {k}
              \/ k \notin Mailed \cup lost /\ Mailed' = Mailed /\ lost' = lost \cup {k}
<1> USE DEF Ships
<1>1. mails \in [Keys -> Nat] /\ mails[k] \in Nat /\ gaveUp \subseteq Keys
  BY DEF MailInv, Mail!MailTypeOK
<1>2. /\ mails'[k] = mails[k] \/ mails'[k] = mails[k] + 1
      /\ \A q \in Keys \ {k} : mails'[q] = mails[q]
  BY <1>1
<1>3. Mailed' = Mailed \/ (k \notin Mailed /\ Mailed' = Mailed \cup {k})
  BY <1>1, <1>2 DEF Mailed
<1>4. gaveUp' = gaveUp \/ gaveUp' = gaveUp \cup {k}
  OBVIOUS
<1> QED BY <1>3, <1>4

\* That refines the promise.
LEMMA ShippingRefines ==
    ASSUME MailInv, effects' = effects, NEW k \in Keys, Ships(k)
    PROVE  Keeps
<1> DEFINE accepted == {q \in Keys : effects[q] > 0}
<1>1. accepted' = accepted /\ k \in accepted
  BY DEF Ships
<1> HIDE DEF accepted
<1> QED BY <1>1, ShipsOnce DEF Keeps, accepted, Delivery!vars, Delivery!Next,
           Delivery!Deliver, Delivery!Lose

\* The pipeline refines the safety part of Delivery: only e-mails that were
\* enqueued go out or are given up, one at a time.
THEOREM PipelineDelivers == PipelineSpec => DeliversEnqueued
<1>1. PipelineInit => Delivery!Init
  BY DEF PipelineInit, Init, Mail!MailInit, Delivery!Init, Mailed
<1>2. IndInv /\ MailInv /\ [PipelineNext]_pipelineVars => Keeps
  <2> SUFFICES ASSUME IndInv, MailInv, [PipelineNext]_pipelineVars
               PROVE  Keeps
    OBVIOUS
  <2>1. ASSUME NEW m \in Members, Enqueue(m) PROVE Keeps
    <3> DEFINE accepted == {q \in Keys : effects[q] > 0}
    <3>1. PICK k \in Keys : k = KeyOf(m)
      BY <2>1, KeysInHand DEF Enqueue, DoEffect, At
    <3>2. /\ effects' = [effects EXCEPT ![k] = @ + 1] /\ effects \in [Keys -> Nat]
          /\ UNCHANGED <<mails, gaveUp>>
      BY <2>1, <3>1 DEF Enqueue, DoEffect, Mail!Enqueue, IndInv, TypeOK
    <3>3. accepted' = accepted \cup {k}
      BY <3>2
    <3>4. CASE k \in accepted
      BY <3>2, <3>3, <3>4 DEF Keeps, Delivery!vars, Mailed
    <3>5. CASE k \notin accepted
      <4>1. Delivery!Accept(k)
        BY <3>2, <3>3, <3>5 DEF Delivery!Accept, Mailed
      <4> QED BY <4>1 DEF Keeps, Delivery!Next
    <3> QED BY <3>4, <3>5
  <2>2. CASE UNCHANGED <<effects, mails, gaveUp>>
    BY <2>2 DEF Keeps, Delivery!vars, Mailed
  <2>3. CASE (\E m \in Members : Bridge(m)) \/ Disturb
    <3>1. UNCHANGED <<effects, mails, gaveUp>>
      BY <2>3 DEF Bridge, Disturb, Receive, ClaimKey, CommitClaim, CommitOffset,
         HandlerFails, Crash, Rebalance, groupVars, queueVars
    <3> QED BY <2>2, <3>1
  <2>4. CASE Mail!MailNext /\ UNCHANGED vars
    <3>1. effects' = effects
      BY <2>4 DEF vars, groupVars
    <3>2. PICK w \in Workers :
              Mail!Work(w) \/ Mail!Disrupt(w)
      BY <2>4 DEF Mail!MailNext
    <3>3. CASE UNCHANGED <<mails, gaveUp>>
      BY <2>2, <3>1, <3>3
    <3>4. ASSUME NEW k \in Keys, Ships(k) PROVE Keeps
      BY <3>1, <3>4, ShippingRefines
    <3> QED BY <3>2, <3>3, <3>4, ShipsOneMail
  <2>5. CASE UNCHANGED pipelineVars
    BY <2>2, <2>5 DEF pipelineVars, vars, groupVars, queueVars
  <2>6. CASE (\E k \in Keys : Produce(k)) /\ UNCHANGED queueVars
    BY <2>2, <2>6 DEF Produce, groupVars, queueVars
  <2> QED BY <2>1, <2>3, <2>4, <2>5, <2>6 DEF PipelineNext, PipelineStep
<1> QED BY <1>1, <1>2, MailInvariance, BridgeInvariance, PTL
        DEF PipelineSpec, DeliversEnqueued, Delivery!Safety, Keeps

-----------------------------------------------------------------------------
(* From the outbox to the e-mail                                             *)

\* What a step of the relay does to the partition.
LEMMA PartitionGrows ==
    ASSUME Relay!Next
    PROVE  log' = log \/ \E k \in Keys : log' = Append(log, k)
  BY DEF Relay!Next, Relay!RelayNext, Relay!Tick, Relay!Enqueue, Relay!Claim, Relay!Publish,
         Relay!CommitTick, Relay!SendFails, Relay!StrayPublish, Relay!CommitFails, Relay!Crash

\* To the bridge the relay is a producer, or does nothing.
LEMMA UpstreamProduces ==
    ASSUME log \in Seq(Keys), Upstream
    PROVE  \/ (\E k \in Keys : Produce(k)) /\ UNCHANGED queueVars
           \/ UNCHANGED pipelineVars
<1>1. CASE log' = log
  BY <1>1 DEF Upstream, pipelineVars, vars
<1>2. ASSUME NEW k \in Keys, log' = Append(log, k)
      PROVE  Produce(k)
  <2>1. Len(log') = Len(log) + 1 /\ Len(log) \in Nat
    BY <1>2
  <2> QED BY <1>2, <2>1, BoundsAssumption DEF Upstream, Produce
<1> QED BY <1>1, <1>2, PartitionGrows DEF Upstream

LEMMA FlowIsPipeline ==
    ASSUME log \in Seq(Keys), [FlowNext]_flowVars
    PROVE  [PipelineNext]_pipelineVars
  BY UpstreamProduces DEF FlowNext, Downstream, PipelineNext, flowVars

\* To the relay the bridge and the workers do nothing.
LEMMA FlowIsRelay ==
    ASSUME [FlowNext]_flowVars
    PROVE  [Relay!Next]_(Relay!vars)
<1>1. ASSUME PipelineStep PROVE log' = log
  BY <1>1 DEF PipelineStep, Bridge, Enqueue, Disturb, Receive, ClaimKey, DoEffect, CommitClaim,
     CommitOffset, HandlerFails, Crash, Rebalance, vars
<1> QED BY <1>1 DEF FlowNext, Upstream, Downstream, flowVars, pipelineVars, vars, relayState,
        Relay!vars, Relay!relayVars

\* In the composition each part behaves as its own module says, its scheduling
\* included: what holds of the parts holds of the whole.
THEOREM FlowOfParts == FlowSpec => Relay!FairSpec /\ FairSpec /\ PipelineSpec
<1>1. FlowInit => Relay!Init /\ PipelineInit /\ Init /\ IndInv
  BY IndInit DEF FlowInit, PipelineInit
<1>2. IndInv => log \in Seq(Keys)
  BY DEF IndInv, TypeOK
<1>3. IndInv /\ [FlowNext]_flowVars => [PipelineNext]_pipelineVars
  BY <1>2, FlowIsPipeline
<1>4. [FlowNext]_flowVars => [Relay!Next]_(Relay!vars)
  BY FlowIsRelay
<1> QED BY <1>1, <1>3, <1>4, BridgeStep, IndNext, PTL
        DEF FlowSpec, Relay!FairSpec, Relay!Spec, FairSpec, Spec, PipelineSpec

\* What the relay has in hand and what it stores was committed to the outbox, and
\* what is stored stays.
Staged == Relay!TypeOK /\ Relay!OnlyStaged

LEMMA LogWithOneMore ==
    ASSUME log \in Seq(Keys), NEW k \in Keys, log' = Append(log, k)
    PROVE  log' \in Seq(Keys) /\ Relay!Logged' = Relay!Logged \cup {k}
<1>1. /\ log' \in Seq(Keys) /\ Len(log') = Len(log) + 1
      /\ \A i \in 1 .. Len(log) : log'[i] = log[i]
      /\ log'[Len(log) + 1] = k
  OBVIOUS
<1>2. Len(log) \in Nat /\ DOMAIN log = 1 .. Len(log) /\ DOMAIN log' = 1 .. (Len(log) + 1)
  BY <1>1
<1>3. Relay!Logged \cup {k} \subseteq Relay!Logged'
  BY <1>1, <1>2, SMT DEF Relay!Logged
<1>4. Relay!Logged' \subseteq Relay!Logged \cup {k}
  BY <1>1, <1>2, SMT DEF Relay!Logged
<1> QED BY <1>1, <1>3, <1>4

LEMMA SameLog == log' = log => Relay!Logged' = Relay!Logged
  BY DEF Relay!Logged

LEMMA StagedInit == Relay!Init => Staged
<1> SUFFICES ASSUME Relay!Init PROVE Staged
  OBVIOUS
<1>1. Relay!Logged = {}
  BY DEF Relay!Init, Relay!Logged
<1> QED BY <1>1 DEF Relay!Init, Staged, Relay!TypeOK, Relay!OnlyStaged, Relay!NoStray

LEMMA StagedNext ==
    ASSUME Staged, [Relay!Next]_(Relay!vars)
    PROVE  Staged' /\ Relay!Logged \subseteq Relay!Logged'
<1> USE DEF Staged, Relay!TypeOK, Relay!OnlyStaged
<1> DEFINE Kept == Staged' /\ Relay!Logged \subseteq Relay!Logged'
<1>1. ASSUME NEW row \in Keys, Relay!Enqueue(row) PROVE Kept
  BY <1>1, SameLog DEF Relay!Enqueue, Relay!relayVars
<1>2. ASSUME NEW r \in Relays, Relay!Claim(r) PROVE Kept
  <2>1. Relay!Batch(Relay!Claimable(r)) \subseteq outbox
    BY DEF Relay!Batch, Relay!Claimable
  <2> QED BY <1>2, <2>1, SameLog DEF Relay!Claim
<1>3. ASSUME NEW r \in Relays, NEW row \in Keys, Relay!Publish(r, row) PROVE Kept
  BY <1>3, LogWithOneMore DEF Relay!Publish
<1>4. ASSUME NEW r \in Relays, Relay!CommitTick(r) PROVE Kept
  BY <1>4, SameLog DEF Relay!CommitTick
<1>5. ASSUME NEW r \in Relays, NEW row \in Keys, Relay!SendFails(r, row) PROVE Kept
  <2>1. log' = log \/ log' = Append(log, row)
    BY <1>5 DEF Relay!SendFails
  <2>2. /\ log' \in Seq(Keys)
        /\ Relay!Logged \subseteq Relay!Logged' /\ Relay!Logged' \subseteq Relay!Logged \cup {row}
    BY <2>1, SameLog, LogWithOneMore
  <2> QED BY <1>5, <2>2 DEF Relay!SendFails
<1>6. ASSUME NEW r \in Relays, NEW row \in Keys, Relay!StrayPublish(r, row) PROVE Kept
  BY <1>6, LogWithOneMore DEF Relay!StrayPublish
<1>7. ASSUME NEW r \in Relays, Relay!Crash(r) PROVE Kept
  BY <1>7, SameLog DEF Relay!Crash, Relay!NoStray
<1>8. ASSUME NEW r \in Relays, Relay!CommitFails(r) PROVE Kept
  BY <1>8, SameLog DEF Relay!CommitFails
<1>9. CASE UNCHANGED Relay!vars
  BY <1>9, SameLog DEF Relay!vars, Relay!relayVars
<1> QED BY <1>1, <1>2, <1>3, <1>4, <1>5, <1>6, <1>7, <1>8, <1>9
        DEF Relay!Next, Relay!RelayNext, Relay!Tick

\* The bridge does the effect of a message that it has read from the partition.
LEMMA EffectsStayLogged ==
    ASSUME IndInv, FlowInv, [FlowNext]_flowVars
    PROVE  EffectsAreLogged'
<1> SUFFICES ASSUME NEW k \in Keys, effects'[k] > 0
             PROVE  k \in Relay!Logged'
  BY DEF EffectsAreLogged
<1>1. Relay!Logged \subseteq Relay!Logged'
  BY FlowIsRelay, StagedNext DEF FlowInv, Staged
<1>2. CASE effects'[k] = effects[k]
  BY <1>1, <1>2 DEF FlowInv, EffectsAreLogged
<1>3. CASE effects'[k] # effects[k]
  <2>1. PICK m \in Members : DoEffect(m)
    BY <1>3 DEF FlowNext, Upstream, Downstream, flowVars, pipelineVars, vars, groupVars,
       PipelineStep, Bridge, Enqueue, Disturb, Receive, ClaimKey, CommitClaim, CommitOffset,
       HandlerFails, Crash, Rebalance
  <2>2. k = KeyOf(m)
    BY <1>3, <2>1 DEF DoEffect, IndInv, TypeOK
  <2>3. member[m].current \in DOMAIN log
    BY <2>1 DEF DoEffect, At, IndInv, InHand
  <2>4. k \in Relay!Logged
    BY <2>2, <2>3 DEF KeyOf, Relay!Logged
  <2> QED BY <1>1, <2>4
<1> QED BY <1>2, <1>3

\* Whatever is in the partition, done or sent was committed to the outbox.
THEOREM FlowInvariance == FlowSpec => []FlowInv
<1>1. FlowInit => FlowInv
  BY StagedInit DEF FlowInit, PipelineInit, Init, FlowInv, Staged, EffectsAreLogged
<1>2. IndInv /\ FlowInv /\ [FlowNext]_flowVars => FlowInv'
  BY FlowIsRelay, StagedNext, EffectsStayLogged DEF FlowInv, Staged
<1>3. FlowSpec => []IndInv
  BY FlowOfParts, BridgeInvariance, PTL
<1> QED BY <1>1, <1>2, <1>3, PTL DEF FlowSpec

\* The outbox grows by one event that was not there, or stays.
LEMMA OneStaged ==
    ASSUME Relay!Next
    PROVE  outbox' = outbox \/ \E k \in Keys \ outbox : outbox' = outbox \cup {k}
  BY DEF Relay!Next, Relay!RelayNext, Relay!Tick, Relay!Enqueue, Relay!Claim, Relay!Publish,
         Relay!CommitTick, Relay!SendFails, Relay!StrayPublish, Relay!CommitFails, Relay!Crash

\* From the outbox to the student: an e-mail goes out, or is given up, only for a
\* committed enrollment, whatever is repeated, fails or crashes on the way.
THEOREM OnlyEnrolled == FlowSpec => OnlyEnrolledAreMailed
<1> DEFINE Promise == [Flow!Next]_(Flow!vars)
           FullInv == IndInv /\ MailInv /\ FlowInv
<1>1. FlowInit => Flow!Init
  BY DEF FlowInit, PipelineInit, Mail!MailInit, Relay!Init, Flow!Init, Mailed
<1>2. FullInv /\ [FlowNext]_flowVars => Promise
  <2> SUFFICES ASSUME FullInv, [FlowNext]_flowVars PROVE Promise
    OBVIOUS
  <2> USE DEF Flow!vars
  <2>1. CASE UNCHANGED <<outbox, mails, gaveUp>>
    BY <2>1 DEF Mailed
  <2>2. CASE Upstream
    <3>1. UNCHANGED <<mails, gaveUp>>
      BY <2>2 DEF Upstream, queueVars
    <3>2. ASSUME NEW k \in Keys \ outbox, outbox' = outbox \cup {k} PROVE Flow!Accept(k)
      BY <3>1, <3>2 DEF Flow!Accept, Mailed
    <3> QED BY <2>1, <2>2, <3>1, <3>2, OneStaged DEF Upstream, Flow!Next
  <2>3. CASE Downstream
    <3>1. outbox' = outbox
      BY <2>3 DEF Downstream, relayState
    <3>2. CASE Mail!MailNext
      <4>1. PICK w \in Workers :
                Mail!Work(w) \/ Mail!Disrupt(w)
        BY <3>2 DEF Mail!MailNext
      <4>2. ASSUME NEW k \in Keys, Ships(k) PROVE Promise
        <5>1. k \in outbox
          BY <4>2 DEF Ships, FlowInv, EffectsAreLogged, Relay!OnlyStaged
        <5> QED BY <3>1, <4>2, <5>1, ShipsOnce DEF Flow!Next, Flow!Deliver, Flow!Lose
      <4> QED BY <2>1, <3>1, <4>1, <4>2, ShipsOneMail
    <3>3. CASE ~ Mail!MailNext
      <4>1. CASE \E m \in Members : Enqueue(m)
        BY <2>1, <3>1, <4>1 DEF Enqueue, Mail!Enqueue
      <4>2. CASE UNCHANGED queueVars
        BY <2>1, <3>1, <4>2 DEF queueVars
      <4> QED BY <2>3, <3>3, <4>1, <4>2 DEF Downstream, PipelineStep, Bridge, Disturb
    <3> QED BY <3>2, <3>3
  <2>4. CASE UNCHANGED flowVars
    BY <2>1, <2>4 DEF flowVars, pipelineVars, queueVars, relayState
  <2> QED BY <2>2, <2>3, <2>4 DEF FlowNext
<1>3. FlowSpec => []FullInv
  BY FlowOfParts, FlowInvariance, BridgeInvariance, MailInvariance, PTL
<1> QED BY <1>1, <1>2, <1>3, PTL DEF FlowSpec, OnlyEnrolledAreMailed, Flow!Safety
=============================================================================
