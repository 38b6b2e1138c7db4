-------------------------- MODULE OutboxRelayProofs --------------------------
(* Proofs about OutboxRelay, for any outbox, number of replicas, batch size *)
(* and number of faults: no event is lost, none is invented, and replicas   *)
(* never work on the same row.                                              *)
EXTENDS OutboxRelay, FiniteSetTheorems, TLAPS

\* Appending to the log keeps what is stored and adds the new message.
LEMMA LogGrows ==
    ASSUME log \in Seq(Rows), NEW row \in Rows, log' = Append(log, row)
    PROVE  log' \in Seq(Rows) /\ Logged' = Logged \cup {row}
<1>1. /\ log' \in Seq(Rows) /\ Len(log') = Len(log) + 1
      /\ \A i \in 1..Len(log) : log'[i] = log[i]
      /\ log'[Len(log) + 1] = row
  OBVIOUS
<1>2. Len(log) \in Nat /\ DOMAIN log = 1..Len(log) /\ DOMAIN log' = 1..(Len(log) + 1)
  BY <1>1
<1>3. Logged \cup {row} \subseteq Logged'
  BY <1>1, <1>2, SMT DEF Logged
<1>4. Logged' \subseteq Logged \cup {row}
  BY <1>1, <1>2, SMT DEF Logged
<1> QED BY <1>1, <1>3, <1>4

\* What does not touch the log leaves the stored messages alone.
LEMMA LogStays == log' = log => Logged' = Logged
  BY DEF Logged

\* A batch consists of available rows, and is empty only if none is available.
LEMMA BatchOf == ASSUME NEW available PROVE Batch(available) \subseteq available
  BY DEF Batch

\* A replica claims rows that are committed, not sent and not locked by others.
LEMMA ClaimedRows ==
    ASSUME NEW r \in Relays
    PROVE  /\ Batch(Claimable(r)) \subseteq outbox \ sent
           /\ \A q \in Relays \ {r} : Batch(Claimable(r)) \cap claim[q] = {}
<1>1. Batch(Claimable(r)) \subseteq Claimable(r)
  BY BatchOf
<1> QED BY <1>1 DEF Claimable, LockedElsewhere

\* The initial states satisfy the inductive invariant.
LEMMA IndInit == Init => IndInv
<1> SUFFICES ASSUME Init PROVE IndInv
  OBVIOUS
<1>1. Logged = {}
  BY DEF Init, Logged
<1> QED BY <1>1, RowsAssumption
        DEF Init, IndInv, TypeOK, AckedIsLogged, SentIsLogged, OnlyStaged, ClaimsDisjoint, NoStray

\* Every step keeps the inductive invariant.
LEMMA IndNext == IndInv /\ [Next]_vars => IndInv'
<1> SUFFICES ASSUME IndInv, [Next]_vars PROVE IndInv'
  OBVIOUS
<1> USE DEF IndInv, TypeOK, AckedIsLogged, SentIsLogged, OnlyStaged, ClaimsDisjoint
<1>1. ASSUME NEW row \in Rows, Enqueue(row) PROVE IndInv'
  BY <1>1, LogStays DEF Enqueue, relayVars
<1>2. ASSUME NEW r \in Relays, Claim(r) PROVE IndInv'
  BY <1>2, LogStays, ClaimedRows DEF Claim
<1>3. ASSUME NEW r \in Relays, NEW row \in Rows, Publish(r, row) PROVE IndInv'
  BY <1>3, LogGrows DEF Publish
<1>4. ASSUME NEW r \in Relays, CommitTick(r) PROVE IndInv'
  BY <1>4, LogStays DEF CommitTick
<1>5. ASSUME NEW r \in Relays, NEW row \in Rows, SendFails(r, row) PROVE IndInv'
  <2>1. log' = log \/ log' = Append(log, row)
    BY <1>5 DEF SendFails
  <2>2. log' \in Seq(Rows) /\ Logged \subseteq Logged' /\ Logged' \subseteq Logged \cup {row}
    BY <2>1, LogStays, LogGrows
  <2> QED BY <1>5, <2>2 DEF SendFails
<1>6. ASSUME NEW r \in Relays, NEW row \in Rows, StrayPublish(r, row) PROVE IndInv'
  BY <1>6, LogGrows DEF StrayPublish
<1>7. ASSUME NEW r \in Relays, CommitFails(r) PROVE IndInv'
  BY <1>7, LogStays DEF CommitFails
<1>8. ASSUME NEW r \in Relays, Crash(r) PROVE IndInv'
  BY <1>8, LogStays DEF Crash, NoStray
<1>9. CASE UNCHANGED vars
  BY <1>9, LogStays DEF vars, relayVars
<1> QED BY <1>1, <1>2, <1>3, <1>4, <1>5, <1>6, <1>7, <1>8, <1>9 DEF Next, RelayNext, Tick

\* The invariant holds in every reachable state.
THEOREM InductiveInvariance == Spec => []IndInv
<1> QED BY IndInit, IndNext, PTL DEF Spec

\* No event loss: a row is stamped sent only when Kafka has stored its message.
THEOREM NoEventLoss == Spec => []SentIsLogged
<1>1. IndInv => SentIsLogged
  BY DEF IndInv
<1> QED BY <1>1, InductiveInvariance, PTL

\* Kafka stores nothing that no committed transaction has staged.
THEOREM NothingInvented == Spec => []OnlyStaged
<1>1. IndInv => OnlyStaged
  BY DEF IndInv
<1> QED BY <1>1, InductiveInvariance, PTL

\* Replicas always work on disjoint batches of unsent rows.
THEOREM DisjointBatches == Spec => []ClaimsDisjoint
<1>1. IndInv => ClaimsDisjoint
  BY DEF IndInv
<1> QED BY <1>1, InductiveInvariance, PTL

-----------------------------------------------------------------------------
(* Repeated messages                                                        *)

\* Appending a message makes one copy more of its row.
LEMMA CopiesGrow ==
    ASSUME log \in Seq(Rows), NEW row \in Rows, NEW q \in Rows
    PROVE  /\ Copies(q) \in Nat
           /\ log' = Append(log, row) =>
                 Copies(q)' = IF q = row THEN Copies(q) + 1 ELSE Copies(q)
           /\ log' = log => Copies(q)' = Copies(q)
<1> DEFINE At(l) == {i \in DOMAIN l : l[i] = q}
<1>1. Len(log) \in Nat /\ DOMAIN log = 1 .. Len(log)
  OBVIOUS
<1>2. IsFiniteSet(At(log)) /\ Cardinality(At(log)) \in Nat
  <2>1. IsFiniteSet(1 .. Len(log))
    BY <1>1, FS_Interval
  <2>2. At(log) \in SUBSET (1 .. Len(log))
    BY <1>1
  <2> QED BY <2>1, <2>2, FS_Subset, FS_CardinalityType
<1>3. ASSUME log' = Append(log, row)
      PROVE  Cardinality(At(log')) = IF q = row THEN Cardinality(At(log)) + 1
                                     ELSE Cardinality(At(log))
  <2>1. /\ DOMAIN log' = 1 .. (Len(log) + 1)
        /\ \A i \in 1 .. Len(log) : log'[i] = log[i]
        /\ log'[Len(log) + 1] = row
    BY <1>1, <1>3
  <2>2. At(log') = IF q = row THEN At(log) \cup {Len(log) + 1} ELSE At(log)
    BY <1>1, <2>1
  <2>3. Len(log) + 1 \notin At(log)
    BY <1>1
  <2> HIDE DEF At
  <2> QED BY <1>2, <2>2, <2>3, FS_AddElement
<1> QED BY <1>2, <1>3 DEF Copies

\* A stray send is a pair of a replica and a number.
LEMMA StrayPairs ==
    ASSUME NEW q
    PROVE  \A x : x \in Strays(q) <=>
               \E r \in Relays : \E n \in 1 .. stray[r][q] : x = <<r, n>>
  BY DEF Strays

\* While the stray sends of a row do not change, neither does their number.
LEMMA StraysStay ==
    ASSUME NEW q, \A r \in Relays : stray'[r][q] = stray[r][q]
    PROVE  Strays(q)' = Strays(q)
  BY DEF Strays

\* One send more or less of row q left behind by replica r.
LEMMA StraysChange ==
    ASSUME TypeOK, TypeOK', NEW r \in Relays, NEW q \in Rows, IsFiniteSet(Strays(q)),
           \A p \in Relays \ {r} : stray'[p][q] = stray[p][q]
    PROVE  /\ stray'[r][q] = stray[r][q] + 1 =>
                 /\ IsFiniteSet(Strays(q)')
                 /\ Cardinality(Strays(q)') = Cardinality(Strays(q)) + 1
           /\ stray'[r][q] = stray[r][q] - 1 =>
                 /\ IsFiniteSet(Strays(q)')
                 /\ Cardinality(Strays(q)') = Cardinality(Strays(q)) - 1
           /\ stray'[r][q] = 0 =>
                 /\ IsFiniteSet(Strays(q)')
                 /\ Cardinality(Strays(q)') <= Cardinality(Strays(q))
<1> DEFINE n == stray[r][q]
           S == Strays(q)
           T == Strays(q)'
<1>0. n \in Nat /\ stray'[r][q] \in Nat
  BY DEF TypeOK
<1>1. \A x : x \in S <=> \E p \in Relays : \E i \in 1 .. stray[p][q] : x = <<p, i>>
  BY StrayPairs
<1>2. \A x : x \in T <=> \E p \in Relays : \E i \in 1 .. stray'[p][q] : x = <<p, i>>
  BY DEF Strays
<1>3. ASSUME stray'[r][q] = n + 1
      PROVE  T = S \cup {<<r, n + 1>>} /\ <<r, n + 1>> \notin S
  <2>1. \A i : i \in 1 .. (n + 1) <=> i \in 1 .. n \/ i = n + 1
    BY <1>0
  <2>2. <<r, n + 1>> \notin S
    BY <1>0, <1>1
  <2>3. T \subseteq S \cup {<<r, n + 1>>}
    BY <1>1, <1>2, <1>3, <2>1
  <2>4. S \cup {<<r, n + 1>>} \subseteq T
    BY <1>1, <1>2, <1>3, <2>1
  <2> QED BY <2>2, <2>3, <2>4
<1>4. ASSUME stray'[r][q] = n - 1
      PROVE  T = S \ {<<r, n>>} /\ <<r, n>> \in S
  <2>1. n > 0 /\ \A i : i \in 1 .. (n - 1) <=> i \in 1 .. n /\ i # n
    BY <1>0, <1>4
  <2>2. <<r, n>> \in S
    BY <1>0, <1>1, <2>1
  <2>3. T \subseteq S \ {<<r, n>>}
    BY <1>1, <1>2, <1>4, <2>1
  <2>4. S \ {<<r, n>>} \subseteq T
    BY <1>1, <1>2, <1>4, <2>1
  <2> QED BY <2>2, <2>3, <2>4
<1>5. ASSUME stray'[r][q] = 0
      PROVE  T \subseteq S
  BY <1>1, <1>2, <1>5
<1>6. IsFiniteSet(S) /\ Cardinality(S) \in Nat
  BY FS_CardinalityType
<1> HIDE DEF S, T
<1>7. stray'[r][q] = n + 1 => IsFiniteSet(T) /\ Cardinality(T) = Cardinality(S) + 1
  BY <1>3, <1>6, FS_AddElement
<1>8. stray'[r][q] = n - 1 => IsFiniteSet(T) /\ Cardinality(T) = Cardinality(S) - 1
  BY <1>4, <1>6, FS_RemoveElement
<1>9. stray'[r][q] = 0 => IsFiniteSet(T) /\ Cardinality(T) <= Cardinality(S)
  BY <1>5, <1>6, FS_Subset
<1> QED BY <1>7, <1>8, <1>9 DEF S, T

\* The initial states satisfy it.
LEMMA CopiesInit == Init => CopiesCounted
<1> SUFFICES ASSUME Init, NEW row \in Rows
             PROVE  /\ IsFiniteSet(Strays(row))
                    /\ Copies(row) + Cardinality(Strays(row))
                          + (IF IsPending(row) THEN 1 ELSE 0) <= 0
  BY DEF CopiesCounted, IsTaken, Init
<1>1. Strays(row) = {}
  <2>1. \A r \in Relays : stray[r][row] = 0
    BY DEF Init, NoStray
  <2> QED BY <2>1, StrayPairs
<1>2. {i \in DOMAIN log : log[i] = row} = {}
  BY DEF Init
<1>3. ~IsPending(row)
  BY DEF Init, IsPending
<1> QED BY <1>1, <1>2, <1>3, FS_EmptySet DEF Copies

\* Every step keeps it.  Below, q is any row and the claim of one replica.
LEMMA CopiesNext == IndInv /\ CopiesCounted /\ [Next]_vars => CopiesCounted'
<1> SUFFICES ASSUME IndInv, CopiesCounted, [Next]_vars, NEW q \in Rows
             PROVE  /\ IsFiniteSet(Strays(q)')
                    /\ Copies(q)' + Cardinality(Strays(q)')
                          + (IF IsPending(q)' THEN 1 ELSE 0)
                       <= faults' + (IF IsTaken(q)' THEN 1 ELSE 0)
  BY DEF CopiesCounted
<1> DEFINE Goal == /\ IsFiniteSet(Strays(q)')
                   /\ Copies(q)' + Cardinality(Strays(q)')
                         + (IF IsPending(q)' THEN 1 ELSE 0)
                      <= faults' + (IF IsTaken(q)' THEN 1 ELSE 0)
<1>0. /\ TypeOK /\ TypeOK' /\ log \in Seq(Rows) /\ faults \in Nat /\ Copies(q) \in Nat
      /\ IsFiniteSet(Strays(q)) /\ Cardinality(Strays(q)) \in Nat
      /\ Copies(q) + Cardinality(Strays(q)) + (IF IsPending(q) THEN 1 ELSE 0)
            <= faults + (IF IsTaken(q) THEN 1 ELSE 0)
  <2>1. IndInv'
    BY IndNext
  <2>2. log \in Seq(Rows)
    BY DEF IndInv, TypeOK
  <2>3. Copies(q) \in Nat
    BY <2>2, CopiesGrow
  <2> QED BY <2>1, <2>2, <2>3, FS_CardinalityType DEF IndInv, TypeOK, CopiesCounted
<1>p. IsPending(q) => IsTaken(q)
  BY DEF IsPending, IsTaken, IndInv, OnlyStaged
<1>l. log' = log => Copies(q)' = Copies(q)
  BY <1>0, CopiesGrow
<1>s. stray' = stray => Strays(q)' = Strays(q)
  BY StraysStay
<1> USE DEF IsPending, IsTaken
<1>1. ASSUME NEW row \in Rows, Enqueue(row) PROVE Goal
  <2>1. UNCHANGED <<log, sent, claim, pending, stray, faults>>
    BY <1>1 DEF Enqueue, relayVars
  <2> QED BY <1>0, <1>l, <1>s, <2>1
<1>2. ASSUME NEW r \in Relays, Claim(r) PROVE Goal
  <2> DEFINE B == Batch(Claimable(r))
  <2>1. /\ claim[r] = {} /\ UNCHANGED <<log, stray, sent, faults>>
        /\ claim' = [claim EXCEPT ![r] = B]
        /\ pending' = [pending EXCEPT ![r] = B]
    BY <1>2 DEF Claim
  <2>2. /\ B \cap sent = {} /\ \A p \in Relays \ {r} : B \cap claim[p] = {}
        /\ \A p \in Relays : pending[p] \subseteq claim[p]
    BY ClaimedRows DEF IndInv, OnlyStaged
  <2> HIDE DEF B
  <2>3. claim'[r] = B /\ pending'[r] = B
    BY <2>1 DEF IndInv, TypeOK
  <2>4. \A p \in Relays \ {r} : claim'[p] = claim[p] /\ pending'[p] = pending[p]
    BY <2>1 DEF IndInv, TypeOK
  <2>5. CASE q \in B
    <3>1. ~IsTaken(q)
      BY <2>1, <2>2, <2>5
    <3>2. IsTaken(q)' /\ ~IsPending(q)
      BY <2>2, <2>3, <2>5, <3>1
    <3> QED BY <1>0, <1>l, <1>s, <2>1, <3>1, <3>2
  <2>6. CASE q \notin B
    <3>1. (IsTaken(q)' <=> IsTaken(q)) /\ (IsPending(q)' <=> IsPending(q))
      BY <2>1, <2>2, <2>3, <2>4, <2>6
    <3> QED BY <1>0, <1>l, <1>s, <2>1, <3>1
  <2> QED BY <2>5, <2>6
<1>3. ASSUME NEW r \in Relays, NEW row \in Rows, Publish(r, row) PROVE Goal
  <2>1. /\ row \in pending[r] /\ log' = Append(log, row)
        /\ pending' = [pending EXCEPT ![r] = @ \ {row}]
        /\ UNCHANGED <<sent, claim, stray, faults>>
    BY <1>3 DEF Publish
  <2>2. /\ pending'[r] = pending[r] \ {row}
        /\ \A p \in Relays \ {r} : pending'[p] = pending[p]
    BY <2>1 DEF IndInv, TypeOK
  <2>3. \A p \in Relays \ {r} : row \notin pending[p]
    BY <2>1 DEF IndInv, OnlyStaged, ClaimsDisjoint
  <2>4. IsTaken(q)' <=> IsTaken(q)
    BY <2>1
  <2>5. CASE q = row
    <3>1. IsPending(q) /\ ~IsPending(q)'
      BY <2>1, <2>2, <2>3, <2>5
    <3>2. Copies(q)' = Copies(q) + 1
      BY <1>0, <2>1, <2>5, CopiesGrow
    <3> QED BY <1>0, <1>s, <2>1, <2>4, <3>1, <3>2
  <2>6. CASE q # row
    <3>1. IsPending(q)' <=> IsPending(q)
      BY <2>1, <2>2, <2>6
    <3>2. Copies(q)' = Copies(q)
      BY <1>0, <2>1, <2>6, CopiesGrow
    <3> QED BY <1>0, <1>s, <2>1, <2>4, <3>1, <3>2
  <2> QED BY <2>5, <2>6
<1>4. ASSUME NEW r \in Relays, CommitTick(r) PROVE Goal
  <2>1. /\ sent' = sent \cup claim[r] /\ claim' = [claim EXCEPT ![r] = {}]
        /\ UNCHANGED <<log, pending, stray, faults>>
    BY <1>4 DEF CommitTick
  <2>2. \A p \in Relays \ {r} : claim'[p] = claim[p]
    BY <2>1 DEF IndInv, TypeOK
  <2>3. IsTaken(q) => IsTaken(q)'
    BY <2>1, <2>2
  <2> QED BY <1>0, <1>l, <1>s, <2>1, <2>3
<1>5. ASSUME NEW r \in Relays, NEW row \in Rows, SendFails(r, row) PROVE Goal
  <2>1. /\ row \in pending[r] /\ faults' = faults + 1
        /\ log' = log \/ log' = Append(log, row)
        /\ claim' = [claim EXCEPT ![r] = {}] /\ pending' = [pending EXCEPT ![r] = {}]
        /\ stray' = [stray EXCEPT ![r] =
              [p \in Rows |-> IF p \in pending[r] \ {row} THEN @[p] + 1 ELSE @[p]]]
        /\ sent' = sent
    BY <1>5 DEF SendFails
  <2>2. /\ pending'[r] = {} /\ \A p \in Relays \ {r} : pending'[p] = pending[p]
        /\ claim'[r] = {} /\ \A p \in Relays \ {r} : claim'[p] = claim[p]
    BY <2>1 DEF IndInv, TypeOK
  <2>3. /\ stray'[r][q] = IF q \in pending[r] \ {row} THEN stray[r][q] + 1 ELSE stray[r][q]
        /\ \A p \in Relays \ {r} : stray'[p][q] = stray[p][q]
    BY <2>1 DEF IndInv, TypeOK
  <2>4. CASE q \in pending[r]
    <3>1. IsPending(q) /\ ~IsPending(q)'
      BY <2>2, <2>4 DEF IndInv, OnlyStaged, ClaimsDisjoint
    <3>2. CASE q = row
      <4>1. Copies(q)' <= Copies(q) + 1 /\ Copies(q)' \in Nat
        BY <1>0, <1>l, <2>1, <3>2, CopiesGrow
      <4>2. Strays(q)' = Strays(q)
        BY <2>3, <3>2, StraysStay
      <4> QED BY <1>0, <2>1, <3>1, <4>1, <4>2
    <3>3. CASE q # row
      <4>1. Copies(q)' = Copies(q)
        BY <1>0, <1>l, <2>1, <3>3, CopiesGrow
      <4>2. stray'[r][q] = stray[r][q] + 1
        BY <2>3, <2>4, <3>3
      <4>3. IsFiniteSet(Strays(q)') /\ Cardinality(Strays(q)') = Cardinality(Strays(q)) + 1
        BY <1>0, <2>3, <4>2, StraysChange
      <4> QED BY <1>0, <2>1, <3>1, <4>1, <4>3
    <3> QED BY <3>2, <3>3
  <2>5. CASE q \notin pending[r]
    <3>1. Copies(q)' = Copies(q)
      BY <1>0, <1>l, <2>1, <2>5, CopiesGrow
    <3>2. Strays(q)' = Strays(q)
      BY <2>3, <2>5, StraysStay
    <3>3. IsPending(q)' => IsPending(q)
      BY <2>2
    <3>4. IsPending(q)' => IsTaken(q)'
      BY <2>1, <2>2 DEF IndInv, OnlyStaged
    <3> QED BY <1>0, <2>1, <3>1, <3>2, <3>3, <3>4
  <2> QED BY <2>4, <2>5
<1>6. ASSUME NEW r \in Relays, NEW row \in Rows, StrayPublish(r, row) PROVE Goal
  <2>1. /\ stray[r][row] > 0 /\ log' = Append(log, row)
        /\ stray' = [stray EXCEPT ![r][row] = @ - 1]
        /\ UNCHANGED <<sent, claim, pending, faults>>
    BY <1>6 DEF StrayPublish
  <2>2. /\ stray'[r][q] = IF q = row THEN stray[r][q] - 1 ELSE stray[r][q]
        /\ \A p \in Relays \ {r} : stray'[p][q] = stray[p][q]
    BY <2>1 DEF IndInv, TypeOK
  <2>3. CASE q = row
    <3>1. IsFiniteSet(Strays(q)') /\ Cardinality(Strays(q)') = Cardinality(Strays(q)) - 1
      BY <1>0, <2>2, <2>3, StraysChange
    <3>2. Copies(q)' = Copies(q) + 1
      BY <1>0, <2>1, <2>3, CopiesGrow
    <3> QED BY <1>0, <2>1, <3>1, <3>2
  <2>4. CASE q # row
    <3>1. Strays(q)' = Strays(q)
      BY <2>2, <2>4, StraysStay
    <3>2. Copies(q)' = Copies(q)
      BY <1>0, <2>1, <2>4, CopiesGrow
    <3> QED BY <1>0, <2>1, <3>1, <3>2
  <2> QED BY <2>3, <2>4
<1>7. ASSUME NEW r \in Relays, CommitFails(r) \/ Crash(r) PROVE Goal
  <2>1. /\ faults' = faults + 1 /\ claim' = [claim EXCEPT ![r] = {}]
        /\ pending' = [pending EXCEPT ![r] = {}]
        /\ stray' = stray \/ stray' = [stray EXCEPT ![r] = NoStray]
        /\ UNCHANGED <<log, sent>>
    BY <1>7 DEF CommitFails, Crash, IndInv, TypeOK
  <2>2. /\ pending'[r] = {} /\ \A p \in Relays \ {r} : pending'[p] = pending[p]
        /\ \A p \in Relays \ {r} : claim'[p] = claim[p]
    BY <2>1 DEF IndInv, TypeOK
  <2>3. IsFiniteSet(Strays(q)') /\ Cardinality(Strays(q)') <= Cardinality(Strays(q))
                                /\ Cardinality(Strays(q)') \in Nat
    <3>1. CASE stray' = stray
      BY <1>0, <1>s, <3>1
    <3>2. CASE stray' = [stray EXCEPT ![r] = NoStray]
      <4>1. stray'[r][q] = 0 /\ \A p \in Relays \ {r} : stray'[p][q] = stray[p][q]
        BY <3>2 DEF NoStray, IndInv, TypeOK
      <4>2. IsFiniteSet(Strays(q)') /\ Cardinality(Strays(q)') <= Cardinality(Strays(q))
        BY <1>0, <4>1, StraysChange
      <4> QED BY <4>2, FS_CardinalityType
    <3> QED BY <2>1, <3>1, <3>2
  <2>4. (IsPending(q)' => IsPending(q)) /\ (IsPending(q)' => IsTaken(q)')
    BY <2>1, <2>2 DEF IndInv, OnlyStaged
  <2> QED BY <1>0, <1>l, <2>1, <2>3, <2>4
<1>8. CASE UNCHANGED vars
  <2>1. UNCHANGED <<log, sent, claim, pending, stray, faults>>
    BY <1>8 DEF vars, relayVars
  <2> QED BY <1>0, <1>l, <1>s, <2>1
<1> QED BY <1>1, <1>2, <1>3, <1>4, <1>5, <1>6, <1>7, <1>8 DEF Next, RelayNext, Tick

\* At-least-once has its price in faults only: a row is in Kafka once more than
\* there were failed ticks and crashes, at most, whatever stray sends came late.
THEOREM CopiesAreFaults == Spec => []CopiesBounded
<1>1. IndInv /\ CopiesCounted => CopiesBounded
  <2> SUFFICES ASSUME IndInv, CopiesCounted, NEW row \in Rows PROVE Copies(row) <= 1 + faults
    BY DEF CopiesBounded
  <2>1. Copies(row) \in Nat /\ faults \in Nat /\ Cardinality(Strays(row)) \in Nat
    BY CopiesGrow, FS_CardinalityType DEF IndInv, TypeOK, CopiesCounted
  <2> QED BY <2>1 DEF CopiesCounted
<1> QED BY <1>1, CopiesInit, CopiesNext, InductiveInvariance, PTL DEF Spec

-----------------------------------------------------------------------------
(* Refinement                                                               *)

\* What a step adds to the log is a committed row.
LEMMA StoresStaged ==
    ASSUME IndInv, Next
    PROVE  \/ Logged' = Logged
           \/ \E row \in outbox : Logged' = Logged \cup {row}
<1> USE DEF IndInv, TypeOK, OnlyStaged
<1>1. ASSUME NEW row \in Rows, Enqueue(row) PROVE Logged' = Logged
  BY <1>1, LogStays DEF Enqueue, relayVars
<1>2. ASSUME NEW r \in Relays, Claim(r) \/ CommitTick(r) \/ CommitFails(r) \/ Crash(r)
      PROVE  Logged' = Logged
  BY <1>2, LogStays DEF Claim, CommitTick, CommitFails, Crash
<1>3. ASSUME NEW r \in Relays, NEW row \in Rows, Publish(r, row)
      PROVE  row \in outbox /\ Logged' = Logged \cup {row}
  BY <1>3, LogGrows DEF Publish
<1>4. ASSUME NEW r \in Relays, NEW row \in Rows, SendFails(r, row)
      PROVE  row \in outbox /\ (Logged' = Logged \/ Logged' = Logged \cup {row})
  <2>1. log' = log \/ log' = Append(log, row)
    BY <1>4 DEF SendFails
  <2> QED BY <1>4, <2>1, LogStays, LogGrows DEF SendFails
<1>5. ASSUME NEW r \in Relays, NEW row \in Rows, StrayPublish(r, row)
      PROVE  row \in outbox /\ Logged' = Logged \cup {row}
  BY <1>5, LogGrows DEF StrayPublish
<1> QED BY <1>1, <1>2, <1>3, <1>4, <1>5 DEF Next, RelayNext, Tick

\* The outbox grows by one row that was not there, or stays.
LEMMA OutboxGrows ==
    ASSUME Next
    PROVE  \/ outbox' = outbox
           \/ \E row \in Rows \ outbox : outbox' = outbox \cup {row} /\ log' = log
  BY DEF Next, RelayNext, Tick, Enqueue, relayVars, Claim, Publish, CommitTick, SendFails,
         StrayPublish, CommitFails, Crash

\* The relay refines the safety part of Delivery: whatever fails, Kafka gets
\* committed rows only, and a step of the relay accepts a row, delivers one or
\* looks like nothing to the outside.
THEOREM RelayDelivers == Spec => DeliversStaged
<1>1. Init => Delivery!Init
  BY DEF Init, Delivery!Init, Logged
<1>2. IndInv /\ [Next]_vars => [Delivery!Next]_(Delivery!vars)
  <2> SUFFICES ASSUME IndInv, [Next]_vars PROVE [Delivery!Next]_(Delivery!vars)
    OBVIOUS
  <2> USE DEF Delivery!vars, Delivery!Next, Delivery!Accept, Delivery!Deliver
  <2>1. CASE UNCHANGED vars
    BY <2>1, LogStays DEF vars, relayVars
  <2>2. CASE Next /\ outbox' # outbox
    BY <2>2, OutboxGrows, LogStays
  <2>3. CASE Next /\ outbox' = outbox
    <3>1. outbox \subseteq Rows
      BY DEF IndInv, TypeOK
    <3>2. CASE Logged' = Logged
      BY <2>3, <3>2
    <3>3. ASSUME NEW row \in outbox, Logged' = Logged \cup {row}
          PROVE  [Delivery!Next]_(Delivery!vars)
      BY <2>3, <3>1, <3>3
    <3> QED BY <2>3, <3>2, <3>3, StoresStaged
  <2> QED BY <2>1, <2>2, <2>3
<1> QED BY <1>1, <1>2, InductiveInvariance, PTL DEF Spec, DeliversStaged, Delivery!Safety
=============================================================================
