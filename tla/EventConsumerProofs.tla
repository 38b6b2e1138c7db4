------------------------- MODULE EventConsumerProofs -------------------------
(* Proofs about EventConsumer, for any log, group size and number of         *)
(* failures and crashes.                                                    *)
EXTENDS EventConsumer, TLAPS

\* Unfolding TypeOK for one member.
LEMMA MemberType ==
    ASSUME TypeOK, NEW m \in Members
    PROVE  /\ member[m] \in Member
           /\ member[m].pc \in Pcs
           /\ member[m].position \in Nat \ {0}
           /\ member[m].current \in Nat
  BY DEF TypeOK, Member

\* The key of a message in hand is a key, and the log only grows behind it.
LEMMA KeysInHand ==
    ASSUME IndInv, NEW m \in Members, member[m].pc # "poll"
    PROVE  KeyOf(m) \in Keys
  BY MemberType DEF IndInv, TypeOK, InHand, At, KeyOf

\* The initial states satisfy the inductive invariant.
LEMMA IndInit == Init => IndInv
<1> SUFFICES ASSUME Init PROVE IndInv
  OBVIOUS
<1>1. TypeOK
  BY DEF Init, TypeOK, Fresh, Member, Pcs
<1>2. \A m \in Members : member[m].pc = "poll" /\ member[m].position = 1
  BY DEF Init, Fresh
<1> QED
  BY <1>1, <1>2 DEF Init, IndInv, InHand, ClaimsExclusive, ProcessedHasEffect,
     EffectBeforeCommit, EffectsCounted, OwnerAhead, Claiming, At, Done

\* A step that changes only the process m, and m only in going from one point
\* of its loop to another, keeps the types and the key m has in hand.
LEMMA GotoMember ==
    ASSUME TypeOK, NEW m \in Members, NEW step \in Pcs, Goto(m, step)
    PROVE  /\ member' \in [Members -> Member]
           /\ member'[m].pc = step
           /\ member'[m].position = member[m].position
           /\ member'[m].current = member[m].current
           /\ \A n \in Members \ {m} : member'[n] = member[n]
<1>1. member[m] \in Member /\ member' = [member EXCEPT ![m] = [@ EXCEPT !.pc = step]]
  BY MemberType DEF Goto
<1> QED BY <1>1 DEF TypeOK, Member

\* A new message leaves those in hand as they are.
LEMMA ProduceKeeps ==
    ASSUME IndInv, NEW k \in Keys, Produce(k)
    PROVE  /\ log' \in Seq(Keys)
           /\ InHand'
           /\ \A m \in Members : member[m].pc # "poll" => KeyOf(m)' = KeyOf(m)
<1> USE DEF IndInv, TypeOK, InHand, At, KeyOf, Produce, groupVars
<1>1. log' \in Seq(Keys) /\ Len(log') = Len(log) + 1 /\ \A i \in 1..Len(log) : log'[i] = log[i]
  OBVIOUS
<1>2. DOMAIN log \subseteq DOMAIN log' /\ \A i \in DOMAIN log : log'[i] = log[i]
  BY <1>1
<1> QED BY <1>1, <1>2

\* A step of one process, its effect on the other variables given.
LEMMA StepNext ==
    ASSUME IndInv, NEW m \in Members,
           Receive(m) \/ Handle(m) \/ HandlerFails(m)
    PROVE  IndInv'
<1> USE DEF IndInv, At
<1>t. TypeOK /\ InHand /\ member[m] \in Member
  BY MemberType
<1>k. member[m].pc # "poll" => KeyOf(m) \in Keys
  BY KeysInHand
<1>1. CASE Receive(m)
  <2>1. /\ member' \in [Members -> Member]
        /\ member'[m].pc = "claim"
        /\ member'[m].position = member[m].position + 1
        /\ member'[m].current = member[m].position
        /\ \A n \in Members \ {m} : member'[n] = member[n]
    BY <1>1, <1>t, MemberType DEF Receive, TypeOK, Member, Pcs
  <2>2. TypeOK'
    BY <1>1, <2>1 DEF Receive, TypeOK
  <2>3. member[m].position \in DOMAIN log
    BY <1>1, <1>t DEF Receive, TypeOK, Member
  <2>4. InHand'
    BY <1>1, <2>1, <2>3 DEF Receive, InHand
  <2>5. \A n \in Members : member'[n].pc \in {"effect", "commit"} => n # m
    BY <2>1
  <2>6. ClaimsExclusive' /\ EffectBeforeCommit'
    BY <1>1, <2>1, <2>5 DEF Receive, ClaimsExclusive, EffectBeforeCommit, Claiming, KeyOf
  <2>7. \A k \in Keys : Done(k) => Done(k)'
    BY <1>1, <2>1 DEF Receive, Done, KeyOf
  <2>8. ProcessedHasEffect' /\ EffectsCounted'
    BY <1>1, <2>7 DEF Receive, ProcessedHasEffect, EffectsCounted
  <2>9. OwnerAhead'
    BY <1>1, <2>1, <1>t, MemberType DEF Receive, OwnerAhead, TypeOK, Member
  <2> QED BY <2>2, <2>4, <2>6, <2>8, <2>9
<1>2. CASE ClaimKey(m)
  <2>1. PICK step \in {"effect", "ack"} :
            /\ Goto(m, step)
            /\ step = "effect" => KeyOf(m) \notin processed
    BY <1>2 DEF ClaimKey
  <2>2. step \in Pcs
    BY DEF Pcs
  <2>3. /\ member' \in [Members -> Member]
        /\ member'[m].pc = step
        /\ member'[m].position = member[m].position
        /\ member'[m].current = member[m].current
        /\ \A n \in Members \ {m} : member'[n] = member[n]
    BY <2>1, <2>2, GotoMember
  <2>4. /\ TypeOK'
        /\ InHand'
        /\ OwnerAhead'
    BY <1>2, <2>3 DEF ClaimKey, TypeOK, InHand, OwnerAhead
  <2>5. ClaimsExclusive'
    BY <1>2, <2>1, <2>3 DEF ClaimKey, ClaimsExclusive, Claiming, KeyOf
  <2>6. EffectBeforeCommit' /\ ProcessedHasEffect'
    BY <1>2, <2>3 DEF ClaimKey, EffectBeforeCommit, ProcessedHasEffect, KeyOf
  <2>7. \A k \in Keys : Done(k) => Done(k)'
    BY <1>2, <2>3 DEF ClaimKey, Done, KeyOf
  <2>8. EffectsCounted'
    BY <1>2, <2>7 DEF ClaimKey, EffectsCounted
  <2> QED BY <2>4, <2>5, <2>6, <2>8
<1>3. CASE DoEffect(m)
  <2>1. /\ member' \in [Members -> Member]
        /\ member'[m].pc = "commit"
        /\ member'[m].position = member[m].position
        /\ member'[m].current = member[m].current
        /\ \A n \in Members \ {m} : member'[n] = member[n]
    BY <1>3, GotoMember DEF DoEffect, Pcs
  <2>2. KeyOf(m) \in Keys /\ KeyOf(m) \notin processed
    BY <1>3, <1>k DEF DoEffect, ClaimsExclusive, Claiming
  <2>3. /\ effects' \in [Keys -> Nat]
        /\ effects'[KeyOf(m)] = effects[KeyOf(m)] + 1
        /\ \A k \in Keys : k # KeyOf(m) => effects'[k] = effects[k]
    BY <1>3, <2>2 DEF DoEffect, TypeOK
  <2>4. TypeOK' /\ InHand' /\ OwnerAhead'
    BY <1>3, <2>1, <2>3 DEF DoEffect, TypeOK, InHand, OwnerAhead
  <2>5. ClaimsExclusive'
    BY <1>3, <2>1 DEF DoEffect, ClaimsExclusive, Claiming, KeyOf
  <2>6. \A k \in Keys : effects'[k] >= effects[k]
    <3>1. \A k \in Keys : effects[k] \in Nat
      BY <1>t DEF TypeOK
    <3> QED BY <2>2, <2>3, <3>1
  <2>7. ProcessedHasEffect'
    BY <1>3, <2>6, <2>3, <1>t DEF DoEffect, ProcessedHasEffect, TypeOK
  <2>8. \A n \in Members \ {m} : member[n].pc = "commit" => KeyOf(n) \in Keys /\ KeyOf(n)' = KeyOf(n)
    BY <1>3, <2>1, KeysInHand DEF DoEffect, KeyOf
  <2>9. KeyOf(m)' = KeyOf(m) /\ effects'[KeyOf(m)] > 0
    BY <1>3, <2>1, <2>2, <2>3 DEF DoEffect, KeyOf, TypeOK
  <2>10. EffectBeforeCommit'
    BY <2>1, <2>3, <2>4, <2>6, <2>8, <2>9 DEF EffectBeforeCommit, TypeOK
  <2>11. \A n \in Members \ {m} : ~ (member[n].pc = "commit" /\ KeyOf(n) = KeyOf(m))
    BY <1>3, <2>2 DEF DoEffect, ClaimsExclusive, Claiming
  <2>12. ~ Done(KeyOf(m))
    BY <1>3, <2>2, <2>11 DEF DoEffect, Done
  <2>13. Done(KeyOf(m))' /\ \A k \in Keys : Done(k) => Done(k)'
    BY <1>3, <2>1, <2>9 DEF DoEffect, Done, KeyOf
  <2>14. EffectsCounted'
    BY <1>3, <2>2, <2>3, <2>9, <2>12, <2>13 DEF DoEffect, EffectsCounted, TypeOK
  <2> QED BY <2>4, <2>5, <2>7, <2>10, <2>14
<1>4. CASE CommitClaim(m)
  <2>1. /\ member' \in [Members -> Member]
        /\ member'[m].pc = "ack"
        /\ member'[m].position = member[m].position
        /\ member'[m].current = member[m].current
        /\ \A n \in Members \ {m} : member'[n] = member[n]
    BY <1>4, GotoMember DEF CommitClaim, Pcs
  <2>2. KeyOf(m) \in Keys /\ effects[KeyOf(m)] > 0
    BY <1>4, <1>k DEF CommitClaim, EffectBeforeCommit
  <2>3. TypeOK' /\ InHand' /\ OwnerAhead'
    BY <1>4, <2>1, <2>2 DEF CommitClaim, TypeOK, InHand, OwnerAhead
  <2>4. \A n \in Members \ {m} : ~ Claiming(n, KeyOf(m))
    BY <1>4, <2>2 DEF CommitClaim, ClaimsExclusive, Claiming
  <2>5. ClaimsExclusive'
    BY <1>4, <2>1, <2>4 DEF CommitClaim, ClaimsExclusive, Claiming, KeyOf
  <2>6. EffectBeforeCommit' /\ ProcessedHasEffect'
    BY <1>4, <2>1, <2>2 DEF CommitClaim, EffectBeforeCommit, ProcessedHasEffect, KeyOf
  <2>7. \A k \in Keys : Done(k) => Done(k)'
    BY <1>4, <2>1 DEF CommitClaim, Done, KeyOf
  <2>8. EffectsCounted'
    BY <1>4, <2>7 DEF CommitClaim, EffectsCounted
  <2> QED BY <2>3, <2>5, <2>6, <2>8
<1>5. CASE CommitOffset(m)
  <2>1. /\ member' \in [Members -> Member]
        /\ member'[m].pc = "poll"
        /\ member'[m].position = member[m].position
        /\ member'[m].current = member[m].current
        /\ \A n \in Members \ {m} : member'[n] = member[n]
    BY <1>5, GotoMember DEF CommitOffset, Pcs
  <2>2. TypeOK' /\ InHand' /\ OwnerAhead'
    BY <1>5, <2>1, MemberType DEF CommitOffset, TypeOK, InHand, OwnerAhead
  <2>3. ClaimsExclusive' /\ EffectBeforeCommit' /\ ProcessedHasEffect'
    BY <1>5, <2>1
    DEF CommitOffset, ClaimsExclusive, Claiming, EffectBeforeCommit, ProcessedHasEffect, KeyOf
  <2>4. \A k \in Keys : Done(k) => Done(k)'
    BY <1>5, <2>1 DEF CommitOffset, Done, KeyOf
  <2>5. EffectsCounted'
    BY <1>5, <2>4 DEF CommitOffset, EffectsCounted
  <2> QED BY <2>2, <2>3, <2>5
<1>6. CASE HandlerFails(m)
  <2>1. /\ member' \in [Members -> Member]
        /\ member'[m].pc = "poll"
        /\ member'[m].position = member[m].position
        /\ \A n \in Members \ {m} : member'[n] = member[n]
    BY <1>6, GotoMember DEF HandlerFails, Pcs
  <2>2. TypeOK'
    BY <1>6, <2>1 DEF HandlerFails, TypeOK
  <2>3. InHand'
    BY <1>6, <2>1, <1>t DEF HandlerFails, InHand
  <2>4. OwnerAhead'
    <3>1. owner' = owner /\ offset' = offset /\ owner \in Members
      BY <1>6, <1>t DEF HandlerFails, TypeOK
    <3> QED BY <2>1, <3>1 DEF OwnerAhead
  <2>5. ClaimsExclusive' /\ EffectBeforeCommit' /\ ProcessedHasEffect'
    BY <1>6, <2>1
    DEF HandlerFails, ClaimsExclusive, Claiming, EffectBeforeCommit, ProcessedHasEffect, KeyOf
  <2>6. EffectsCounted'
    BY <1>6 DEF HandlerFails, EffectsCounted, TypeOK
  <2> QED BY <2>2, <2>3, <2>4, <2>5, <2>6
<1> QED BY <1>1, <1>2, <1>3, <1>4, <1>5, <1>6 DEF Handle

\* A crash or a rebalance: every process is as before but for its position, or
\* has restarted, and the owner fetches from the committed offset.
LEMMA HandOver ==
    ASSUME IndInv, NEW m \in Members, Crash(m) \/ Rebalance(m)
    PROVE  IndInv'
<1> DEFINE Kept(n) == /\ member'[n].pc = member[n].pc
                      /\ member'[n].current = member[n].current
           Restarted(n) == member'[n].pc = "poll"
<1> USE DEF IndInv, At
<1>0. TypeOK /\ Fresh \in Member
  BY DEF Fresh, Member, Pcs
<1>1. /\ member' \in [Members -> Member]
      /\ \A n \in Members : Kept(n) \/ Restarted(n)
      /\ owner' \in Members
      /\ member'[owner'].position > offset
  <2>1. ASSUME NEW n \in Members, NEW states \in [Members -> Member], Assign(n, states)
        PROVE  /\ member' \in [Members -> Member]
               /\ \A q \in Members : /\ member'[q].pc = states[q].pc
                                     /\ member'[q].current = states[q].current
               /\ owner' = n
               /\ member'[n].position = offset + 1
    <3>1. member' = [states EXCEPT ![n] = [@ EXCEPT !.position = offset + 1]]
      BY <2>1 DEF Assign
    <3>2. offset + 1 \in Nat \ {0} /\ states[n] \in Member
      BY <1>0 DEF TypeOK
    <3> QED BY <2>1, <3>1, <3>2 DEF Assign, Member
  <2>2. offset \in Nat
    BY <1>0 DEF TypeOK
  <2>3. CASE Rebalance(m)
    <3>1. Assign(m, member) /\ member \in [Members -> Member]
      BY <2>3, <1>0 DEF Rebalance, TypeOK
    <3> QED BY <2>1, <2>2, <3>1
  <2>4. CASE Crash(m)
    <3> DEFINE restarted == [member EXCEPT ![m] = Fresh]
    <3>1. /\ restarted \in [Members -> Member]
          /\ restarted[m] = Fresh
          /\ \A n \in Members \ {m} : restarted[n] = member[n]
      BY <1>0 DEF TypeOK
    <3>2. CASE owner = m /\ \E n \in Members : Assign(n, restarted)
      <4>1. PICK n \in Members : Assign(n, restarted)
        BY <3>2
      <4> HIDE DEF restarted
      <4> QED BY <2>1, <2>2, <3>1, <4>1 DEF Fresh
    <3>3. CASE owner # m /\ owner' = owner /\ member' = restarted
      <4>1. owner \in Members \ {m}
        BY <3>3, <1>0 DEF TypeOK
      <4> HIDE DEF restarted
      <4> QED BY <3>1, <3>3, <4>1 DEF Fresh, OwnerAhead
    <3> QED BY <2>4, <3>2, <3>3 DEF Crash
  <2> QED BY <2>3, <2>4
<1>2. /\ crashes' = crashes + 1
      /\ UNCHANGED <<log, offset, processed, effects, failures>>
  BY DEF Crash, Rebalance
<1>3. TypeOK' /\ InHand' /\ OwnerAhead'
  BY <1>0, <1>1, <1>2 DEF TypeOK, InHand, OwnerAhead
<1>4. ClaimsExclusive' /\ EffectBeforeCommit' /\ ProcessedHasEffect'
  BY <1>1, <1>2 DEF ClaimsExclusive, Claiming, EffectBeforeCommit, ProcessedHasEffect, KeyOf
<1>5. EffectsCounted'
  BY <1>0, <1>2 DEF EffectsCounted, TypeOK
<1> QED BY <1>3, <1>4, <1>5

\* Every step keeps the inductive invariant.
LEMMA IndNext == IndInv /\ [Next]_vars => IndInv'
<1> SUFFICES ASSUME IndInv, [Next]_vars PROVE IndInv'
  OBVIOUS
<1>1. ASSUME NEW k \in Keys, Produce(k) PROVE IndInv'
  <2>1. /\ log' \in Seq(Keys)
        /\ InHand'
        /\ \A m \in Members : member[m].pc # "poll" => KeyOf(m)' = KeyOf(m)
    BY <1>1, ProduceKeeps
  <2>2. UNCHANGED groupVars
    BY <1>1 DEF Produce
  <2>3. TypeOK' /\ OwnerAhead' /\ ProcessedHasEffect'
    BY <2>1, <2>2 DEF groupVars, IndInv, TypeOK, OwnerAhead, ProcessedHasEffect
  <2>4. ClaimsExclusive' /\ EffectBeforeCommit'
    BY <2>1, <2>2 DEF groupVars, IndInv, ClaimsExclusive, Claiming, EffectBeforeCommit, At
  <2>5. EffectsCounted'
    BY <2>1, <2>2 DEF groupVars, IndInv, EffectsCounted, Done, At
  <2> QED BY <2>1, <2>3, <2>4, <2>5 DEF IndInv
<1>2. CASE GroupNext
  BY <1>2, StepNext, HandOver DEF GroupNext
<1>3. CASE UNCHANGED vars
  BY <1>3 DEF vars, groupVars, IndInv, TypeOK, InHand, ClaimsExclusive, ProcessedHasEffect,
     EffectBeforeCommit, EffectsCounted, OwnerAhead, Claiming, At, Done, KeyOf
<1> QED BY <1>1, <1>2, <1>3 DEF Next

\* The invariant holds in every reachable state.
THEOREM InductiveInvariance == Spec => []IndInv
<1> QED BY IndInit, IndNext, PTL DEF Spec

\* A message is marked processed only if its side effect was done.
THEOREM ProcessedWasDone == Spec => []ProcessedHasEffect
<1>1. IndInv => ProcessedHasEffect
  BY DEF IndInv
<1> QED BY <1>1, InductiveInvariance, PTL

\* Duplicates come from failures and crashes only, one each at most, however
\* often the message is in the log.
THEOREM DuplicatesAreFailures == Spec => []EffectsBounded
<1>1. IndInv => EffectsBounded
  BY DEF IndInv, TypeOK, EffectsCounted, EffectsBounded
<1> QED BY <1>1, InductiveInvariance, PTL

\* No two processes handle the same event key at the same time.
THEOREM ExclusiveClaims == Spec => []ClaimsExclusive
<1>1. IndInv => ClaimsExclusive
  BY DEF IndInv
<1> QED BY <1>1, InductiveInvariance, PTL

\* The committed offset never moves back, rebalances included.
THEOREM OffsetNeverBack == Spec => OffsetMonotone
<1>1. IndInv /\ [Next]_vars => [offset' >= offset]_vars
  <2> SUFFICES ASSUME IndInv, Next PROVE offset' >= offset
    BY DEF vars
  <2>1. offset \in Nat /\ \A m \in Members : member[m].position \in Nat
    BY MemberType DEF IndInv, TypeOK
  <2>2. CASE offset' = offset
    BY <2>1, <2>2
  <2>3. ASSUME NEW m \in Members, CommitOffset(m) PROVE offset' >= offset
    BY <2>1, <2>3 DEF CommitOffset, IndInv, OwnerAhead
  <2> QED BY <2>2, <2>3 DEF Next, GroupNext, Handle, Produce, groupVars, Receive, ClaimKey,
          DoEffect, CommitClaim, HandlerFails, Crash, Rebalance
<1> QED BY <1>1, InductiveInvariance, PTL DEF Spec, OffsetMonotone

-----------------------------------------------------------------------------
(* No message is passed over                                                *)

\* The initial states satisfy it: nothing is in the log.
LEMMA SkipInit == Init => SkipInv
<1> SUFFICES ASSUME Init PROVE SkipInv
  OBVIOUS
<1>1. log = <<>> /\ offset = 0 /\ owner \in Members
  BY DEF Init
<1>2. \A m \in Members : member[m].pc = "poll" /\ member[m].position = 1
  BY DEF Init, Fresh
<1>3. Len(log) = 0 /\ DOMAIN log = {}
  BY <1>1
<1> QED
  BY <1>1, <1>2, <1>3 DEF SkipInv, AckIsProcessed, PositionsInLog, FetchedIsHandled,
     SkippedOnlyAfterFailure, NothingSkipped, At

\* A step of a process other than a fetch, a commit of the offset or a failure:
\* positions, log and offset stay, and at most the key in hand becomes processed.
LEMMA HandleKeeps ==
    ASSUME IndInv, SkipInv, NEW m \in Members, ClaimKey(m) \/ DoEffect(m) \/ CommitClaim(m)
    PROVE  SkipInv'
<1> USE DEF IndInv, SkipInv, At
<1>1. /\ UNCHANGED <<log, offset, owner, failures>>
      /\ processed \subseteq processed'
  BY DEF ClaimKey, DoEffect, CommitClaim
<1>2. PICK step \in {"effect", "commit", "ack"} : Goto(m, step)
  BY DEF ClaimKey, DoEffect, CommitClaim
<1>3. /\ member'[m].pc = step
      /\ member'[m].position = member[m].position
      /\ member'[m].current = member[m].current
      /\ \A n \in Members \ {m} : member'[n] = member[n]
  BY <1>2, GotoMember DEF Pcs
<1>4. step = "ack" => KeyOf(m) \in processed'
  <2>1. step = "ack" => ~DoEffect(m)
    BY <1>3, GotoMember DEF DoEffect, Pcs
  <2>2. CASE CommitClaim(m)
    BY <2>2 DEF CommitClaim
  <2>3. CASE ClaimKey(m) /\ step = "ack"
    <3>1. KeyOf(m) \in processed \/ member'[m].pc = "effect"
      BY <2>3, GotoMember DEF ClaimKey, Pcs
    <3> QED BY <1>1, <1>3, <2>3, <3>1
  <2> QED BY <2>1, <2>2, <2>3
<1>5. \A n \in Members : KeyOf(n)' = KeyOf(n)
  BY <1>1, <1>3 DEF KeyOf
<1>6. AckIsProcessed'
  BY <1>1, <1>3, <1>4, <1>5 DEF AckIsProcessed
<1>7. owner \in Members /\ member'[owner].position = member[owner].position
  BY <1>3 DEF TypeOK
<1>8. PositionsInLog' /\ SkippedOnlyAfterFailure'
  BY <1>1, <1>7 DEF PositionsInLog, SkippedOnlyAfterFailure, NothingSkipped
<1>9. FetchedIsHandled'
  <2> SUFFICES ASSUME failures = 0, NEW i \in DOMAIN log, i < member[owner].position,
                      log[i] \notin processed'
               PROVE  i = member'[owner].current /\ member'[owner].pc \in {"claim", "effect", "commit"}
    BY <1>1, <1>7 DEF FetchedIsHandled
  <2>1. i = member[owner].current /\ member[owner].pc \in {"claim", "effect", "commit"}
    BY <1>1 DEF FetchedIsHandled
  <2>2. CASE owner # m
    BY <1>3, <1>7, <2>1, <2>2
  <2>3. CASE owner = m
    <3>1. KeyOf(m) = log[i]
      BY <2>1, <2>3 DEF KeyOf
    <3> QED BY <1>3, <1>4, <2>1, <2>3, <3>1
  <2> QED BY <2>2, <2>3
<1> QED BY <1>6, <1>8, <1>9

\* A fetch moves the position of the owner over one message, which it then has
\* in hand.
LEMMA ReceiveKeeps ==
    ASSUME IndInv, SkipInv, NEW m \in Members, Receive(m)
    PROVE  SkipInv'
<1> USE DEF IndInv, SkipInv, At, Receive
<1>1. /\ member'[m].pc = "claim"
      /\ member'[m].position = member[m].position + 1
      /\ member'[m].current = member[m].position
      /\ \A n \in Members \ {m} : member'[n] = member[n]
  BY MemberType DEF TypeOK, Member, Pcs
<1>2. member[m].position \in Nat /\ Len(log) \in Nat /\ DOMAIN log = 1 .. Len(log)
  BY MemberType DEF TypeOK
<1>3. AckIsProcessed'
  BY <1>1 DEF AckIsProcessed, KeyOf
<1>4. PositionsInLog' /\ SkippedOnlyAfterFailure'
  BY <1>1, <1>2 DEF PositionsInLog, SkippedOnlyAfterFailure, NothingSkipped
<1>5. FetchedIsHandled'
  <2> SUFFICES ASSUME failures = 0, NEW i \in DOMAIN log, i < member[m].position + 1,
                      log[i] \notin processed
               PROVE  i = member[m].position
    BY <1>1 DEF FetchedIsHandled
  <2>1. ~ (i < member[m].position)
    BY DEF FetchedIsHandled
  <2> QED BY <1>2, <2>1
<1> QED BY <1>3, <1>4, <1>5

\* The offset that is committed is the position of the owner, which has nothing
\* unprocessed behind it.
LEMMA CommitOffsetKeeps ==
    ASSUME IndInv, SkipInv, NEW m \in Members, CommitOffset(m)
    PROVE  SkipInv'
<1> USE DEF IndInv, SkipInv, At
<1>1. /\ member[m].pc = "ack"
      /\ offset' = IF owner = m THEN member[m].position - 1 ELSE offset
      /\ Goto(m, "poll")
      /\ UNCHANGED <<log, owner, processed, effects, failures, crashes>>
  BY DEF CommitOffset
<1>2. /\ member'[m].pc = "poll"
      /\ member'[m].position = member[m].position
      /\ \A n \in Members \ {m} : member'[n] = member[n]
  BY <1>1, GotoMember DEF Pcs
<1>3. /\ owner \in Members /\ member[owner].position \in Nat \ {0}
      /\ offset \in Nat /\ Len(log) \in Nat /\ DOMAIN log = 1 .. Len(log)
  BY MemberType DEF TypeOK
<1>4. AckIsProcessed'
  BY <1>1, <1>2 DEF AckIsProcessed, KeyOf
<1>5. member'[owner].position = member[owner].position
  BY <1>2, <1>3
<1>6. PositionsInLog'
  BY <1>1, <1>3, <1>5 DEF PositionsInLog
<1>7. failures = 0 /\ owner = m => \A i \in DOMAIN log : i < member[m].position => log[i] \in processed
  BY <1>1 DEF FetchedIsHandled
<1>8. SkippedOnlyAfterFailure'
  <2>1. CASE owner = m
    BY <1>1, <1>3, <1>7, <2>1 DEF SkippedOnlyAfterFailure, NothingSkipped
  <2>2. CASE owner # m
    BY <1>1, <2>2 DEF SkippedOnlyAfterFailure, NothingSkipped
  <2> QED BY <2>1, <2>2
<1>9. FetchedIsHandled'
  <2>1. CASE owner = m
    BY <1>1, <1>5, <1>7, <2>1 DEF FetchedIsHandled
  <2>2. CASE owner # m
    BY <1>1, <1>2, <1>3, <2>2 DEF FetchedIsHandled
  <2> QED BY <2>1, <2>2
<1> QED BY <1>4, <1>6, <1>8, <1>9

\* The new owner starts from the committed offset, behind which everything is
\* processed.
LEMMA HandOverKeeps ==
    ASSUME IndInv, SkipInv, NEW m \in Members, Crash(m) \/ Rebalance(m)
    PROVE  SkipInv'
<1> USE DEF IndInv, SkipInv, At
<1>1. UNCHANGED <<log, offset, processed, failures>>
  BY DEF Crash, Rebalance
<1>2. Fresh \in Member /\ offset \in Nat /\ Len(log) \in Nat /\ DOMAIN log = 1 .. Len(log)
  BY DEF Fresh, Member, Pcs, TypeOK
<1>3. ASSUME NEW n \in Members, NEW states \in [Members -> Member], Assign(n, states)
      PROVE  /\ owner' = n /\ member'[n].position = offset + 1
             /\ \A q \in Members : /\ member'[q].pc = states[q].pc
                                   /\ member'[q].current = states[q].current
  <2>1. member' = [states EXCEPT ![n] = [@ EXCEPT !.position = offset + 1]]
    BY <1>3 DEF Assign
  <2>2. states[n] \in Member
    OBVIOUS
  <2> QED BY <1>3, <2>1, <2>2 DEF Assign, Member
<1>4. /\ \A n \in Members : \/ member'[n].pc = "poll"
                            \/ /\ member'[n].pc = member[n].pc
                               /\ member'[n].current = member[n].current
      /\ \/ member'[owner'].position = offset + 1
         \/ owner' = owner /\ member'[owner] = member[owner]
  <2>1. CASE Rebalance(m)
    <3>1. Assign(m, member) /\ member \in [Members -> Member]
      BY <2>1 DEF Rebalance, TypeOK
    <3> QED BY <1>3, <3>1
  <2>2. CASE Crash(m)
    <3> DEFINE restarted == [member EXCEPT ![m] = Fresh]
    <3>1. /\ restarted \in [Members -> Member]
          /\ restarted[m].pc = "poll"
          /\ \A n \in Members \ {m} : restarted[n] = member[n]
      BY <1>2 DEF TypeOK, Fresh
    <3>2. \/ \E n \in Members : Assign(n, restarted)
          \/ owner # m /\ owner' = owner /\ member' = restarted
      BY <2>2 DEF Crash
    <3>3. owner \in Members
      BY DEF TypeOK
    <3> HIDE DEF restarted
    <3>4. CASE \E n \in Members : Assign(n, restarted)
      <4>1. PICK n \in Members : Assign(n, restarted)
        BY <3>4
      <4>2. /\ owner' = n /\ member'[n].position = offset + 1
            /\ \A q \in Members : /\ member'[q].pc = restarted[q].pc
                                  /\ member'[q].current = restarted[q].current
        BY <1>3, <3>1, <4>1
      <4> QED BY <3>1, <4>2
    <3>5. CASE owner # m /\ owner' = owner /\ member' = restarted
      BY <3>1, <3>3, <3>5
    <3> QED BY <3>2, <3>4, <3>5
  <2> QED BY <2>1, <2>2
<1>5. AckIsProcessed'
  BY <1>1, <1>4 DEF AckIsProcessed, KeyOf
<1>6. PositionsInLog' /\ SkippedOnlyAfterFailure'
  BY <1>1, <1>2, <1>4 DEF PositionsInLog, SkippedOnlyAfterFailure, NothingSkipped
<1>7. FetchedIsHandled'
  <2>1. CASE member'[owner'].position = offset + 1
    BY <1>1, <1>2, <2>1 DEF FetchedIsHandled, SkippedOnlyAfterFailure, NothingSkipped
  <2>2. CASE owner' = owner /\ member'[owner] = member[owner]
    BY <1>1, <2>2 DEF FetchedIsHandled
  <2> QED BY <1>4, <2>1, <2>2
<1> QED BY <1>5, <1>6, <1>7

\* Every step keeps it.
LEMMA SkipNext == IndInv /\ SkipInv /\ [Next]_vars => SkipInv'
<1> SUFFICES ASSUME IndInv, SkipInv, [Next]_vars PROVE SkipInv'
  OBVIOUS
<1>1. ASSUME NEW k \in Keys, Produce(k) PROVE SkipInv'
  <2> USE DEF SkipInv
  <2>1. UNCHANGED groupVars
    BY <1>1 DEF Produce
  <2>2. log \in Seq(Keys) /\ log' = Append(log, k)
    BY <1>1 DEF Produce, IndInv, TypeOK
  <2>3. /\ Len(log') = Len(log) + 1 /\ Len(log) \in Nat
        /\ DOMAIN log' = 1 .. Len(log) + 1 /\ DOMAIN log = 1 .. Len(log)
        /\ \A i \in 1 .. Len(log) : log'[i] = log[i]
    BY <2>2
  <2>4. member[owner].position \in Nat /\ offset \in Nat /\ owner \in Members
    BY MemberType DEF IndInv, TypeOK
  <2>5. AckIsProcessed'
    BY <1>1, <2>1, ProduceKeeps DEF AckIsProcessed, groupVars, At
  <2>6. PositionsInLog'
    BY <2>1, <2>3, <2>4 DEF PositionsInLog, groupVars
  <2>7. SkippedOnlyAfterFailure'
    BY <2>1, <2>3, <2>4 DEF PositionsInLog, SkippedOnlyAfterFailure, NothingSkipped, groupVars
  <2>8. FetchedIsHandled'
    BY <2>1, <2>3, <2>4 DEF PositionsInLog, FetchedIsHandled, groupVars
  <2> QED BY <2>5, <2>6, <2>7, <2>8
<1>2. ASSUME NEW m \in Members, HandlerFails(m) PROVE SkipInv'
  <2> USE DEF SkipInv
  <2>1. failures' # 0 /\ UNCHANGED <<log, offset, owner, processed>>
    BY <1>2 DEF HandlerFails, IndInv, TypeOK
  <2>2. /\ member'[m].pc = "poll"
        /\ member'[m].position = member[m].position
        /\ \A n \in Members \ {m} : member'[n] = member[n]
    BY <1>2, GotoMember DEF HandlerFails, Pcs, IndInv
  <2>3. owner \in Members
    BY DEF IndInv, TypeOK
  <2>4. AckIsProcessed' /\ PositionsInLog'
    BY <2>1, <2>2, <2>3 DEF AckIsProcessed, PositionsInLog, At, KeyOf
  <2> QED BY <2>1, <2>4 DEF FetchedIsHandled, SkippedOnlyAfterFailure
<1>3. CASE UNCHANGED vars
  BY <1>3 DEF vars, groupVars, SkipInv, AckIsProcessed, PositionsInLog, FetchedIsHandled,
     SkippedOnlyAfterFailure, NothingSkipped, At, KeyOf
<1> QED
  BY <1>1, <1>2, <1>3, HandleKeeps, ReceiveKeeps, CommitOffsetKeeps, HandOverKeeps
     DEF Next, GroupNext, Handle

\* As long as no handler raises, the committed offset never passes a message
\* that is not processed: not in a crash between an effect, its commit and the
\* commit of the offset, and not when a rebalance hands the partition over.
THEOREM NoneSkippedWithoutFailure == Spec => []SkippedOnlyAfterFailure
<1>1. SkipInv => SkippedOnlyAfterFailure
  BY DEF SkipInv
<1> QED BY <1>1, InductiveInvariance, SkipInit, SkipNext, PTL DEF Spec
=============================================================================
