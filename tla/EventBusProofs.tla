---------------------------- MODULE EventBusProofs ----------------------------
(***************************************************************************)
(* Proofs about EventBus, for every set of plugs, readings and subscribers,  *)
(* every tolerance, and queues of any length.                               *)
(***************************************************************************)
EXTENDS EventBus, SequenceTheorems, TLAPS

(* A client is owed nothing before it subscribes: without this conjunct     *)
(* DrainedViewIsLast is not inductive, since a publication changes the last  *)
(* state of a plug but not the queue of a client that has not subscribed.   *)
OwedAreSubscribed == \A s \in Subscribers : owed[s] # {} => s \in subscribed

------------------------------------------------------------------------------
(* The queue after an update of plug q: its new last element is the only     *)
(* new position.                                                            *)
LEMMA PendingAppend ==
  ASSUME NEW Q \in Seq(Update), NEW q \in Plugs, NEW st \in State
  PROVE  LET R == Append(Q, [plug |-> q, state |-> st])
         IN /\ R \in Seq(Update)
            /\ DOMAIN R = DOMAIN Q \cup {Len(Q) + 1}
            /\ \A i \in DOMAIN Q : i <= Len(Q) /\ R[i] = Q[i]
            /\ R[Len(Q) + 1] = [plug |-> q, state |-> st]
<1>1. [plug |-> q, state |-> st] \in Update
  BY DEF Update
<1>2. QED
  BY <1>1, AppendProperties

(* The queue after its head was taken: position i was i + 1.                *)
LEMMA PendingTail ==
  ASSUME NEW Q \in Seq(Update), Q # <<>>
  PROVE  /\ Head(Q) = Q[1] /\ Head(Q) \in Update
         /\ Tail(Q) \in Seq(Update)
         /\ Len(Q) \in Nat \ {0} /\ DOMAIN Q = 1 .. Len(Q)
         /\ DOMAIN Tail(Q) = 1 .. (Len(Q) - 1)
         /\ \A i \in 1 .. (Len(Q) - 1) : Tail(Q)[i] = Q[i + 1]
<1>1. Len(Q) \in Nat \ {0} /\ DOMAIN Q = 1 .. Len(Q)
  BY EmptySeq, LenProperties
<1>2. Head(Q) = Q[1] /\ Tail(Q) \in Seq(Update) /\ Len(Tail(Q)) = Len(Q) - 1
      /\ \A i \in 1 .. Len(Tail(Q)) : Tail(Q)[i] = Q[i + 1]
  BY HeadTailProperties
<1>3. Head(Q) \in Update
  BY <1>1, <1>2, ElementOfSeq
<1>4. DOMAIN Tail(Q) = 1 .. (Len(Q) - 1)
  BY <1>2, LenProperties
<1>5. QED
  BY <1>1, <1>2, <1>3, <1>4

------------------------------------------------------------------------------
(* Every step of the bus keeps the types.                                   *)
LEMMA BusStepTyping ==
  ASSUME BusTypeOK, [BusNext]_busVars
  PROVE  BusTypeOK'
<1> USE DEF BusTypeOK, MaybeState
<1>1. ASSUME NEW s \in Subscribers, Subscribe(s)
      PROVE  BusTypeOK'
  BY <1>1 DEF Subscribe
<1>2. ASSUME NEW s \in Subscribers, Deliver(s)
      PROVE  BusTypeOK'
  <2>1. queue[s] \in Seq(Update) /\ queue[s] # <<>>
    BY <1>2 DEF Deliver
  <2>2. Head(queue[s]) \in Update /\ Tail(queue[s]) \in Seq(Update)
    BY <2>1, PendingTail
  <2>3. view' \in [Subscribers -> [Plugs -> MaybeState]]
    BY <1>2, <2>2 DEF Deliver, Update
  <2>4. QED
    BY <1>2, <2>2, <2>3 DEF Deliver
<1>3. ASSUME NEW p \in Plugs, NEW st \in State, NEW newTimes \in BOOLEAN,
             PublishStateUpdate(p, st, newTimes)
      PROVE  BusTypeOK'
  <2>1. /\ offered' = [offered EXCEPT ![p] = st]
        /\ subscribed' = subscribed /\ view' = view
    BY <1>3 DEF PublishStateUpdate
  <2>2. CASE Duplicate(p, st, newTimes)
    <3>1. lastStates' = lastStates /\ queue' = queue /\ owed' = owed
      BY <1>3, <2>2 DEF PublishStateUpdate
    <3>2. QED
      BY <2>1, <3>1
  <2>3. CASE ~Duplicate(p, st, newTimes)
    <3>1. /\ queue' = [t \in Subscribers |->
                         IF t \in subscribed
                         THEN Append(queue[t], [plug |-> p, state |-> st])
                         ELSE queue[t]]
          /\ lastStates' = [lastStates EXCEPT ![p] = st]
          /\ owed' = [t \in Subscribers |->
                        IF t \in subscribed THEN owed[t] \cup {p} ELSE owed[t]]
      BY <1>3, <2>3 DEF PublishStateUpdate
    <3>2. queue' \in [Subscribers -> Seq(Update)]
      BY <3>1, PendingAppend
    <3>3. owed' \in [Subscribers -> SUBSET Plugs]
      BY <3>1
    <3>4. QED
      BY <2>1, <3>1, <3>2, <3>3
  <2>4. QED
    BY <2>2, <2>3
<1>4. CASE UNCHANGED busVars
  BY <1>4 DEF busVars
<1>5. QED
  BY <1>1, <1>2, <1>3, <1>4 DEF BusNext

(* Every variable keeps its type: in particular a duplicate test is only     *)
(* ever made against a state that was published.                            *)
THEOREM BusTyping == BusSpec => []BusTypeOK
<1>1. BusInit => BusTypeOK
  BY DEF BusInit, BusTypeOK, MaybeState
<1>2. BusTypeOK /\ [BusNext]_busVars => BusTypeOK'
  BY BusStepTyping
<1>3. QED
  BY <1>1, <1>2, PTL DEF BusSpec

------------------------------------------------------------------------------
(* A delivery keeps what a subscriber will hold in the end: either the head  *)
(* was the only update of the plug, and the view now has it, or the last one *)
(* is still queued, one position further on.                                *)
LEMMA DeliverKeeps ==
  ASSUME BusTypeOK, NEW s \in Subscribers, Deliver(s),
         NEW t \in Subscribers, NEW p \in Plugs, NEW st, WillHold(t, p, st)
  PROVE  WillHold(t, p, st)'
<1>1. CASE t # s
  <2>1. queue'[t] = queue[t] /\ view'[t] = view[t]
    BY <1>1 DEF Deliver, BusTypeOK
  <2>2. QED
    BY <2>1 DEF WillHold, Pending
<1>2. CASE t = s
  <2> DEFINE Q == queue[s]
  <2>1. Q \in Seq(Update) /\ Q # <<>>
    BY DEF Deliver, BusTypeOK
  <2>2. /\ Head(Q) = Q[1] /\ Head(Q) \in Update
        /\ Len(Q) \in Nat \ {0} /\ DOMAIN Q = 1 .. Len(Q)
        /\ DOMAIN Tail(Q) = 1 .. (Len(Q) - 1)
        /\ \A i \in 1 .. (Len(Q) - 1) : Tail(Q)[i] = Q[i + 1]
    BY <2>1, PendingTail
  <2>3. queue'[s] = Tail(Q)
    BY DEF Deliver, BusTypeOK
  <2>4. view'[s][p] = IF Q[1].plug = p THEN Q[1].state ELSE view[s][p]
    BY <2>2 DEF Deliver, BusTypeOK, Update
  <2>5. CASE Pending(s, p) = {} /\ view[s][p] = st
    <3>1. Q[1].plug # p
      BY <2>2, <2>5 DEF Pending
    <3>2. Pending(s, p)' = {}
      BY <2>2, <2>3, <2>5 DEF Pending
    <3>3. QED
      BY <1>2, <2>4, <2>5, <3>1, <3>2 DEF WillHold
  <2>6. ASSUME NEW i \in Pending(s, p), \A j \in Pending(s, p) : j <= i,
               Q[i].state = st
        PROVE  WillHold(s, p, st)'
    <3>1. i \in 1 .. Len(Q) /\ Q[i].plug = p
      BY <2>2, <2>6 DEF Pending
    <3>2. \A j \in Pending(s, p)' : j + 1 \in Pending(s, p) /\ j \in Nat
      BY <2>2, <2>3 DEF Pending
    <3>3. CASE i = 1
      <4>1. Pending(s, p)' = {}
        <5> SUFFICES ASSUME NEW j \in Pending(s, p)'
                     PROVE  FALSE
          OBVIOUS
        <5>1. j \in 1 .. (Len(Q) - 1) /\ j + 1 \in Pending(s, p)
          BY <2>2, <2>3, <3>2 DEF Pending
        <5>2. QED
          BY <2>2, <2>6, <3>3, <5>1
      <4>2. view'[s][p] = st
        BY <2>4, <2>6, <3>1, <3>3
      <4>3. QED
        BY <4>1, <4>2 DEF WillHold
    <3>4. CASE i # 1
      <4>1. i - 1 \in 1 .. (Len(Q) - 1) /\ Tail(Q)[i - 1] = Q[i]
        BY <2>2, <3>1, <3>4
      <4>2. i - 1 \in Pending(s, p)'
        BY <2>2, <2>3, <3>1, <4>1 DEF Pending
      <4>3. \A j \in Pending(s, p)' : j <= i - 1
        BY <2>6, <3>1, <3>2
      <4>4. QED
        BY <2>3, <2>6, <4>1, <4>2, <4>3 DEF WillHold
    <3>5. QED
      BY <3>3, <3>4
  <2>7. QED
    BY <1>2, <2>5, <2>6 DEF WillHold
<1>3. QED
  BY <1>1, <1>2

(* A publication gives a subscriber of plug q the new state to hold in the   *)
(* end, and leaves what it will hold of every other plug.                   *)
LEMMA PublishReaches ==
  ASSUME BusTypeOK, NEW q \in Plugs, NEW st \in State, NEW newTimes \in BOOLEAN,
         PublishStateUpdate(q, st, newTimes), ~Duplicate(q, st, newTimes),
         NEW s \in subscribed
  PROVE  /\ WillHold(s, q, st)'
         /\ \A p \in Plugs \ {q} : \A x : WillHold(s, p, x) => WillHold(s, p, x)'
<1> DEFINE Q == queue[s]
           R == Append(Q, [plug |-> q, state |-> st])
<1>0. s \in Subscribers /\ Q \in Seq(Update) /\ Len(Q) \in Nat /\ DOMAIN Q = 1 .. Len(Q)
  BY LenProperties DEF BusTypeOK
<1>1. queue'[s] = R /\ view'[s] = view[s]
  BY <1>0 DEF PublishStateUpdate
<1>2. /\ DOMAIN R = DOMAIN Q \cup {Len(Q) + 1}
      /\ \A i \in DOMAIN Q : i <= Len(Q) /\ R[i] = Q[i]
      /\ R[Len(Q) + 1] = [plug |-> q, state |-> st]
  BY <1>0, PendingAppend
<1> HIDE DEF R
<1>3. WillHold(s, q, st)'
  <2>1. Len(Q) + 1 \in Pending(s, q)'
    BY <1>1, <1>2 DEF Pending
  <2>2. \A j \in Pending(s, q)' : j <= Len(Q) + 1
    BY <1>0, <1>1, <1>2 DEF Pending
  <2>3. queue'[s][Len(Q) + 1].state = st
    BY <1>1, <1>2
  <2>4. QED
    BY <2>1, <2>2, <2>3 DEF WillHold
<1>4. ASSUME NEW p \in Plugs \ {q}, NEW x, WillHold(s, p, x)
      PROVE  WillHold(s, p, x)'
  <2>1. Pending(s, p)' = Pending(s, p)
    BY <1>0, <1>1, <1>2 DEF Pending
  <2>2. \A i \in Pending(s, p) : queue'[s][i] = Q[i]
    BY <1>1, <1>2 DEF Pending
  <2>3. QED
    BY <1>1, <1>4, <2>1, <2>2 DEF WillHold
<1>5. QED
  BY <1>3, <1>4

------------------------------------------------------------------------------
(* Every step of the bus keeps what the subscribers will hold.               *)
LEMMA DrainedStep ==
  ASSUME BusTypeOK, OwedAreSubscribed, DrainedViewIsLast, [BusNext]_busVars
  PROVE  OwedAreSubscribed' /\ DrainedViewIsLast'
<1>1. ASSUME NEW s \in Subscribers, Subscribe(s)
      PROVE  OwedAreSubscribed' /\ DrainedViewIsLast'
  <2>1. UNCHANGED <<lastStates, queue, view, owed>> /\ subscribed \subseteq subscribed'
    BY <1>1 DEF Subscribe
  <2>2. QED
    BY <2>1 DEF OwedAreSubscribed, DrainedViewIsLast, WillHold, Pending
<1>2. ASSUME NEW s \in Subscribers, Deliver(s)
      PROVE  OwedAreSubscribed' /\ DrainedViewIsLast'
  <2>1. UNCHANGED <<lastStates, subscribed, owed>>
    BY <1>2 DEF Deliver
  <2>2. OwedAreSubscribed'
    BY <2>1 DEF OwedAreSubscribed
  <2>3. ASSUME NEW t \in Subscribers, NEW p \in owed'[t]
        PROVE  WillHold(t, p, lastStates[p])'
    <3>1. p \in Plugs /\ WillHold(t, p, lastStates[p])
      BY <2>1, <2>3 DEF BusTypeOK, DrainedViewIsLast
    <3>2. QED
      BY <1>2, <2>1, <3>1, DeliverKeeps
  <2>4. QED
    BY <2>2, <2>3 DEF DrainedViewIsLast
<1>3. ASSUME NEW q \in Plugs, NEW st \in State, NEW newTimes \in BOOLEAN,
             PublishStateUpdate(q, st, newTimes)
      PROVE  OwedAreSubscribed' /\ DrainedViewIsLast'
  <2>1. CASE Duplicate(q, st, newTimes)
    <3>1. UNCHANGED <<lastStates, queue, owed, subscribed, view>>
      BY <1>3, <2>1 DEF PublishStateUpdate
    <3>2. QED
      BY <3>1 DEF OwedAreSubscribed, DrainedViewIsLast, WillHold, Pending
  <2>2. CASE ~Duplicate(q, st, newTimes)
    <3>1. /\ queue' = [s \in Subscribers |->
                         IF s \in subscribed
                         THEN Append(queue[s], [plug |-> q, state |-> st])
                         ELSE queue[s]]
          /\ lastStates' = [lastStates EXCEPT ![q] = st]
          /\ owed' = [s \in Subscribers |->
                        IF s \in subscribed THEN owed[s] \cup {q} ELSE owed[s]]
          /\ subscribed' = subscribed /\ view' = view
      BY <1>3, <2>2 DEF PublishStateUpdate
    <3>2. OwedAreSubscribed'
      BY <3>1 DEF OwedAreSubscribed
    <3>3. ASSUME NEW t \in Subscribers, NEW p \in owed'[t]
          PROVE  WillHold(t, p, lastStates[p])'
      <4>1. t \in subscribed /\ p \in owed[t] \cup {q} /\ p \in Plugs
        BY <3>1, <3>3 DEF OwedAreSubscribed, BusTypeOK
      <4>2. lastStates'[p] = IF p = q THEN st ELSE lastStates[p]
        BY <3>1, <4>1 DEF BusTypeOK
      <4>3. CASE p = q
        BY <1>3, <2>2, <4>1, <4>2, <4>3, PublishReaches DEF WillHold, Pending
      <4>4. CASE p # q
        <5> DEFINE x == lastStates[p]
        <5>1. WillHold(t, p, x)
          BY <4>1, <4>4 DEF DrainedViewIsLast, BusTypeOK
        <5>2. \A y : WillHold(t, p, y) => WillHold(t, p, y)'
          BY <1>3, <2>2, <4>1, <4>4, PublishReaches
        <5>3. lastStates'[p] = x
          BY <4>2, <4>4
        <5> HIDE DEF x
        <5>4. QED
          BY <5>1, <5>2, <5>3 DEF WillHold, Pending
      <4>5. QED
        BY <4>3, <4>4
    <3>4. QED
      BY <3>2, <3>3 DEF DrainedViewIsLast
  <2>3. QED
    BY <2>1, <2>2
<1>4. CASE UNCHANGED busVars
  BY <1>4 DEF busVars, OwedAreSubscribed, DrainedViewIsLast, WillHold, Pending
<1>5. QED
  BY <1>1, <1>2, <1>3, <1>4 DEF BusNext

(* Nothing published since it subscribed is lost on a subscriber, and it     *)
(* ends up with the very update that later ones are compared with.          *)
THEOREM DrainedView == BusSpec => []DrainedViewIsLast
<1>1. BusInit => OwedAreSubscribed /\ DrainedViewIsLast
  BY DEF BusInit, OwedAreSubscribed, DrainedViewIsLast
<1>2. BusTypeOK /\ OwedAreSubscribed /\ DrainedViewIsLast /\ [BusNext]_busVars
      => OwedAreSubscribed' /\ DrainedViewIsLast'
  BY DrainedStep
<1>3. QED
  BY <1>1, <1>2, BusTyping, PTL DEF BusSpec

------------------------------------------------------------------------------
(* However long updates are skipped as duplicates, the last one published    *)
(* is within the tolerance of the one offered last.                         *)
THEOREM NoDrift == BusSpec => []SkippedIsNear
<1>1. BusInit => SkippedIsNear
  BY DEF BusInit, SkippedIsNear
<1>2. BusTypeOK /\ SkippedIsNear /\ [BusNext]_busVars => SkippedIsNear'
  <2> SUFFICES ASSUME BusTypeOK, SkippedIsNear, [BusNext]_busVars,
                      NEW p \in Plugs, offered'[p] # None
               PROVE  /\ lastStates'[p] # None
                      /\ \/ offered'[p] = lastStates'[p]
                         \/ Equals(offered'[p], lastStates'[p])
    BY DEF SkippedIsNear, Equals
  <2>1. CASE UNCHANGED <<offered, lastStates>>
    BY <2>1 DEF SkippedIsNear
  <2>2. ASSUME NEW q \in Plugs, NEW st \in State, NEW newTimes \in BOOLEAN,
               PublishStateUpdate(q, st, newTimes)
        PROVE  /\ lastStates'[p] # None
               /\ \/ offered'[p] = lastStates'[p]
                  \/ Equals(offered'[p], lastStates'[p])
    <3>1. offered'[p] = IF p = q THEN st ELSE offered[p]
      BY <2>2 DEF PublishStateUpdate, BusTypeOK
    <3>2. CASE Duplicate(q, st, newTimes)
      <4>1. lastStates' = lastStates
        BY <2>2, <3>2 DEF PublishStateUpdate
      <4>2. lastStates[q] # None /\ Equals(st, lastStates[q])
        BY <3>2 DEF Duplicate
      <4>3. QED
        BY <3>1, <4>1, <4>2 DEF SkippedIsNear
    <3>3. CASE ~Duplicate(q, st, newTimes)
      <4>1. lastStates'[p] = IF p = q THEN st ELSE lastStates[p]
        BY <2>2, <3>3 DEF PublishStateUpdate, BusTypeOK
      <4>2. st # None
        BY NoneAssumption
      <4>3. QED
        BY <3>1, <4>1, <4>2 DEF SkippedIsNear
    <3>4. QED
      BY <3>2, <3>3
  <2>3. QED
    BY <2>1, <2>2 DEF BusNext, Subscribe, Deliver, busVars
<1>3. QED
  BY <1>1, <1>2, BusTyping, PTL DEF BusSpec
==============================================================================
