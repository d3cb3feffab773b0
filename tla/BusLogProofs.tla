----------------------------- MODULE BusLogProofs -----------------------------
(***************************************************************************)
(* The event bus implements the log of updates: proved for every set of        *)
(* plugs, readings and subscribers and for queues and logs of any length.     *)
(***************************************************************************)
EXTENDS BusLog, EventBusProofs

(* A subscriber's queue is the end of the log; who has not subscribed has      *)
(* none.  This is what makes Position the position of a reader.              *)
QueueIsRest(s) ==
  IF s \in subscribed
  THEN /\ Len(queue[s]) <= Len(log)
       /\ \A i \in 1 .. Len(queue[s]) : queue[s][i] = log[Len(log) - Len(queue[s]) + i]
  ELSE queue[s] = <<>>

LogInv == log \in Seq(Update) /\ \A s \in Subscribers : QueueIsRest(s)

------------------------------------------------------------------------------
(* What a publication that is no duplicate does, with its length facts.       *)
LEMMA PublishEffectOnLog ==
  ASSUME BusTypeOK, LogInv, NEW p \in Plugs, NEW st \in State, NEW newTimes \in BOOLEAN,
         Publish(p, st, newTimes), ~Duplicate(p, st, newTimes)
  PROVE  LET e == [plug |-> p, state |-> st]
         IN /\ e \in Update /\ subscribed' = subscribed /\ view' = view
            /\ log' = Append(log, e) /\ log' \in Seq(Update) /\ Len(log') = Len(log) + 1
            /\ log'[Len(log) + 1] = e
            /\ \A i \in 1 .. Len(log) : log'[i] = log[i]
            /\ \A s \in Subscribers \ subscribed : queue'[s] = queue[s]
            /\ \A s \in Subscribers \cap subscribed :
                  /\ Len(queue'[s]) = Len(queue[s]) + 1
                  /\ queue'[s][Len(queue[s]) + 1] = e
                  /\ \A i \in 1 .. Len(queue[s]) : queue'[s][i] = queue[s][i]
<1> DEFINE e == [plug |-> p, state |-> st]
<1>1. e \in Update
  BY DEF Update
<1>2. /\ subscribed' = subscribed /\ view' = view
      /\ log' = Append(log, e)
      /\ queue' = [t \in Subscribers |->
                     IF t \in subscribed THEN Append(queue[t], e) ELSE queue[t]]
  BY DEF Publish, PublishStateUpdate
<1>3. log \in Seq(Update)
  BY DEF LogInv
<1>4. /\ log' \in Seq(Update) /\ Len(log') = Len(log) + 1
      /\ log'[Len(log) + 1] = e /\ \A i \in 1 .. Len(log) : log'[i] = log[i]
  BY <1>1, <1>2, <1>3, AppendProperties
<1>5. ASSUME NEW s \in Subscribers \cap subscribed
      PROVE  /\ Len(queue'[s]) = Len(queue[s]) + 1
             /\ queue'[s][Len(queue[s]) + 1] = e
             /\ \A i \in 1 .. Len(queue[s]) : queue'[s][i] = queue[s][i]
  <2>1. queue[s] \in Seq(Update) /\ queue'[s] = Append(queue[s], e)
    BY <1>2 DEF BusTypeOK
  <2>2. QED
    BY <1>1, <2>1, AppendProperties
<1>6. \A s \in Subscribers \ subscribed : queue'[s] = queue[s]
  BY <1>2
<1>7. QED
  BY <1>1, <1>2, <1>4, <1>5, <1>6

(* What a delivery does: the subscriber takes the entry of the log at its      *)
(* position.                                                               *)
LEMMA ReceiveEffectOnLog ==
  ASSUME BusTypeOK, LogInv, NEW s \in Subscribers, Receive(s)
  PROVE  /\ s \in subscribed /\ log' = log /\ subscribed' = subscribed
         /\ Len(log) \in Nat /\ Len(queue[s]) \in 1 .. Len(log)
         /\ Head(queue[s]) = log[Len(log) - Len(queue[s]) + 1]
         /\ Len(queue'[s]) = Len(queue[s]) - 1
         /\ \A i \in 1 .. Len(queue[s]) - 1 : queue'[s][i] = queue[s][i + 1]
         /\ \A t \in Subscribers \ {s} : queue'[t] = queue[t]
         /\ view' = [view EXCEPT ![s][Head(queue[s]).plug] = Head(queue[s]).state]
<1>1. queue[s] \in Seq(Update) /\ queue[s] # <<>> /\ log \in Seq(Update)
  BY DEF Receive, Deliver, BusTypeOK, LogInv
<1>2. /\ Head(queue[s]) = queue[s][1]
      /\ Len(queue[s]) \in Nat \ {0}
      /\ DOMAIN Tail(queue[s]) = 1 .. (Len(queue[s]) - 1)
      /\ \A i \in 1 .. (Len(queue[s]) - 1) : Tail(queue[s])[i] = queue[s][i + 1]
  BY <1>1, PendingTail
<1>3. QueueIsRest(s)
  BY DEF LogInv
<1>4. s \in subscribed
  BY <1>1, <1>3 DEF QueueIsRest
<1>5. Len(log) \in Nat /\ Len(queue[s]) <= Len(log)
      /\ queue[s][1] = log[Len(log) - Len(queue[s]) + 1]
  <2>1. Len(log) \in Nat
    BY <1>1, LenProperties
  <2>2. 1 \in 1 .. Len(queue[s])
    BY <1>2
  <2>3. QED
    BY <1>3, <1>4, <2>1, <2>2 DEF QueueIsRest
<1>6. /\ queue' = [queue EXCEPT ![s] = Tail(queue[s])] /\ log' = log /\ subscribed' = subscribed
      /\ view' = [view EXCEPT ![s][Head(queue[s]).plug] = Head(queue[s]).state]
  BY DEF Receive, Deliver
<1>7. queue'[s] = Tail(queue[s]) /\ \A t \in Subscribers \ {s} : queue'[t] = queue[t]
  BY <1>6 DEF BusTypeOK
<1>8. Len(Tail(queue[s])) = Len(queue[s]) - 1
  BY <1>1, HeadTailProperties
<1>9. Len(queue[s]) \in 1 .. Len(log)
  BY <1>2, <1>5
<1>10. Len(queue'[s]) = Len(queue[s]) - 1
       /\ \A i \in 1 .. Len(queue[s]) - 1 : queue'[s][i] = queue[s][i + 1]
  BY <1>2, <1>7, <1>8
<1>11. Head(queue[s]) = log[Len(log) - Len(queue[s]) + 1]
  BY <1>2, <1>5
<1>12. QED
  BY <1>4, <1>5, <1>6, <1>7, <1>9, <1>10, <1>11

------------------------------------------------------------------------------
(* LogInv is an invariant.                                                 *)
LEMMA LogInvHolds == LogSpec => [](BusTypeOK /\ LogInv)
<1>1. LogInit => LogInv
  BY DEF LogInit, BusInit, LogInv, QueueIsRest
<1>2. ASSUME BusTypeOK, BusTypeOK', LogInv, [LogNext]_logVars
      PROVE  LogInv'
  <2>0. log \in Seq(Update) /\ Len(log) \in Nat
    BY <1>2, LenProperties DEF LogInv
  <2>1. ASSUME NEW s \in Subscribers, Subscribe(s), UNCHANGED log
        PROVE  LogInv'
    <3>1. queue' = queue /\ subscribed' = subscribed \cup {s} /\ queue[s] = <<>>
      BY <1>2, <2>1 DEF Subscribe, LogInv, QueueIsRest
    <3>2. ASSUME NEW t \in Subscribers PROVE QueueIsRest(t)'
      <4>1. CASE t = s
        <5>1. Len(queue'[t]) = 0
          BY <3>1, <4>1
        <5>2. t \in subscribed' /\ 1 .. Len(queue'[t]) = {}
          BY <3>1, <4>1, <5>1
        <5>3. Len(queue'[t]) <= Len(log')
          BY <2>0, <2>1, <5>1
        <5>4. QED
          BY <5>2, <5>3 DEF QueueIsRest
      <4>2. CASE t # s
        BY <1>2, <2>1, <3>1, <4>2 DEF LogInv, QueueIsRest
      <4>3. QED
        BY <4>1, <4>2
    <3>3. QED
      BY <2>0, <2>1, <3>2 DEF LogInv
  <2>2. ASSUME NEW s \in Subscribers, Receive(s)
        PROVE  LogInv'
    <3>1. /\ s \in subscribed /\ log' = log /\ subscribed' = subscribed
          /\ Len(queue[s]) \in 1 .. Len(log)
          /\ Len(queue'[s]) = Len(queue[s]) - 1
          /\ \A i \in 1 .. Len(queue[s]) - 1 : queue'[s][i] = queue[s][i + 1]
          /\ \A t \in Subscribers \ {s} : queue'[t] = queue[t]
      BY <1>2, <2>2, ReceiveEffectOnLog
    <3>2. \A t \in Subscribers \ {s} : QueueIsRest(t)'
      BY <1>2, <3>1 DEF LogInv, QueueIsRest
    <3>3. QueueIsRest(s)'
      <4>1. \A i \in 1 .. Len(queue[s]) : queue[s][i] = log[Len(log) - Len(queue[s]) + i]
        BY <1>2, <3>1 DEF LogInv, QueueIsRest
      <4>2. ASSUME NEW i \in 1 .. Len(queue'[s])
            PROVE  queue'[s][i] = log[Len(log) - Len(queue'[s]) + i]
        <5>1. i \in 1 .. Len(queue[s]) - 1 /\ i + 1 \in 1 .. Len(queue[s])
          BY <2>0, <3>1, <4>2
        <5>2. queue'[s][i] = log[Len(log) - Len(queue[s]) + (i + 1)]
          BY <3>1, <4>1, <5>1
        <5>3. Len(log) - Len(queue[s]) + (i + 1) = Len(log) - Len(queue'[s]) + i
          BY <2>0, <3>1, <5>1
        <5>4. QED
          BY <5>2, <5>3
      <4>3. Len(queue'[s]) <= Len(log)
        BY <2>0, <3>1
      <4>4. QED
        BY <3>1, <4>2, <4>3 DEF QueueIsRest
    <3>4. QED
      BY <2>0, <3>1, <3>2, <3>3 DEF LogInv
  <2>3. ASSUME NEW p \in Plugs, NEW st \in State, NEW newTimes \in BOOLEAN,
               Publish(p, st, newTimes)
        PROVE  LogInv'
    <3>1. CASE Duplicate(p, st, newTimes)
      <4>1. log' = log /\ queue' = queue /\ subscribed' = subscribed
        BY <2>3, <3>1 DEF Publish, PublishStateUpdate
      <4>2. QED
        BY <1>2, <4>1 DEF LogInv, QueueIsRest
    <3>2. CASE ~Duplicate(p, st, newTimes)
      <4> DEFINE e == [plug |-> p, state |-> st]
      <4>1. /\ subscribed' = subscribed
            /\ log' \in Seq(Update) /\ Len(log') = Len(log) + 1 /\ log'[Len(log) + 1] = e
            /\ \A i \in 1 .. Len(log) : log'[i] = log[i]
            /\ \A s \in Subscribers \ subscribed : queue'[s] = queue[s]
            /\ \A s \in Subscribers \cap subscribed :
                  /\ Len(queue'[s]) = Len(queue[s]) + 1
                  /\ queue'[s][Len(queue[s]) + 1] = e
                  /\ \A i \in 1 .. Len(queue[s]) : queue'[s][i] = queue[s][i]
        BY <1>2, <2>3, <3>2, PublishEffectOnLog
      <4> HIDE DEF e
      <4>2. ASSUME NEW s \in Subscribers PROVE QueueIsRest(s)'
        <5>1. CASE s \notin subscribed
          BY <1>2, <4>1, <5>1 DEF LogInv, QueueIsRest
        <5>2. CASE s \in subscribed
          <6>1. /\ Len(queue[s]) \in Nat /\ Len(queue[s]) <= Len(log)
                /\ \A i \in 1 .. Len(queue[s]) : queue[s][i] = log[Len(log) - Len(queue[s]) + i]
            <7>1. queue[s] \in Seq(Update)
              BY <1>2 DEF BusTypeOK
            <7>2. QED
              BY <1>2, <5>2, <7>1, LenProperties DEF LogInv, QueueIsRest
          <6>2. ASSUME NEW i \in 1 .. Len(queue'[s])
                PROVE  queue'[s][i] = log'[Len(log') - Len(queue'[s]) + i]
            <7> DEFINE m == Len(log)
                       n == Len(queue[s])
            <7>0. /\ m \in Nat /\ n \in Nat /\ i \in 1 .. n + 1
                  /\ Len(log') = m + 1 /\ Len(queue'[s]) = n + 1
              BY <2>0, <4>1, <5>2, <6>1, <6>2
            <7>1. Len(log') - Len(queue'[s]) + i = m - n + i
              <8> HIDE DEF m, n
              <8>1. QED
                BY <7>0
            <7>2. CASE i = Len(queue[s]) + 1
              <8>1. m - n + i = m + 1
                <9> HIDE DEF m, n
                <9>1. i = n + 1
                  BY <7>2 DEF n
                <9>2. QED
                  BY <7>0, <9>1
              <8>2. QED
                BY <4>1, <5>2, <7>1, <7>2, <8>1
            <7>3. CASE i \in 1 .. Len(queue[s])
              <8>1. Len(log) - Len(queue[s]) + i \in 1 .. Len(log)
                BY <6>1, <7>0, <7>3
              <8>2. QED
                BY <4>1, <5>2, <6>1, <7>1, <7>3, <8>1
            <7>4. QED
              <8>1. i = n + 1 \/ i \in 1 .. n
                <9> HIDE DEF m, n
                <9>1. QED
                  BY <7>0
              <8>2. QED
                BY <8>1, <7>2, <7>3
          <6>3. Len(queue'[s]) <= Len(log')
            BY <2>0, <4>1, <5>2, <6>1
          <6>4. QED
            BY <4>1, <5>2, <6>2, <6>3 DEF QueueIsRest
        <5>3. QED
          BY <5>1, <5>2
      <4>3. QED
        BY <4>1, <4>2 DEF LogInv
    <3>3. QED
      BY <3>1, <3>2
  <2>4. CASE UNCHANGED logVars
    BY <1>2, <2>4 DEF logVars, busVars, LogInv, QueueIsRest
  <2>5. QED
    BY <1>2, <2>1, <2>2, <2>3, <2>4 DEF LogNext
<1>3. LogSpec => BusSpec
  <2>1. LogInit => BusInit
    BY DEF LogInit
  <2>2. [LogNext]_logVars => [BusNext]_busVars
    BY DEF LogNext, Receive, Publish, BusNext, logVars
  <2>3. QED
    BY <2>1, <2>2, PTL DEF LogSpec, BusSpec
<1>4. QED
  BY <1>1, <1>2, <1>3, BusTyping, PTL DEF LogSpec

------------------------------------------------------------------------------
(* The bus implements the log: a subscription is a Join, a publication that is  *)
(* no duplicate an Add, a delivery a Read, and a skipped duplicate changes      *)
(* nothing a reader could see.                                              *)
THEOREM BusImplementsLog == LogSpec => ReadsTheLog
<1>1. LogInit => Log!Init
  <2> SUFFICES ASSUME LogInit PROVE Log!Init
    OBVIOUS
  <2>1. Position = [r \in Subscribers |-> 0]
    BY DEF LogInit, BusInit, Position
  <2>2. QED
    BY <2>1 DEF LogInit, BusInit, Log!Init
<1>2. ASSUME BusTypeOK, LogInv, [LogNext]_logVars
      PROVE  [Log!Next]_(Log!logVars)
  <2>0. log \in Seq(Update) /\ Len(log) \in Nat
    BY <1>2, LenProperties DEF LogInv
  <2>1. ASSUME NEW s \in Subscribers, Subscribe(s), UNCHANGED log
        PROVE  Log!Join(s)
    <3>1. /\ s \notin subscribed /\ subscribed' = subscribed \cup {s}
          /\ log' = log /\ queue' = queue /\ view' = view
      BY <2>1 DEF Subscribe
    <3>2. Len(queue[s]) = 0
      <4>1. queue[s] = <<>>
        BY <1>2, <3>1 DEF LogInv, QueueIsRest
      <4>2. QED
        BY <4>1
    <3>3. Position' = [Position EXCEPT ![s] = Len(log)]
      <4>1. Position'[s] = Len(log)
        BY <2>0, <3>1, <3>2 DEF Position
      <4>2. \A t \in Subscribers \ {s} : Position'[t] = Position[t]
        BY <3>1 DEF Position
      <4>3. QED
        BY <4>1, <4>2 DEF Position
    <3>4. QED
      BY <3>1, <3>3 DEF Log!Join
  <2>2. ASSUME NEW s \in Subscribers, Receive(s)
        PROVE  Log!Read(s)
    <3>1. /\ s \in subscribed /\ log' = log /\ subscribed' = subscribed
          /\ Len(log) \in Nat /\ Len(queue[s]) \in 1 .. Len(log)
          /\ Head(queue[s]) = log[Len(log) - Len(queue[s]) + 1]
          /\ Len(queue'[s]) = Len(queue[s]) - 1
          /\ \A t \in Subscribers \ {s} : queue'[t] = queue[t]
          /\ view' = [view EXCEPT ![s][Head(queue[s]).plug] = Head(queue[s]).state]
      BY <1>2, <2>2, ReceiveEffectOnLog
    <3>2. Position[s] = Len(log) - Len(queue[s]) /\ Position[s] < Len(log)
      BY <3>1 DEF Position
    <3>3. Position' = [Position EXCEPT ![s] = @ + 1]
      <4>1. Position'[s] = Position[s] + 1
        BY <3>1, <3>2 DEF Position
      <4>2. \A t \in Subscribers \ {s} : Position'[t] = Position[t]
        BY <3>1 DEF Position
      <4>3. QED
        BY <4>1, <4>2 DEF Position
    <3>4. Head(queue[s]) = log[Position[s] + 1]
      BY <3>1, <3>2
    <3>5. QED
      BY <3>1, <3>2, <3>3, <3>4 DEF Log!Read
  <2>3. ASSUME NEW p \in Plugs, NEW st \in State, NEW newTimes \in BOOLEAN,
               Publish(p, st, newTimes), ~Duplicate(p, st, newTimes)
        PROVE  Log!Add([plug |-> p, state |-> st])
    <3>1. /\ subscribed' = subscribed /\ view' = view
          /\ log' = Append(log, [plug |-> p, state |-> st]) /\ Len(log') = Len(log) + 1
          /\ \A s \in Subscribers \cap subscribed : Len(queue'[s]) = Len(queue[s]) + 1
      BY <1>2, <2>3, PublishEffectOnLog
    <3>2. ASSUME NEW s \in Subscribers \cap subscribed
          PROVE  Len(log') - Len(queue'[s]) = Len(log) - Len(queue[s])
      <4> DEFINE m == Len(log)
                 n == Len(queue[s])
      <4>1. n \in Nat
        BY <1>2, <3>2, LenProperties DEF BusTypeOK
      <4>2. m \in Nat /\ Len(log') = m + 1 /\ Len(queue'[s]) = n + 1
        BY <2>0, <3>1, <3>2
      <4>3. QED
        <5> HIDE DEF m, n
        <5>1. Len(log') - Len(queue'[s]) = m - n
          BY <4>1, <4>2
        <5>2. QED
          BY <5>1 DEF m, n
    <3>3. Position' = Position
      BY <3>1, <3>2 DEF Position
    <3>4. QED
      BY <3>1, <3>3 DEF Log!Add
  <2>4. ASSUME NEW p \in Plugs, NEW st \in State, NEW newTimes \in BOOLEAN,
               Publish(p, st, newTimes), Duplicate(p, st, newTimes)
        PROVE  UNCHANGED Log!logVars
    BY <2>4 DEF Publish, PublishStateUpdate, Position, Log!logVars
  <2>5. CASE UNCHANGED logVars
    BY <2>5 DEF logVars, busVars, Position, Log!logVars
  <2>6. \A p \in Plugs, st \in State : [plug |-> p, state |-> st] \in Log!Entry
    BY DEF Log!Entry
  <2>7. QED
    BY <1>2, <2>1, <2>2, <2>3, <2>4, <2>5, <2>6 DEF LogNext, Log!Next
<1>3. QED
  BY <1>1, <1>2, LogInvHolds, PTL DEF LogSpec, ReadsTheLog, Log!Spec
==============================================================================
