------------------------------ MODULE BridgeProofs ------------------------------
(***************************************************************************)
(* Theorems about the whole bridge, for any number of plugs, accessories,    *)
(* requests and writes: they put together what EventBusProofs shows of the   *)
(* bus and PlugManagerProofs of the manager.                                *)
(***************************************************************************)
EXTENDS Bridge, EventBusProofs, PlugManagerProofs

(* The interfaces do to manager and bus what these allow: a step of Bridge is  *)
(* one of the manager, a subscription, a delivery, or a HomeKit write.       *)
Elsewhere == UNCHANGED <<busVars, device, states, commands, stateEvents, copy, call,
                         wasOn, unpublished>>

LEMMA BridgeSteps ==
  ASSUME BridgeTypeOK, [Next]_vars
  PROVE  \/ /\ ManagerStep \/ UNCHANGED <<busVars, mgrVars>>
            /\ UNCHANGED <<characteristic, overwritten>>
         \/ /\ NewHAPManager \/ NewWebServer \/ HapReceive \/ WebReceive
            /\ \E s \in Subscribers : Subscribe(s) \/ Deliver(s)
            /\ UNCHANGED mgrVars
         \/ /\ \E w \in Writers, p \in HomeKitPlugs, on \in BOOLEAN : HomeKitWrite(w, p, on)
            /\ Input /\ Elsewhere
<1>1. ASSUME NEW w \in Writers, HomeKitSend(w)
      PROVE  ManagerStep /\ UNCHANGED <<characteristic, overwritten>>
  <2>1. writer[w] \in Command
    BY <1>1 DEF HomeKitSend, BridgeTypeOK
  <2>2. writer[w].plug \in Plugs /\ writer[w].on \in BOOLEAN
    BY <2>1 DEF Command
  <2>3. SendCommand(writer[w].plug, writer[w].on) /\ UNCHANGED inputs
    BY <1>1 DEF HomeKitSend
  <2>4. QED
    BY <1>1, <2>2, <2>3 DEF ManagerStep, HomeKitSend
<1>2. ASSUME NEW w \in Writers, NEW p \in HomeKitPlugs, NEW on \in BOOLEAN,
             HomeKitWrite(w, p, on)
      PROVE  Input /\ Elsewhere
  BY <1>2 DEF HomeKitWrite, Elsewhere
<1>3. NewHAPManager \/ NewWebServer \/ HapReceive \/ WebReceive
         => (\E s \in Subscribers : Subscribe(s) \/ Deliver(s)) /\ UNCHANGED mgrVars
  BY BridgeAssumption DEF NewHAPManager, NewWebServer, HapReceive, WebReceive
<1>4. (\E c \in Requests, p \in Plugs : GetStatus(c, p))
      \/ (\E c \in Requests : RefreshAll(c) \/ \E p \in Plugs, on \in BOOLEAN : Toggle(c, p, on))
      \/ (\E p \in Plugs : Button(p))
         => ManagerStep
  BY DEF ManagerStep, Outside
<1>5. ProcessCommand \/ MergeEvent \/ PublishCopy
      \/ (\E c \in Callers, p \in Plugs : CallStep(c, p))
         => ManagerStep
  BY DEF ManagerStep, Inside
<1>6. ASSUME NEW p \in Plugs, NEW format \in Periodic, Report(p, format)
      PROVE  ManagerStep /\ UNCHANGED hapVars
  BY <1>6 DEF Report, ManagerStep, Inside
<1>7. CASE Stimulus
  BY <1>2, <1>4, <1>7 DEF Stimulus, hapVars
<1>8. CASE UNCHANGED vars
  BY <1>8 DEF vars, hapVars
<1>9. QED
  BY <1>1, <1>3, <1>5, <1>6, <1>7, <1>8 DEF Next, hapVars

(* The manager writes to the bus only by publishing states of its plugs.      *)
LEMMA ManagerUsesBus ==
  ASSUME ManagerTypeOK, ManagerStep
  PROVE  \/ UNCHANGED busVars
         \/ \E p \in Plugs, state \in State, newTimes \in BOOLEAN :
               PublishStateUpdate(p, state, newTimes)
<1>1. SharedOK /\ CallOK /\ SharedOK'
  BY StepTyping, ManagerParts DEF Parts
<1>2. ASSUME NEW c \in Callers, NEW p \in Plugs, Apply(c, p)
      PROVE  \/ UNCHANGED busVars
             \/ \E state \in State, newTimes \in BOOLEAN : PublishStateUpdate(p, state, newTimes)
  <2>1. call[c][p].reply \in Reply
    BY <1>1, <1>2, CallContents DEF Apply
  <2>2. CASE call[c][p].reply.form = "status"
    <3>1. PICK newTimes \in Times : PublishStateUpdate(p, states'[p], newTimes)
      BY <1>2, <2>2 DEF Apply
    <3>2. PICK state \in State : state = states'[p]
      BY <1>1 DEF SharedOK
    <3>3. QED
      BY <3>1, <3>2 DEF Times
  <2>3. CASE call[c][p].reply.form \in {"mistyped", "garbage"}
    BY <1>2, <2>3 DEF Apply
  <2>4. QED
    BY <2>1, <2>2, <2>3 DEF Reply
<1>3. ASSUME PublishCopy
      PROVE  \E p \in Plugs, state \in State, newTimes \in BOOLEAN :
                PublishStateUpdate(p, state, newTimes)
  <2>1. copy.plug \in Plugs /\ copy.state \in State
    BY <1>1, <1>3 DEF PublishCopy, SharedOK, Update
  <2>2. QED
    BY <1>3, <2>1 DEF PublishCopy, Times
<1>4. QED
  BY <1>2, <1>3
     DEF ManagerStep, Outside, Inside, CallStep, Button, ForeignMessage, RefreshAll,
         GetStatus, Toggle, BeginCall, ProcessCommand, MergeEvent, PowerDone, PowerFailed,
         StatusAnswer, StatusFailed, Telemetry, SendCommand

LEMMA BridgeUsesBus ==
  ASSUME BridgeTypeOK, [Next]_vars
  PROVE  [BusNext]_busVars
<1>1. ManagerTypeOK
  BY DEF BridgeTypeOK
<1>2. CASE ManagerStep
  BY <1>1, <1>2, ManagerUsesBus DEF BusNext
<1>3. CASE Input /\ Elsewhere
  BY <1>3 DEF Elsewhere
<1>4. CASE \E s \in Subscribers : Subscribe(s) \/ Deliver(s)
  BY <1>4 DEF BusNext
<1>5. QED
  BY <1>2, <1>3, <1>4, BridgeSteps

(* The manager keeps its types under every step of the bridge.               *)
LEMMA ManagerStaysTyped ==
  ASSUME BridgeTypeOK, [Next]_vars
  PROVE  ManagerTypeOK'
<1>1. ManagerTypeOK
  BY DEF BridgeTypeOK
<1>2. CASE ManagerStep \/ UNCHANGED <<busVars, mgrVars>>
  BY <1>1, <1>2, StepTyping
<1>3. CASE UNCHANGED mgrVars
  <2>1. BusTypeOK'
    BY <1>1, BusStepTyping, BridgeUsesBus DEF ManagerTypeOK
  <2>2. QED
    BY <1>1, <1>3, <2>1 DEF mgrVars, ManagerTypeOK
<1>4. CASE Input /\ Elsewhere
  <2>1. BusTypeOK' /\ InputsOK'
    BY <1>1, <1>4, ManagerParts, BusUnchanged, InputType DEF Parts, Elsewhere
  <2>2. QED
    BY <1>1, <1>4, <2>1 DEF Elsewhere, ManagerTypeOK, InputsOK
<1>5. QED
  BY <1>2, <1>3, <1>4, BridgeSteps

LEMMA BridgeStepTyping ==
  ASSUME BridgeTypeOK, [Next]_vars
  PROVE  BridgeTypeOK'
<1>0. ManagerTypeOK' /\ BusTypeOK
  BY ManagerStaysTyped DEF BridgeTypeOK, ManagerTypeOK
<1> USE DEF BridgeTypeOK
<1>1. ASSUME NEW w \in Writers, NEW p \in HomeKitPlugs, NEW on \in BOOLEAN,
             HomeKitWrite(w, p, on)
      PROVE  BridgeTypeOK'
  <2>1. [plug |-> p, on |-> on] \in Command
    BY BridgeAssumption DEF Command
  <2>2. QED
    BY <1>0, <1>1, <2>1 DEF HomeKitWrite
<1>2. ASSUME NEW w \in Writers, HomeKitSend(w)
      PROVE  BridgeTypeOK'
  BY <1>0, <1>2 DEF HomeKitSend
<1>3. CASE HapReceive
  <2>1. queue[Hap] \in Seq(Update) /\ queue[Hap] # <<>>
    BY <1>0, <1>3, BridgeAssumption DEF HapReceive, Deliver, BusTypeOK
  <2>2. Head(queue[Hap]) \in Update
    BY <2>1, PendingTail
  <2>3. Head(queue[Hap]).state.on \in BOOLEAN
    BY <2>2 DEF Update, State
  <2>4. QED
    BY <1>0, <1>3, <2>3 DEF HapReceive
<1>4. CASE UNCHANGED hapVars
  BY <1>0, <1>4 DEF hapVars
<1>5. QED
  BY <1>1, <1>2, <1>3, <1>4
     DEF Next, Stimulus, NewHAPManager, NewWebServer, WebReceive, Report, vars

(* The bridge's state stays well typed, a HomeKit callback included that is     *)
(* stuck on a full commands channel.                                        *)
THEOREM BridgeTyping == Spec => []BridgeTypeOK
<1>1. Init => BridgeTypeOK
  <2> SUFFICES ASSUME Init PROVE BridgeTypeOK
    OBVIOUS
  <2>1. ManagerTypeOK
    BY ManagerInitTyping DEF Init
  <2>2. QED
    BY <2>1 DEF Init, BridgeTypeOK
<1>2. BridgeTypeOK /\ [Next]_vars => BridgeTypeOK'
  BY BridgeStepTyping
<1>3. QED
  BY <1>1, <1>2, PTL DEF Spec

(* Whatever the bridge does to the bus is what EventBus allows: it publishes    *)
(* states of configured plugs, subscribes, and handles the oldest update.     *)
THEOREM BridgeKeepsToBus == Spec => [][BusNext]_busVars
<1>1. BridgeTypeOK /\ [Next]_vars => [BusNext]_busVars
  BY BridgeUsesBus
<1>2. QED
  BY <1>1, BridgeTyping, PTL DEF Spec

------------------------------------------------------------------------------
(* What else holds of the bridge.  NewManager publishes a state of every plug    *)
(* before anybody subscribes, so that the bus always has one to compare with;  *)
(* and HomeKit shows the update it handled last until somebody writes.        *)
PublishedAreStates == lastStates \in [Plugs -> State]

HomeKitShowsView ==
  \A p \in HomeKitPlugs \ overwritten :
     view[Hap][p] # None => characteristic[p] = view[Hap][p].on

BridgeInv == /\ PublishedAreStates /\ HomeKitShowsView
             /\ OwedAreSubscribed /\ DrainedViewIsLast /\ BusFollowsManager

LEMMA BridgeInit == Init => BridgeInv
<1> SUFFICES ASSUME Init PROVE BridgeInv
  OBVIOUS
<1>1. PublishedAreStates
  BY InitialStateType DEF Init, ManagerInit, PublishedAreStates
<1>2. HomeKitShowsView
  BY BridgeAssumption DEF Init, ManagerInit, HomeKitShowsView
<1>3. OwedAreSubscribed /\ DrainedViewIsLast
  BY DEF Init, ManagerInit, OwedAreSubscribed, DrainedViewIsLast
<1>4. BusFollowsManager
  BY DEF Init, ManagerInit, BusFollowsManager, Held
<1>5. QED
  BY <1>1, <1>2, <1>3, <1>4 DEF BridgeInv

(* The bus only ever replaces a state by a state.                           *)
LEMMA StatesStayStates ==
  ASSUME BusTypeOK, PublishedAreStates, [BusNext]_busVars
  PROVE  PublishedAreStates'
<1>1. CASE UNCHANGED lastStates
  BY <1>1 DEF PublishedAreStates
<1>2. ASSUME NEW p \in Plugs, NEW state \in State, NEW newTimes \in BOOLEAN,
             PublishStateUpdate(p, state, newTimes)
      PROVE  PublishedAreStates'
  BY <1>1, <1>2 DEF PublishStateUpdate, PublishedAreStates
<1>3. QED
  BY <1>1, <1>2 DEF BusNext, Subscribe, Deliver, busVars

(* Only HapReceive changes what HomeKit has handled, and only it and a write   *)
(* of HomeKit itself what HomeKit shows.                                    *)
LEMMA HomeKitKeepsShowing ==
  ASSUME BridgeTypeOK, HomeKitShowsView, [Next]_vars
  PROVE  HomeKitShowsView'
<1>0. /\ view \in [Subscribers -> [Plugs -> MaybeState]] /\ Hap \in Subscribers
      /\ characteristic \in [HomeKitPlugs -> BOOLEAN] /\ HomeKitPlugs \subseteq Plugs
  BY BridgeAssumption DEF BridgeTypeOK, ManagerTypeOK, BusTypeOK
<1>1. CASE view'[Hap] = view[Hap] /\ UNCHANGED <<characteristic, overwritten>>
  BY <1>1 DEF HomeKitShowsView
<1>2. ASSUME NEW w \in Writers, NEW p \in HomeKitPlugs, NEW on \in BOOLEAN,
             HomeKitWrite(w, p, on)
      PROVE  HomeKitShowsView'
  <2>1. /\ view' = view /\ overwritten' = overwritten \cup {p}
        /\ characteristic' = [characteristic EXCEPT ![p] = on]
    BY <1>2 DEF HomeKitWrite, busVars
  <2>2. QED
    BY <1>0, <2>1 DEF HomeKitShowsView
<1>3. CASE HapReceive
  <2> DEFINE update == Head(queue[Hap])
  <2>1. view' = [view EXCEPT ![Hap][update.plug] = update.state]
    BY <1>3 DEF HapReceive, Deliver
  <2>2. CASE update.plug \in HomeKitPlugs
    <3>1. /\ characteristic' = [characteristic EXCEPT ![update.plug] = update.state.on]
          /\ overwritten' = overwritten \ {update.plug}
      BY <1>3, <2>2 DEF HapReceive
    <3>2. QED
      BY <1>0, <2>1, <2>2, <3>1 DEF HomeKitShowsView
  <2>3. CASE update.plug \notin HomeKitPlugs
    <3>1. UNCHANGED <<characteristic, overwritten>>
      BY <1>3, <2>3 DEF HapReceive
    <3>2. QED
      BY <1>0, <2>1, <2>3, <3>1 DEF HomeKitShowsView
  <2>4. QED
    BY <2>2, <2>3
<1>4. CASE view'[Hap] = view[Hap] /\ UNCHANGED hapVars
  BY <1>1, <1>4 DEF hapVars
<1>5. CASE NewHAPManager \/ NewWebServer
  BY <1>4, <1>5 DEF NewHAPManager, NewWebServer, Subscribe
<1>6. CASE WebReceive
  BY <1>0, <1>4, <1>6, BridgeAssumption DEF WebReceive, Deliver
<1>7. CASE ManagerStep /\ UNCHANGED <<characteristic, overwritten>>
  <2>1. view' = view
    BY <1>7, ManagerUsesBus DEF BridgeTypeOK, PublishStateUpdate, busVars
  <2>2. QED
    BY <1>1, <1>7, <2>1
<1>8. CASE UNCHANGED <<busVars, mgrVars>> /\ UNCHANGED <<characteristic, overwritten>>
  BY <1>1, <1>8 DEF busVars
<1>9. QED
  BY <1>2, <1>3, <1>5, <1>6, <1>7, <1>8, BridgeSteps

LEMMA BridgeStep ==
  ASSUME BridgeTypeOK, BridgeInv, [Next]_vars
  PROVE  BridgeInv'
<1>0. ManagerTypeOK /\ BusTypeOK /\ [BusNext]_busVars
  BY BridgeUsesBus DEF BridgeTypeOK, ManagerTypeOK
<1>1. PublishedAreStates'
  BY <1>0, StatesStayStates DEF BridgeInv
<1>2. HomeKitShowsView'
  BY HomeKitKeepsShowing DEF BridgeInv
<1>3. OwedAreSubscribed' /\ DrainedViewIsLast'
  BY <1>0, DrainedStep DEF BridgeInv
<1>4. BusFollowsManager'
  <2>1. CASE ManagerStep \/ UNCHANGED <<busVars, mgrVars>>
    BY <1>0, <2>1, FollowsStep DEF BridgeInv
  <2>2. CASE (\E s \in Subscribers : Subscribe(s) \/ Deliver(s)) /\ UNCHANGED mgrVars
    BY <2>2, ElsewhereKeeps DEF BridgeInv, Subscribe, Deliver, mgrVars
  <2>3. CASE Elsewhere
    BY <2>3, ElsewhereKeeps DEF BridgeInv, Elsewhere, busVars
  <2>4. QED
    BY <2>1, <2>2, <2>3, BridgeSteps
<1>5. QED
  BY <1>1, <1>2, <1>3, <1>4 DEF BridgeInv

(* A state is a duplicate of itself: the tolerance is positive.              *)
LEMMA EqualsItself ==
  ASSUME NEW state \in State
  PROVE  Equals(state, state)
<1>1. \A r \in Readings : state.energy[r] \in Int
  BY ReadingAssumption DEF State
<1>2. \A r \in Readings : AlmostEqual(state.energy[r], state.energy[r])
  BY <1>1, ReadingAssumption DEF AlmostEqual
<1>3. QED
  BY <1>2 DEF Equals

(* What a subscriber with an empty queue has handled last of a plug that it    *)
(* was sent something of is the last update published.                      *)
LEMMA DrainedHolds ==
  ASSUME BusTypeOK, DrainedViewIsLast, NEW s \in Subscribers, queue[s] = <<>>,
         NEW p \in owed[s]
  PROVE  view[s][p] = lastStates[p]
<1>1. WillHold(s, p, lastStates[p])
  BY DEF DrainedViewIsLast
<1>2. Pending(s, p) = {}
  BY EmptySeq DEF Pending
<1>3. QED
  BY <1>1, <1>2 DEF WillHold

(* Once everything has settled, dashboard and HomeKit show what the manager     *)
(* holds, with the exceptions InterfacesFollow names: the bus has the manager's *)
(* state (BusFollowsManager), the subscribers have what the bus has           *)
(* (DrainedViewIsLast), and HomeKit shows what its manager handled.          *)
THEOREM InterfacesShowManager == Spec => []InterfacesFollow
<1>1. BridgeTypeOK /\ BridgeInv => InterfacesFollow
  <2> SUFFICES ASSUME BridgeTypeOK, BridgeInv, Settled, NEW p \in Plugs \ unpublished
               PROVE  /\ p \in owed[Web] => Equals(states[p], view[Web][p])
                      /\ (p \in HomeKitPlugs \cap owed[Hap] /\ p \notin overwritten) =>
                            characteristic[p] = states[p].on
    BY DEF InterfacesFollow
  <2>0. BusTypeOK /\ states[p] \in State /\ lastStates[p] \in State /\ lastStates[p] # None
    BY NoneAssumption DEF BridgeTypeOK, ManagerTypeOK, BridgeInv, PublishedAreStates
  <2>1. Equals(states[p], lastStates[p])
    <3>1. ~Held(p)
      BY DEF Settled, Quiet, Held
    <3>2. lastStates[p] = states[p] \/ Equals(states[p], lastStates[p])
      BY <3>1 DEF BridgeInv, BusFollowsManager
    <3>3. QED
      BY <2>0, <3>2, EqualsItself
  <2>2. \A s \in Subscribers : p \in owed[s] => view[s][p] = lastStates[p]
    BY <2>0, DrainedHolds DEF BridgeInv, Settled
  <2>3. p \in owed[Web] => Equals(states[p], view[Web][p])
    BY <2>1, <2>2, BridgeAssumption
  <2>4. ASSUME p \in HomeKitPlugs \cap owed[Hap], p \notin overwritten
        PROVE  characteristic[p] = states[p].on
    <3>1. view[Hap][p] = lastStates[p]
      BY <2>2, <2>4, BridgeAssumption
    <3>2. characteristic[p] = lastStates[p].on
      BY <2>0, <2>4, <3>1 DEF BridgeInv, HomeKitShowsView
    <3>3. QED
      BY <2>1, <3>2 DEF Equals
  <2>5. QED
    BY <2>3, <2>4
<1>2. BridgeTypeOK /\ BridgeInv /\ [Next]_vars => BridgeInv'
  BY BridgeStep
<1>3. QED
  BY <1>1, <1>2, BridgeInit, BridgeTyping, PTL DEF Spec

------------------------------------------------------------------------------
(* Between the bus and what is shown, an update is queued and handled; when it *)
(* says on, the plug was on by the time it was published.                   *)
QueuesWereReal ==
  \A s \in Subscribers : \A i \in DOMAIN queue[s] :
     queue[s][i].state.on => queue[s][i].plug \in wasOn

ViewsWereReal ==
  \A s \in Subscribers, p \in Plugs : view[s][p] # None /\ view[s][p].on => p \in wasOn

HomeKitWasReal == \A p \in HomeKitPlugs \ overwritten : characteristic[p] => p \in wasOn

ShownInv == RealInv /\ QueuesWereReal /\ ViewsWereReal /\ HomeKitWasReal

LEMMA ShownInit == Init => ShownInv
<1> SUFFICES ASSUME Init PROVE ShownInv
  OBVIOUS
<1>1. RealInv
  BY RealInit DEF Init
<1>2. QueuesWereReal /\ ViewsWereReal
  BY EmptySeq DEF Init, ManagerInit, QueuesWereReal, ViewsWereReal
<1>3. HomeKitWasReal
  BY <1>1, BridgeAssumption DEF Init, HomeKitWasReal, RealInv, PlugsWereReal
<1>4. QED
  BY <1>1, <1>2, <1>3 DEF ShownInv

(* A step of the manager: what it publishes becomes the last state, which is    *)
(* real by RealInv.                                                         *)
LEMMA ManagerShowsReal ==
  ASSUME ManagerTypeOK, ShownInv, ManagerStep \/ UNCHANGED <<busVars, mgrVars>>
  PROVE  RealInv' /\ QueuesWereReal' /\ ViewsWereReal'
<1>0. /\ RealInv' /\ BusTypeOK
      /\ wasOn \subseteq wasOn'
  BY RealStep, WasOnGrows DEF ShownInv, ManagerTypeOK
<1>1. ASSUME NEW s \in Subscribers, NEW i \in DOMAIN queue[s]
      PROVE  queue[s][i].state.on => queue[s][i].plug \in wasOn'
  <2>1. queue[s][i] \in Update
    BY <1>0, ElementOfSeq, LenProperties DEF BusTypeOK
  <2>2. QED
    BY <1>0, <2>1 DEF ShownInv, QueuesWereReal, Update
<1>2. CASE UNCHANGED busVars
  <2>1. queue' = queue /\ view' = view
    BY <1>2 DEF busVars
  <2>2. QueuesWereReal'
    BY <2>1, <1>1 DEF QueuesWereReal
  <2>3. ViewsWereReal'
    BY <1>0, <2>1 DEF ShownInv, ViewsWereReal
  <2>4. QED
    BY <1>0, <2>2, <2>3
<1>3. ASSUME NEW p \in Plugs, NEW st \in State, NEW newTimes \in BOOLEAN,
             PublishStateUpdate(p, st, newTimes)
      PROVE  QueuesWereReal' /\ ViewsWereReal'
  <2>1. view' = view /\ (Duplicate(p, st, newTimes) => queue' = queue)
    BY <1>3 DEF PublishStateUpdate
  <2>2. ViewsWereReal'
    BY <1>0, <2>1 DEF ShownInv, ViewsWereReal
  <2>3. ASSUME NEW s \in Subscribers, NEW i \in DOMAIN queue'[s]
        PROVE  queue'[s][i].state.on => queue'[s][i].plug \in wasOn'
    <3>1. CASE queue'[s] = queue[s]
      BY <1>1, <3>1
    <3>2. CASE ~Duplicate(p, st, newTimes) /\ s \in subscribed
      <4>1. /\ queue'[s] = Append(queue[s], [plug |-> p, state |-> st])
            /\ lastStates' = [lastStates EXCEPT ![p] = st]
        BY <1>3, <3>2 DEF PublishStateUpdate
      <4>2. st.on => p \in wasOn'
        BY <1>0, <4>1 DEF RealInv, PublishedOnWasReal, BusTypeOK
      <4>3. /\ DOMAIN queue'[s] = DOMAIN queue[s] \cup {Len(queue[s]) + 1}
            /\ \A j \in DOMAIN queue[s] : queue'[s][j] = queue[s][j]
            /\ queue'[s][Len(queue[s]) + 1] = [plug |-> p, state |-> st]
        BY <1>0, <4>1, PendingAppend DEF BusTypeOK
      <4>4. CASE i \in DOMAIN queue[s]
        BY <1>1, <4>3, <4>4
      <4>5. CASE i = Len(queue[s]) + 1
        BY <4>2, <4>3, <4>5
      <4>6. QED
        BY <2>3, <4>3, <4>4, <4>5
    <3>3. QED
      BY <1>3, <2>1, <3>1, <3>2 DEF PublishStateUpdate
  <2>4. QED
    BY <2>2, <2>3 DEF QueuesWereReal
<1>4. QED
  BY <1>0, <1>2, <1>3, ManagerUsesBus

(* A subscriber handles the next update: what was queued is what it has.      *)
LEMMA DeliveryShowsReal ==
  ASSUME BusTypeOK, ShownInv, NEW s \in Subscribers, Deliver(s), UNCHANGED mgrVars
  PROVE  RealInv' /\ QueuesWereReal' /\ ViewsWereReal'
<1> DEFINE Q == queue[s]
           update == Head(queue[s])
<1>1. Q \in Seq(Update) /\ Q # <<>> /\ wasOn' = wasOn
  BY DEF BusTypeOK, Deliver, mgrVars
<1>2. /\ update = Q[1] /\ update \in Update /\ 1 \in DOMAIN Q
      /\ DOMAIN Tail(Q) = 1 .. (Len(Q) - 1) /\ DOMAIN Q = 1 .. Len(Q) /\ Len(Q) \in Nat
      /\ \A i \in 1 .. (Len(Q) - 1) : Tail(Q)[i] = Q[i + 1]
  BY <1>1, PendingTail
<1>3. /\ \A t \in Subscribers : queue'[t] = IF t = s THEN Tail(Q) ELSE queue[t]
      /\ \A t \in Subscribers, p \in Plugs :
            view'[t][p] = IF t = s /\ p = update.plug THEN update.state ELSE view[t][p]
  BY <1>2 DEF Deliver, BusTypeOK, Update
<1>4. update.state.on => update.plug \in wasOn
  BY <1>2 DEF ShownInv, QueuesWereReal
<1>5. QueuesWereReal'
  <2>1. ASSUME NEW i \in 1 .. (Len(Q) - 1)
        PROVE  Tail(Q)[i].state.on => Tail(Q)[i].plug \in wasOn
    <3>1. Tail(Q)[i] = Q[i + 1] /\ i + 1 \in DOMAIN Q
      BY <1>2
    <3>2. QED
      BY <3>1 DEF ShownInv, QueuesWereReal
  <2>2. QED
    BY <1>1, <1>2, <1>3, <2>1 DEF ShownInv, QueuesWereReal
<1>6. ViewsWereReal'
  BY <1>1, <1>3, <1>4 DEF ShownInv, ViewsWereReal
<1>7. RealInv'
  <2>1. UNCHANGED <<lastStates, device, states, stateEvents, copy, call, wasOn>>
    BY DEF Deliver, mgrVars
  <2>2. QED
    BY <2>1 DEF ShownInv, RealInv, PlugsWereReal, EventsWereReal, RepliesWereReal,
                CopyWasReal, PublishedOnWasReal, StatusOn
<1>8. QED
  BY <1>5, <1>6, <1>7

(* What nothing changes stays real.                                         *)
LEMMA ElsewhereShowsReal ==
  ASSUME ShownInv, Elsewhere \/ \E s \in Subscribers : Subscribe(s) /\ UNCHANGED mgrVars
  PROVE  RealInv' /\ QueuesWereReal' /\ ViewsWereReal'
<1>1. UNCHANGED <<queue, view, lastStates, device, states, stateEvents, copy, call, wasOn>>
  BY DEF Elsewhere, busVars, mgrVars, Subscribe
<1>2. RealInv'
  BY <1>1 DEF ShownInv, RealInv, PlugsWereReal, EventsWereReal, RepliesWereReal,
              CopyWasReal, PublishedOnWasReal, StatusOn
<1>3. QED
  BY <1>1, <1>2 DEF ShownInv, QueuesWereReal, ViewsWereReal

(* HomeKit shows what it wrote, or the update handled last.                   *)
LEMMA HomeKitStaysReal ==
  ASSUME BridgeTypeOK, ShownInv, [Next]_vars
  PROVE  HomeKitWasReal'
<1>0. /\ BusTypeOK /\ ManagerTypeOK /\ characteristic \in [HomeKitPlugs -> BOOLEAN]
      /\ HomeKitPlugs \subseteq Plugs
  BY BridgeAssumption DEF BridgeTypeOK, ManagerTypeOK
<1>1. CASE (ManagerStep \/ UNCHANGED <<busVars, mgrVars>>)
           /\ UNCHANGED <<characteristic, overwritten>>
  <2>1. wasOn \subseteq wasOn'
    BY <1>0, <1>1, WasOnGrows
  <2>2. QED
    BY <1>0, <1>1, <2>1 DEF ShownInv, HomeKitWasReal
<1>2. ASSUME NEW w \in Writers, NEW p \in HomeKitPlugs, NEW on \in BOOLEAN,
             HomeKitWrite(w, p, on)
      PROVE  HomeKitWasReal'
  <2>1. /\ wasOn' = wasOn /\ overwritten' = overwritten \cup {p}
        /\ characteristic' = [characteristic EXCEPT ![p] = on]
    BY <1>2 DEF HomeKitWrite
  <2>2. QED
    BY <1>0, <2>1 DEF ShownInv, HomeKitWasReal
<1>3. CASE UNCHANGED <<wasOn, characteristic, overwritten>>
  BY <1>3 DEF ShownInv, HomeKitWasReal
<1>4. CASE HapReceive
  <2> DEFINE update == Head(queue[Hap])
  <2>1. /\ Hap \in Subscribers /\ queue[Hap] \in Seq(Update) /\ queue[Hap] # <<>>
        /\ wasOn' = wasOn
    BY <1>0, <1>4, BridgeAssumption DEF HapReceive, Deliver, BusTypeOK, mgrVars
  <2>2. update = queue[Hap][1] /\ 1 \in DOMAIN queue[Hap]
    BY <2>1, PendingTail
  <2>3. update.state.on => update.plug \in wasOn
    BY <2>1, <2>2 DEF ShownInv, QueuesWereReal
  <2>4. CASE update.plug \in HomeKitPlugs
    <3>1. /\ characteristic' = [characteristic EXCEPT ![update.plug] = update.state.on]
          /\ overwritten' = overwritten \ {update.plug}
      BY <1>4, <2>4 DEF HapReceive
    <3>2. QED
      BY <1>0, <2>1, <2>3, <3>1 DEF ShownInv, HomeKitWasReal
  <2>5. CASE update.plug \notin HomeKitPlugs
    BY <1>3, <1>4, <2>1, <2>5 DEF HapReceive
  <2>6. QED
    BY <2>4, <2>5
<1>5. CASE NewHAPManager \/ NewWebServer \/ WebReceive
  BY <1>3, <1>5 DEF NewHAPManager, NewWebServer, WebReceive, mgrVars, hapVars
<1>6. QED
  BY <1>1, <1>2, <1>4, <1>5, BridgeSteps

(* No plug is shown as on that never was, by the dashboard or (but for the      *)
(* value HomeKit wrote itself) by HomeKit: not by a command its plug never      *)
(* confirmed, a stale reply, a raced publication or a late delivery.  Of a     *)
(* plug shown as off nothing is said.                                        *)
THEOREM OnlyRealOnIsShown == Spec => []ShownOnWasReal
<1>1. BridgeTypeOK /\ ShownInv /\ [Next]_vars => ShownInv'
  <2> SUFFICES ASSUME BridgeTypeOK, ShownInv, [Next]_vars PROVE ShownInv'
    OBVIOUS
  <2>0. ManagerTypeOK /\ BusTypeOK
    BY DEF BridgeTypeOK, ManagerTypeOK
  <2>1. HomeKitWasReal'
    BY HomeKitStaysReal
  <2>2. CASE ManagerStep \/ UNCHANGED <<busVars, mgrVars>>
    BY <2>0, <2>1, <2>2, ManagerShowsReal DEF ShownInv
  <2>3. CASE (\E s \in Subscribers : Subscribe(s) \/ Deliver(s)) /\ UNCHANGED mgrVars
    BY <2>0, <2>1, <2>3, ElsewhereShowsReal, DeliveryShowsReal DEF ShownInv
  <2>4. CASE Elsewhere
    BY <2>1, <2>4, ElsewhereShowsReal DEF ShownInv
  <2>5. QED
    BY <2>2, <2>3, <2>4, BridgeSteps
<1>2. ShownInv => ShownOnWasReal
  BY BridgeAssumption DEF ShownInv, ViewsWereReal, HomeKitWasReal, ShownOnWasReal
<1>3. Init => ShownInv
  BY ShownInit
<1>4. QED
  BY <1>1, <1>2, <1>3, BridgeTyping, PTL DEF Spec
==============================================================================
