--------------------------- MODULE LifecycleProofs ----------------------------
(***************************************************************************)
(* Proofs about Lifecycle and Config, for all components, callbacks,         *)
(* environments and plug files, and with no bound on what waits.             *)
(***************************************************************************)
EXTENDS Lifecycle, SequenceTheorems, FiniteSetTheorems, TLAPS

(* The statuses by name.                                                   *)
LEMMA StatusNames ==
  /\ Statuses = {"disconnected", "connecting", "connected", "reconnecting", "failed"}
  /\ StatusOrder \in Seq(Statuses) \ {<<>>} /\ Len(StatusOrder) = 5
  /\ Endings \subseteq Statuses /\ None \notin Statuses
<1>1. DOMAIN StatusOrder = 1 .. 5 /\ Len(StatusOrder) = 5
  BY DEF StatusOrder
<1>2. 1 .. 5 = {1, 2, 3, 4, 5}
  OBVIOUS
<1>3. /\ StatusOrder[1] = "disconnected" /\ StatusOrder[2] = "connecting"
      /\ StatusOrder[3] = "connected" /\ StatusOrder[4] = "reconnecting"
      /\ StatusOrder[5] = "failed"
  BY DEF StatusOrder
<1>4. Statuses = {"disconnected", "connecting", "connected", "reconnecting", "failed"}
  BY <1>1, <1>2, <1>3 DEF Statuses
<1>5. StatusOrder \in Seq(Statuses) \ {<<>>}
  BY <1>4 DEF StatusOrder
<1>6. QED
  BY <1>1, <1>4, <1>5, LifecycleAssumption DEF LifecycleAssumption, Endings

(* A publication puts an event of the right type behind those that wait, for   *)
(* the loops subscribed, or meets the closed bus.                           *)
LEMMA PublicationTyping ==
  ASSUME LifecycleTypeOK, NEW c \in Components, NEW status \in Statuses,
         PublishConnectionStatus(c, status)
  PROVE  /\ queue' \in [StatusLoops -> Seq(StatusEvent)]
         /\ last' \in [Components -> Statuses \cup {None}]
         /\ told' \in SUBSET Components
         /\ process' \in {"running", "exited", "crashed"}
<1>1. [component |-> c, status |-> status] \in StatusEvent
  BY DEF StatusEvent
<1>2. CASE closed
  BY <1>2 DEF PublishConnectionStatus, PublishClosed, LifecycleTypeOK
<1>3. CASE ~closed
  <2>1. \A l \in StatusLoops : Append(queue[l], [component |-> c, status |-> status]) \in Seq(StatusEvent)
    BY <1>1, AppendProperties DEF LifecycleTypeOK
  <2>2. QED
    BY <1>3, <2>1 DEF PublishConnectionStatus, LifecycleTypeOK
<1>4. QED
  BY <1>2, <1>3

(* Main's part of the type invariant.                                      *)
LEMMA MainTyping ==
  ASSUME LifecycleTypeOK, Main
  PROVE  LifecycleTypeOK'
<1> USE DEF LifecycleTypeOK, Stages
<1>0. ASSUME Fail, stage' = stage \/ TRUE PROVE LifecycleTypeOK'
  BY <1>0 DEF Fail, statusVars, commandVars
<1>1. ASSUME NEW c \in AllComponents, Launch(c), stage' \in Stages,
             looping' \in SUBSET Loops, subscribed' \in SUBSET Loops
      PROVE  LifecycleTypeOK'
  <2>1. UNCHANGED <<cancelled, closed, up, gauge, observing, table, commandVars>>
    BY <1>1 DEF Launch
  <2>2. CASE c \in Components
    <3>1. server' = [server EXCEPT ![c] = "starting"] /\ PublishConnectionStatus(c, "connecting")
      BY <1>1, <2>2 DEF Launch
    <3>2. QED
      BY <1>1, <2>1, <2>2, <3>1, StatusNames, PublicationTyping DEF commandVars
  <2>3. CASE c \notin Components
    BY <1>1, <2>1, <2>3 DEF Launch, commandVars
  <2>4. QED
    BY <2>2, <2>3
<1>2. CASE LoadConfiguration
  BY <1>0, <1>2 DEF LoadConfiguration, Proceed, statusVars, commandVars
<1>3. CASE NewCollector
  <2>1. CASE Proceed("collector", "mqtt") /\ Subscribe({"statuses", "commands"})
             /\ UNCHANGED <<process, cancelled, closed, server, up, queue, last, told, gauge,
                            observing, table, commandVars>>
    BY <2>1 DEF Proceed, Subscribe, Loops, commandVars
  <2>2. QED
    BY <1>0, <1>3, <2>1 DEF NewCollector
<1>4. CASE StartMQTT
  BY <1>0, <1>1, <1>4 DEF StartMQTT, Proceed, AllComponents
<1>5. CASE StartHAP
  BY <1>0, <1>1, <1>5 DEF StartHAP, Proceed, AllComponents
<1>6. CASE StartWeb
  BY <1>0, <1>1, <1>6 DEF StartWeb, Proceed, Subscribe, Loops, AllComponents
<1>7. CASE StopMQTT
  <2>1. stage' \in Stages /\ up' \in SUBSET Components
        /\ UNCHANGED <<server, looping, subscribed, cancelled, closed, gauge, observing, table, commandVars>>
    BY <1>7 DEF StopMQTT, Proceed
  <2>2. CASE "mqtt" \in Components
    <3>1. /\ queue' \in [StatusLoops -> Seq(StatusEvent)]
          /\ last' \in [Components -> Statuses \cup {None}]
          /\ told' \in SUBSET Components
          /\ process' \in {"running", "exited", "crashed"}
      BY <1>7, <2>2, StatusNames, PublicationTyping DEF StopMQTT
    <3>2. QED
      BY <2>1, <3>1 DEF commandVars
  <2>3. CASE "mqtt" \notin Components
    BY <1>7, <2>1, <2>3 DEF StopMQTT, commandVars
  <2>4. QED
    BY <2>2, <2>3
<1>8. ASSUME NEW loops, Unsubscribe(loops)
      PROVE  /\ subscribed' \in SUBSET Loops /\ queue' \in [StatusLoops -> Seq(StatusEvent)]
             /\ counting' \in Nat
             /\ UNCHANGED <<server, up, last, told, gauge, observing, table, callback, sent, counted>>
  <2>1. <<>> \in Seq(StatusEvent)
    BY EmptySeq
  <2>2. queue' \in [StatusLoops -> Seq(StatusEvent)]
    BY <1>8, <2>1 DEF Unsubscribe
  <2>3. QED
    BY <1>8, <2>2 DEF Unsubscribe
<1>9. CASE CloseWeb
  BY <1>8, <1>9 DEF CloseWeb, Proceed
<1>10. CASE CloseCollector
  BY <1>8, <1>10 DEF CloseCollector, Proceed
<1>11. CASE AwaitWorkers
  BY <1>11 DEF AwaitWorkers, Proceed, statusVars, commandVars
<1>12. CASE CloseBus
  BY <1>12 DEF CloseBus, Proceed, statusVars, commandVars
<1>13. CASE Exit
  BY <1>13 DEF Exit, Proceed, statusVars, commandVars
<1>14. QED
  BY <1>2, <1>3, <1>4, <1>5, <1>6, <1>7, <1>9, <1>10, <1>11, <1>12, <1>13 DEF Main

(* observeStatus always has a label left until it is done.                  *)
LEMMA LabelsLeft ==
  ASSUME NEW labels \in Seq(Statuses) \ {<<>>}
  PROVE  /\ Head(labels) \in Statuses /\ Tail(labels) \in Seq(Statuses)
         /\ Len(labels) # 1 => Tail(labels) # <<>>
<1>1. /\ Head(labels) \in Statuses /\ Tail(labels) \in Seq(Statuses)
      /\ Len(Tail(labels)) = Len(labels) - 1 /\ Len(labels) \in Nat
  BY HeadTailProperties, LenProperties
<1>2. ASSUME Tail(labels) = <<>> PROVE Len(labels) = 1
  <2>1. Len(Tail(labels)) = 0
    BY <1>1, <1>2, EmptySeq
  <2> DEFINE n == Len(labels)
             m == Len(Tail(labels))
  <2>2. m = n - 1 /\ n \in Nat /\ m = 0
    BY <1>1, <2>1
  <2> HIDE DEF n, m
  <2>3. n = 1
    BY <2>2
  <2>4. QED
    BY <2>3 DEF n
<1>3. QED
  BY <1>1, <1>2

(* The loops' part.                                                        *)
LEMMA LoopTyping ==
  ASSUME LifecycleTypeOK, NEW l \in Loops, LoopStep(l)
  PROVE  LifecycleTypeOK'
<1> USE DEF LifecycleTypeOK, Observation, mainVars
<1>1. CASE LoopEnds(l)
  BY <1>1 DEF LoopEnds, Unsubscribe
<1>2. CASE ConsumeStatus
  <2>1. queue["statuses"] \in Seq(StatusEvent) /\ queue["statuses"] # <<>>
    BY <1>2 DEF ConsumeStatus, StatusLoops
  <2>2. Head(queue["statuses"]) \in StatusEvent /\ Tail(queue["statuses"]) \in Seq(StatusEvent)
    BY <2>1, HeadTailProperties
  <2>3. QED
    BY <1>2, <2>2, StatusNames DEF ConsumeStatus, commandVars
<1>3. CASE SetGauge
  <2>1. observing \in Observation
    BY <1>3 DEF SetGauge
  <2>2. /\ Head(observing.left) \in Statuses /\ Tail(observing.left) \in Seq(Statuses)
        /\ Len(observing.left) # 1 => Tail(observing.left) # <<>>
    BY <2>1, LabelsLeft
  <2>3. observing.event.component \in Components /\ observing.event.status \in Statuses
    BY <2>1 DEF StatusEvent
  <2>4. gauge' \in [Components -> SUBSET Statuses]
    BY <1>3, <2>2, <2>3 DEF SetGauge
  <2>5. observing' \in Observation \cup {None}
    <3>1. observing.event \in StatusEvent
      BY <2>1
    <3>2. QED
      BY <1>3, <2>2, <3>1 DEF SetGauge
  <2>6. QED
    BY <1>3, <2>4, <2>5 DEF SetGauge, commandVars
<1>4. CASE RecordStatus
  <2>1. queue["table"] \in Seq(StatusEvent) /\ queue["table"] # <<>>
    BY <1>4 DEF RecordStatus, StatusLoops
  <2>2. Head(queue["table"]) \in StatusEvent /\ Tail(queue["table"]) \in Seq(StatusEvent)
    BY <2>1, HeadTailProperties
  <2>3. QED
    BY <1>4, <2>2 DEF RecordStatus, StatusEvent, commandVars
<1>5. CASE ObserveCommand
  BY <1>5 DEF ObserveCommand, statusVars
<1>6. QED
  BY <1>1, <1>2, <1>3, <1>4, <1>5 DEF LoopStep

(* Every variable keeps its type: in particular no status but the five of the  *)
(* program is ever published, and observeStatus always has a label left while  *)
(* it is at an event (types.go:75-84, collector.go:120-134).                  *)
THEOREM LifecycleTyping == Spec => []LifecycleTypeOK
<1>1. Init => LifecycleTypeOK
  <2>1. <<>> \in Seq(StatusEvent)
    BY EmptySeq
  <2>2. QED
    <3> SUFFICES ASSUME Init PROVE LifecycleTypeOK
      OBVIOUS
    <3>1. queue \in [StatusLoops -> Seq(StatusEvent)]
      BY <2>1 DEF Init
    <3>2. {sent, counting, counted} \subseteq Nat
      BY DEF Init
    <3>3. observing \in Observation \cup {None}
      BY DEF Init
    <3>4. stage \in Stages /\ process \in {"running", "exited", "crashed"}
          /\ cancelled \in BOOLEAN /\ closed \in BOOLEAN
          /\ looping \in SUBSET Loops /\ subscribed \in SUBSET Loops
      BY DEF Init, Stages
    <3>5. /\ server \in [Components -> {"none", "starting", "calling", "serving", "ended"}]
          /\ up \in SUBSET Components /\ told \in SUBSET Components
          /\ last \in [Components -> Statuses \cup {None}]
          /\ gauge \in [Components -> SUBSET Statuses]
          /\ table \in [Components -> Statuses \cup {None}]
          /\ callback \in [Callbacks -> {"idle", "sending", "publishing"}]
      BY DEF Init
    <3>6. QED
      BY <3>1, <3>2, <3>3, <3>4, <3>5 DEF LifecycleTypeOK
<1>2. ASSUME LifecycleTypeOK, [Next]_vars PROVE LifecycleTypeOK'
  <2>1. CASE Main
    BY <1>2, <2>1, MainTyping
  <2>2. CASE Signal
    BY <1>2, <2>2 DEF Signal, LifecycleTypeOK, statusVars, commandVars
  <2>3. ASSUME NEW c \in Components, Connected(c) PROVE LifecycleTypeOK'
    BY <1>2, <2>3, StatusNames, PublicationTyping DEF Connected, LifecycleTypeOK, commandVars
  <2>4. ASSUME NEW c \in Components, NEW s \in Endings, Ends(c, s) PROVE LifecycleTypeOK'
    BY <1>2, <2>4, StatusNames, PublicationTyping DEF Ends, LifecycleTypeOK, commandVars
  <2>9. ASSUME NEW c \in Components, Listen(c) \/ StopListening(c) PROVE LifecycleTypeOK'
    BY <1>2, <2>9 DEF Listen, StopListening, LifecycleTypeOK, mainVars, commandVars
  <2>5. ASSUME NEW l \in Loops, LoopStep(l) PROVE LifecycleTypeOK'
    BY <1>2, <2>5, LoopTyping
  <2>6. ASSUME NEW k \in Callbacks, HomeKitCommand(k) \/ SendCommand(k) \/ PublishCommand(k)
        PROVE  LifecycleTypeOK'
    <3> USE DEF LifecycleTypeOK, mainVars, statusVars
    <3>1. CASE HomeKitCommand(k)
      BY <1>2, <3>1 DEF HomeKitCommand
    <3>2. CASE SendCommand(k)
      BY <1>2, <3>2 DEF SendCommand
    <3>3. CASE PublishCommand(k)
      BY <1>2, <3>3 DEF PublishCommand, PublishClosed
    <3>4. QED
      BY <2>6, <3>1, <3>2, <3>3
  <2>7. CASE UNCHANGED vars
    BY <1>2, <2>7 DEF vars, mainVars, statusVars, commandVars, LifecycleTypeOK
  <2>8. QED
    BY <1>2, <2>1, <2>2, <2>3, <2>4, <2>5, <2>6, <2>7, <2>9 DEF Next, Over
<1>3. QED
  BY <1>1, <1>2, PTL DEF Spec

------------------------------------------------------------------------------
(* How far the shutdown has come at each stage.  CrashComesLast follows from    *)
(* the second conjunct, but only with the others is it inductive: a crash      *)
(* needs a closed bus, and the bus is closed when all loops are gone.          *)
StageInv ==
  /\ closed <=> stage \in {"exit", "done"}
  /\ process = "crashed" => stage = "exit"
  /\ stage = "done" => process = "exited"
  /\ stage \in {"load", "collector"} => subscribed = {}
  /\ stage \in {"await", "close bus", "exit", "done"} => subscribed = {}
  /\ stage = "close collector" => "table" \notin subscribed
  /\ stage \in {"close bus", "exit", "done"} => looping \cap {"statuses", "commands"} = {}
  /\ observing # None => "statuses" \in looping

(* The start of a server meets an open bus.                                 *)
LEMMA LaunchKeepsStages ==
  ASSUME LifecycleTypeOK, StageInv, NEW c \in AllComponents, Launch(c),
         stage' \in {"hap", "web", "wait"}, ~closed, process = "running",
         looping \subseteq looping'
  PROVE  StageInv'
<1>1. process' = "running" /\ closed' = closed /\ observing' = observing
  BY DEF Launch, PublishConnectionStatus
<1>2. QED
  BY <1>1 DEF StageInv

LEMMA MainKeepsStages ==
  ASSUME LifecycleTypeOK, StageInv, Main
  PROVE  StageInv'
<1>0. ASSUME Fail PROVE StageInv'
  BY <1>0 DEF Fail, StageInv, statusVars
<1>1. CASE LoadConfiguration
  <2>1. CASE Proceed("load", "collector") /\ UNCHANGED <<process, closed, statusVars>>
    <3>1. stage = "load" /\ stage' = "collector"
          /\ UNCHANGED <<process, closed, looping, subscribed, observing>>
      BY <2>1 DEF Proceed, statusVars
    <3>2. QED
      BY <3>1 DEF StageInv
  <2>2. QED
    BY <1>0, <1>1, <2>1 DEF LoadConfiguration
<1>2. CASE NewCollector
  <2>1. CASE /\ stage = "collector" /\ stage' = "mqtt" /\ Subscribe({"statuses", "commands"})
             /\ UNCHANGED <<process, closed, observing>>
    BY <2>1 DEF Subscribe, StageInv
  <2>2. QED
    BY <1>0, <1>2, <2>1 DEF NewCollector, Proceed
<1>3. CASE StartMQTT
  BY <1>0, <1>3, LaunchKeepsStages DEF StartMQTT, Proceed, AllComponents, StageInv
<1>4. CASE StartHAP
  BY <1>0, <1>4, LaunchKeepsStages DEF StartHAP, Proceed, AllComponents, StageInv
<1>5. CASE StartWeb
  BY <1>0, <1>5, LaunchKeepsStages DEF StartWeb, Proceed, Subscribe, AllComponents, StageInv
<1>6. CASE StopMQTT
  <2>1. ~closed /\ process = "running" /\ stage' = "close web"
        /\ UNCHANGED <<looping, subscribed, closed, observing>>
    BY <1>6 DEF StopMQTT, Proceed, StageInv
  <2>2. process' = "running"
    BY <1>6, <2>1 DEF StopMQTT, PublishConnectionStatus
  <2>3. QED
    BY <2>1, <2>2 DEF StageInv
<1>7. CASE CloseWeb
  BY <1>7 DEF CloseWeb, Proceed, Unsubscribe, StageInv
<1>8. CASE CloseCollector
  <2>1. stage = "close collector" /\ stage' = "await" /\ process' = "running"
        /\ UNCHANGED <<closed, looping, observing>>
        /\ subscribed' = subscribed \ {"statuses", "commands"}
    BY <1>8 DEF CloseCollector, Proceed, Unsubscribe
  <2>2. subscribed' = {}
    BY <2>1 DEF StageInv, LifecycleTypeOK, Loops
  <2>3. QED
    BY <2>1, <2>2 DEF StageInv
<1>9. CASE AwaitWorkers
  BY <1>9 DEF AwaitWorkers, Proceed, StageInv, statusVars
<1>10. CASE CloseBus
  <2>1. stage = "close bus" /\ stage' = "exit" /\ closed' = TRUE /\ process = "running"
        /\ UNCHANGED <<process, looping, subscribed, observing>>
    BY <1>10 DEF CloseBus, Proceed, statusVars
  <2>2. QED
    BY <2>1 DEF StageInv
<1>11. CASE Exit
  BY <1>11 DEF Exit, Proceed, StageInv, statusVars
<1>12. QED
  BY <1>1, <1>2, <1>3, <1>4, <1>5, <1>6, <1>7, <1>8, <1>9, <1>10, <1>11 DEF Main

LEMMA LoopKeepsStages ==
  ASSUME LifecycleTypeOK, StageInv, NEW l \in Loops, LoopStep(l)
  PROVE  StageInv'
<1> USE DEF mainVars
<1>1. CASE LoopEnds(l)
  BY <1>1 DEF LoopEnds, Unsubscribe, StageInv
<1>2. CASE ConsumeStatus
  BY <1>2 DEF ConsumeStatus, Runs, StageInv
<1>3. CASE SetGauge
  BY <1>3 DEF SetGauge, Runs, StageInv
<1>4. CASE RecordStatus
  BY <1>4 DEF RecordStatus, StageInv
<1>5. CASE ObserveCommand
  BY <1>5 DEF ObserveCommand, statusVars, StageInv
<1>6. QED
  BY <1>1, <1>2, <1>3, <1>4, <1>5 DEF LoopStep

(* A server or a callback may crash the process, but only once the bus is      *)
(* closed.                                                                 *)
LEMMA PublisherKeepsStages ==
  ASSUME StageInv, process = "running", process' # process => closed /\ process' = "crashed",
         UNCHANGED <<stage, closed, looping, subscribed, observing>>
  PROVE  StageInv'
BY DEF StageInv

LEMMA StagesHold == Spec => [](LifecycleTypeOK /\ StageInv)
<1>1. Init => StageInv
  BY DEF Init, StageInv
<1>2. ASSUME LifecycleTypeOK, StageInv, [Next]_vars PROVE StageInv'
  <2>1. CASE Main
    BY <1>2, <2>1, MainKeepsStages
  <2>2. CASE Signal
    BY <1>2, <2>2 DEF Signal, statusVars, StageInv
  <2>3. ASSUME NEW c \in Components, Connected(c) PROVE StageInv'
    BY <1>2, <2>3, PublisherKeepsStages DEF Connected, PublishConnectionStatus, PublishClosed
  <2>4. ASSUME NEW c \in Components, NEW s \in Endings, Ends(c, s) PROVE StageInv'
    BY <1>2, <2>4, PublisherKeepsStages DEF Ends, PublishConnectionStatus, PublishClosed
  <2>9. ASSUME NEW c \in Components, Listen(c) \/ StopListening(c) PROVE StageInv'
    BY <1>2, <2>9, PublisherKeepsStages DEF Listen, StopListening, mainVars
  <2>5. ASSUME NEW l \in Loops, LoopStep(l) PROVE StageInv'
    BY <1>2, <2>5, LoopKeepsStages
  <2>6. ASSUME NEW k \in Callbacks, HomeKitCommand(k) \/ SendCommand(k) \/ PublishCommand(k)
        PROVE  StageInv'
    <3> USE DEF mainVars, statusVars
    <3>1. CASE HomeKitCommand(k) \/ SendCommand(k)
      BY <1>2, <3>1, PublisherKeepsStages DEF HomeKitCommand, SendCommand
    <3>2. CASE PublishCommand(k)
      BY <1>2, <3>2, PublisherKeepsStages DEF PublishCommand, PublishClosed
    <3>3. QED
      BY <2>6, <3>1, <3>2
  <2>7. CASE UNCHANGED vars
    BY <1>2, <2>7 DEF vars, mainVars, statusVars, StageInv
  <2>8. QED
    BY <1>2, <2>1, <2>2, <2>3, <2>4, <2>5, <2>6, <2>7, <2>9 DEF Next, Over
<1>3. QED
  BY <1>1, <1>2, LifecycleTyping, PTL DEF Spec

(* A late publication can end the process only when everything else is over     *)
(* (app.go:89-107, 355, 374-386).                                           *)
THEOREM CrashIsLast == Spec => []CrashComesLast
<1>1. LifecycleTypeOK /\ StageInv => CrashComesLast
  BY DEF StageInv, CrashComesLast
<1>2. QED
  BY <1>1, StagesHold, PTL

------------------------------------------------------------------------------
(* Queues of statuses: the positions of component c in Q, and the status last    *)
(* in Q for it.                                                             *)
At(Q, c) == {i \in DOMAIN Q : Q[i].component = c}

LastIn(Q, c, status) ==
  \E i \in At(Q, c) : Q[i].status = status /\ \A j \in At(Q, c) : j <= i

LEMMA PendingIsAt ==
  ASSUME NEW l, NEW c, NEW status
  PROVE  /\ Pending(l, c) = At(queue[l], c)
         /\ LastPending(l, c, status) <=> LastIn(queue[l], c, status)
BY DEF Pending, LastPending, At, LastIn

(* A new status is the last one of its component, and of no other.            *)
LEMMA AppendStatus ==
  ASSUME NEW Q \in Seq(StatusEvent), NEW c \in Components, NEW status \in Statuses
  PROVE  LET R == Append(Q, [component |-> c, status |-> status])
         IN /\ LastIn(R, c, status)
            /\ \A d \in Components \ {c} :
                  At(R, d) = At(Q, d) /\ \A s : LastIn(Q, d, s) => LastIn(R, d, s)
<1> DEFINE e == [component |-> c, status |-> status]
           R == Append(Q, e)
           n == Len(Q)
<1>1. e \in StatusEvent
  BY DEF StatusEvent
<1>2. /\ n \in Nat /\ DOMAIN Q = 1 .. n /\ DOMAIN R = 1 .. n + 1
      /\ R[n + 1] = e /\ \A i \in 1 .. n : R[i] = Q[i]
  BY <1>1, AppendProperties, LenProperties
<1>3. e.component = c /\ e.status = status
  OBVIOUS
<1> HIDE DEF e, R, n
<1>4. LastIn(R, c, status)
  <2>1. n + 1 \in At(R, c) /\ \A j \in At(R, c) : j <= n + 1
    BY <1>2, <1>3 DEF At
  <2>2. QED
    BY <1>2, <1>3, <2>1 DEF LastIn
<1>5. ASSUME NEW d \in Components \ {c}
      PROVE  At(R, d) = At(Q, d) /\ \A s : LastIn(Q, d, s) => LastIn(R, d, s)
  <2>1. At(R, d) = At(Q, d)
    BY <1>2, <1>3 DEF At
  <2>2. \A i \in At(Q, d) : R[i] = Q[i]
    BY <1>2 DEF At
  <2>3. QED
    BY <2>1, <2>2 DEF LastIn
<1>6. QED
  BY <1>4, <1>5 DEF R, e

(* Taking the head leaves what is last of other components; of its own it was    *)
(* the last or something newer still is.                                    *)
LEMMA TakeStatus ==
  ASSUME NEW Q \in Seq(StatusEvent), Q # <<>>, NEW d
  PROVE  LET e == Head(Q)
         IN /\ e \in StatusEvent /\ At(Q, e.component) # {}
            /\ At(Q, d) = {} => At(Tail(Q), d) = {}
            /\ \A s : LastIn(Q, d, s) =>
                  \/ LastIn(Tail(Q), d, s)
                  \/ d = e.component /\ e.status = s /\ At(Tail(Q), d) = {}
<1> DEFINE n == Len(Q)
           T == Tail(Q)
<1>1. /\ n \in Nat \ {0} /\ DOMAIN Q = 1 .. n /\ DOMAIN T = 1 .. n - 1
      /\ Head(Q) = Q[1] /\ \A i \in 1 .. n - 1 : T[i] = Q[i + 1]
  <2>1. n \in Nat \ {0} /\ DOMAIN Q = 1 .. n
    BY EmptySeq, LenProperties
  <2>2. Head(Q) = Q[1] /\ T \in Seq(StatusEvent) /\ Len(T) = n - 1
        /\ \A i \in 1 .. Len(T) : T[i] = Q[i + 1]
    BY HeadTailProperties
  <2>3. DOMAIN T = 1 .. n - 1
    BY <2>2, LenProperties
  <2>4. QED
    BY <2>1, <2>2, <2>3
<1>2. Q[1] \in StatusEvent
  BY <1>1, ElementOfSeq
<1> HIDE DEF n, T
<1>3. 1 \in At(Q, Q[1].component)
  BY <1>1 DEF At
<1>4. \A i : i \in At(T, d) <=> i \in 1 .. n - 1 /\ i + 1 \in At(Q, d)
  BY <1>1 DEF At
<1>5. At(Q, d) = {} => At(T, d) = {}
  BY <1>4
<1>6. ASSUME NEW s, LastIn(Q, d, s)
      PROVE  \/ LastIn(T, d, s)
             \/ d = Q[1].component /\ Q[1].status = s /\ At(T, d) = {}
  <2>1. PICK i \in At(Q, d) : Q[i].status = s /\ \A j \in At(Q, d) : j <= i
    BY <1>6 DEF LastIn
  <2>2. i \in 1 .. n
    BY <1>1, <2>1 DEF At
  <2>3. CASE i = 1
    <3>1. At(T, d) = {}
      BY <1>1, <1>4, <2>1, <2>3
    <3>2. QED
      BY <2>1, <2>3, <3>1 DEF At
  <2>4. CASE i # 1
    <3>1. i - 1 \in At(T, d) /\ T[i - 1] = Q[i]
      BY <1>1, <1>4, <2>1, <2>2, <2>4
    <3>2. \A j \in At(T, d) : j <= i - 1
      BY <1>1, <1>4, <2>1, <2>2
    <3>3. QED
      BY <2>1, <3>1, <3>2 DEF LastIn
  <2>5. QED
    BY <2>3, <2>4
<1>7. QED
  BY <1>1, <1>2, <1>3, <1>5, <1>6 DEF T

(* A publication seen from a loop that is subscribed.                        *)
LEMMA PublicationReaches ==
  ASSUME LifecycleTypeOK, NEW l \in StatusLoops, l \in subscribed', ~closed,
         NEW c \in Components, NEW status \in Statuses, PublishConnectionStatus(c, status)
  PROVE  /\ last' = [last EXCEPT ![c] = status]
         /\ LastIn(queue'[l], c, last'[c])
         /\ \A d \in Components \ {c} :
               /\ At(queue'[l], d) = At(queue[l], d)
               /\ LastIn(queue[l], d, last[d]) => LastIn(queue'[l], d, last'[d])
<1>1. /\ last' = [last EXCEPT ![c] = status]
      /\ queue'[l] = Append(queue[l], [component |-> c, status |-> status])
  BY DEF PublishConnectionStatus
<1>2. queue[l] \in Seq(StatusEvent)
  BY DEF LifecycleTypeOK
<1>3. last'[c] = status /\ \A d \in Components \ {c} : last'[d] = last[d]
  BY <1>1 DEF LifecycleTypeOK
<1> DEFINE R == Append(queue[l], [component |-> c, status |-> status])
<1>4. /\ LastIn(R, c, status)
      /\ \A d \in Components \ {c} :
            At(R, d) = At(queue[l], d) /\ \A s : LastIn(queue[l], d, s) => LastIn(R, d, s)
  BY <1>2, AppendStatus
<1> HIDE DEF R
<1>5. queue'[l] = R
  BY <1>1 DEF R
<1>6. QED
  BY <1>1, <1>3, <1>4, <1>5

------------------------------------------------------------------------------
(* What MetricsFollow says of one component.                                 *)
GaugeFollows(c) ==
  \/ last[c] = None
  \/ LastIn(queue["statuses"], c, last[c])
  \/ /\ At(queue["statuses"], c) = {}
     /\ IF observing # None /\ observing.event.component = c
        THEN observing.event.status = last[c]
        ELSE gauge[c] = {last[c]}

(* observeStatus has set the labels before those left.                       *)
LabelsSet ==
  observing # None =>
    LET n == 5 - Len(observing.left)
        event == observing.event
    IN /\ n \in 0 .. 4
       /\ \A j \in 1 .. 5 - n : observing.left[j] = StatusOrder[n + j]
       /\ \A i \in 1 .. n :
             StatusOrder[i] \in gauge[event.component] <=> StatusOrder[i] = event.status

(* Nothing is published before the collector has subscribed.                  *)
QuietAtFirst ==
  stage \in {"load", "collector"} =>
    \A c \in Components : last[c] = None /\ server[c] = "none"

MetricsInv == MetricsFollow /\ LabelsSet /\ QuietAtFirst

LEMMA MetricsByComponent ==
  MetricsFollow <=> ("statuses" \in subscribed => \A c \in Components : GaugeFollows(c))
BY PendingIsAt DEF MetricsFollow, GaugeFollows

(* One label more.                                                         *)
LEMMA SetGaugeKeepsMetrics ==
  ASSUME LifecycleTypeOK, StageInv, MetricsInv, SetGauge
  PROVE  MetricsInv'
<1> DEFINE event == observing.event
           left == observing.left
           n == 5 - Len(left)
           c == event.component
           label == Head(left)
<1>1. /\ observing # None /\ left \in Seq(Statuses) /\ left # <<>>
      /\ c \in Components /\ event.status \in Statuses
      /\ UNCHANGED <<stage, server, looping, subscribed, queue, last>>
  BY DEF SetGauge, LifecycleTypeOK, Observation, StatusEvent, mainVars
<1>2. /\ n \in 0 .. 4 /\ Len(left) = 5 - n
      /\ \A j \in 1 .. 5 - n : left[j] = StatusOrder[n + j]
      /\ \A i \in 1 .. n : StatusOrder[i] \in gauge[c] <=> StatusOrder[i] = event.status
  <2>1. Len(left) \in Nat
    BY <1>1, LenProperties
  <2>2. /\ n \in 0 .. 4
        /\ \A j \in 1 .. 5 - n : left[j] = StatusOrder[n + j]
        /\ \A i \in 1 .. n : StatusOrder[i] \in gauge[c] <=> StatusOrder[i] = event.status
    BY <1>1 DEF MetricsInv, LabelsSet
  <2>3. Len(left) = 5 - n
    BY <2>1
  <2>4. QED
    BY <2>2, <2>3
<1>3. label = StatusOrder[n + 1]
  <2>1. label = left[1]
    BY <1>1, HeadTailProperties
  <2> HIDE DEF n, left, label
  <2>2. 1 \in 1 .. 5 - n
    BY <1>2
  <2>3. left[1] = StatusOrder[n + 1]
    BY <1>2, <2>2
  <2>4. QED
    BY <2>1, <2>3
<1>4. /\ gauge'[c] = IF label = event.status THEN gauge[c] \cup {label} ELSE gauge[c] \ {label}
      /\ \A d \in Components \ {c} : gauge'[d] = gauge[d]
      /\ gauge[c] \subseteq Statuses
  BY <1>1 DEF SetGauge, LifecycleTypeOK
<1>5. observing' = IF Len(left) = 1 THEN None ELSE [event |-> event, left |-> Tail(left)]
  BY DEF SetGauge
<1>6. n # 4 => observing' # None
  <2>1. event \in StatusEvent
    BY <1>1 DEF LifecycleTypeOK, Observation
  <2>2. Len(left) # 1 => Tail(left) \in Seq(Statuses) \ {<<>>}
    BY <1>1, LabelsLeft
  <2>3. Len(left) # 1 => [event |-> event, left |-> Tail(left)] \in Observation
    BY <2>1, <2>2 DEF Observation
  <2>4. Len(left) # 1 => observing' # None
    BY <1>5, <2>3, LifecycleAssumption DEF LifecycleAssumption
  <2> HIDE DEF n
  <2>5. QED
    BY <1>2, <2>4
<1> HIDE DEF event, left, n, c, label
<1>7. \A i, j \in 1 .. 5 : StatusOrder[i] = StatusOrder[j] => i = j
  <2>1. 1 .. 5 = {1, 2, 3, 4, 5}
    OBVIOUS
  <2>2. QED
    BY <2>1 DEF StatusOrder
<1>8. \A i \in 1 .. n + 1 : StatusOrder[i] \in gauge'[c] <=> StatusOrder[i] = event.status
  <2>1. ASSUME NEW i \in 1 .. n + 1
        PROVE  StatusOrder[i] \in gauge'[c] <=> StatusOrder[i] = event.status
    <3>1. CASE i = n + 1
      BY <1>3, <1>4, <3>1
    <3>2. CASE i # n + 1
      <4>1. i \in 1 .. n /\ StatusOrder[i] # label
        BY <1>2, <1>3, <1>7, <2>1, <3>2
      <4>2. QED
        BY <1>2, <1>4, <4>1
    <3>3. QED
      BY <3>1, <3>2
  <2>2. QED
    BY <2>1
<1>9. n = 4 => gauge'[c] = {event.status}
  <2>1. SUFFICES ASSUME n = 4 PROVE gauge'[c] = {event.status}
    OBVIOUS
  <2>2. \A s \in Statuses : s \in gauge'[c] <=> s = event.status
    BY <1>8, <2>1 DEF Statuses, StatusOrder
  <2>3. gauge'[c] \subseteq Statuses
    BY <1>1, <1>3, <1>4 DEF Statuses
  <2>4. QED
    BY <1>1, <2>2, <2>3
<1>10. LabelsSet'
  <2>1. CASE n = 4
    BY <1>2, <1>5, <2>1 DEF LabelsSet
  <2>2. CASE n # 4
    <3>1. observing' = [event |-> event, left |-> Tail(left)]
      BY <1>2, <1>5, <2>2
    <3>2. Len(Tail(left)) = 5 - (n + 1) /\ \A j \in 1 .. 5 - (n + 1) : Tail(left)[j] = left[j + 1]
      <4>1. Len(Tail(left)) = Len(left) - 1 /\ \A j \in 1 .. Len(Tail(left)) : Tail(left)[j] = left[j + 1]
        BY <1>1, HeadTailProperties
      <4>2. QED
        BY <1>2, <4>1
    <3>3. \A j \in 1 .. 5 - (n + 1) : Tail(left)[j] = StatusOrder[(n + 1) + j]
      <4>1. ASSUME NEW j \in 1 .. 5 - (n + 1) PROVE Tail(left)[j] = StatusOrder[(n + 1) + j]
        <5>1. j + 1 \in 1 .. 5 - n /\ n + (j + 1) = (n + 1) + j
          BY <1>2
        <5>2. QED
          BY <1>2, <3>2, <5>1
      <4>2. QED
        BY <4>1
    <3>4. observing'.event = event /\ observing'.left = Tail(left)
      BY <3>1
    <3>5. 5 - Len(observing'.left) = n + 1 /\ n + 1 \in 0 .. 4
      <4>1. Len(observing'.left) = 5 - (n + 1)
        BY <3>2, <3>4
      <4> DEFINE m == Len(observing'.left)
      <4> HIDE DEF m
      <4>2. 5 - m = n + 1 /\ n + 1 \in 0 .. 4
        BY <1>2, <2>2, <4>1 DEF m
      <4>3. QED
        BY <4>2 DEF m
    <3>6. QED
      BY <1>8, <3>3, <3>4, <3>5 DEF LabelsSet, c
  <2>3. QED
    BY <2>1, <2>2
<1>11. ASSUME NEW d \in Components, GaugeFollows(d) PROVE GaugeFollows(d)'
  <2>1. CASE d = c
    <3>1. \/ last[d] = None
          \/ LastIn(queue["statuses"], d, last[d])
          \/ At(queue["statuses"], d) = {} /\ event.status = last[d]
      <4>1. observing # None /\ observing.event.component = d
        BY <1>1, <2>1 DEF c, event
      <4>2. QED
        BY <1>11, <4>1 DEF GaugeFollows, event
    <3>2. CASE n = 4
      BY <1>1, <1>2, <1>5, <1>9, <2>1, <3>1, <3>2 DEF GaugeFollows
    <3>3. CASE n # 4
      <4>1. observing' = [event |-> event, left |-> Tail(left)]
        BY <1>2, <1>5, <3>3
      <4>2. observing'.event.component = d /\ observing'.event.status = event.status
        BY <2>1, <4>1 DEF c
      <4>3. observing' # None
        BY <1>6, <3>3
      <4>4. queue' = queue /\ last' = last
        BY <1>1
      <4>5. QED
        BY <3>1, <4>2, <4>3, <4>4 DEF GaugeFollows
    <3>4. QED
      BY <3>2, <3>3
  <2>2. CASE d # c
    <3>1. gauge'[d] = gauge[d]
      BY <1>4, <2>2
    <3>2. observing' # None => observing'.event.component # d
      BY <1>5, <2>2 DEF c
    <3>3. observing.event.component # d
      BY <2>2 DEF c, event
    <3>4. QED
      BY <1>1, <1>11, <3>1, <3>2, <3>3 DEF GaugeFollows
  <2>3. QED
    BY <2>1, <2>2
<1>12. MetricsFollow'
  BY <1>1, <1>11, MetricsByComponent DEF MetricsInv, MetricsFollow, Pending, LastPending, GaugeFollows, At, LastIn
<1>13. QED
  BY <1>1, <1>10, <1>12 DEF MetricsInv, QuietAtFirst

LEMMA PublicationKeepsMetrics ==
  ASSUME LifecycleTypeOK, MetricsFollow, NEW c \in Components, NEW status \in Statuses,
         PublishConnectionStatus(c, status), UNCHANGED <<gauge, observing>>,
         "statuses" \in subscribed' => "statuses" \in subscribed
  PROVE  MetricsFollow'
<1>1. SUFFICES ASSUME "statuses" \in subscribed', NEW d \in Components
               PROVE  GaugeFollows(d)'
  BY DEF MetricsFollow, Pending, LastPending, GaugeFollows, At, LastIn
<1>2. GaugeFollows(d)
  BY <1>1, MetricsByComponent
<1>3. CASE closed
  <2>1. queue' = queue /\ last' = last
    BY <1>3 DEF PublishConnectionStatus
  <2>2. QED
    BY <1>2, <2>1 DEF GaugeFollows
<1>4. CASE ~closed
  <2>1. /\ last' = [last EXCEPT ![c] = status]
        /\ LastIn(queue'["statuses"], c, last'[c])
        /\ \A e \in Components \ {c} :
              /\ At(queue'["statuses"], e) = At(queue["statuses"], e)
              /\ LastIn(queue["statuses"], e, last[e]) => LastIn(queue'["statuses"], e, last'[e])
    BY <1>1, <1>4, PublicationReaches DEF StatusLoops
  <2>2. CASE d = c
    BY <2>1, <2>2 DEF GaugeFollows
  <2>3. CASE d # c
    <3>1. last'[d] = last[d] /\ gauge' = gauge /\ observing' = observing
      BY <2>1, <2>3 DEF LifecycleTypeOK
    <3>2. QED
      BY <1>2, <2>1, <2>3, <3>1 DEF GaugeFollows
  <2>4. QED
    BY <2>2, <2>3
<1>5. QED
  BY <1>3, <1>4

LEMMA ConsumeKeepsMetrics ==
  ASSUME LifecycleTypeOK, MetricsInv, ConsumeStatus
  PROVE  MetricsInv'
<1> DEFINE Q == queue["statuses"]
           e == Head(Q)
<1>1. /\ Q \in Seq(StatusEvent) /\ Q # <<>> /\ observing = None
      /\ queue'["statuses"] = Tail(Q)
      /\ observing' = [event |-> e, left |-> StatusOrder]
      /\ UNCHANGED <<stage, server, subscribed, last, gauge>>
  BY DEF ConsumeStatus, LifecycleTypeOK, StatusLoops, mainVars
<1>2. observing'.event = e /\ observing'.left = StatusOrder
  BY <1>1
<1>3. observing' # None
  <2>1. e \in StatusEvent
    BY <1>1, TakeStatus
  <2>2. [event |-> e, left |-> StatusOrder] \in Observation
    BY <2>1, StatusNames DEF Observation
  <2>3. QED
    BY <1>1, <2>2, LifecycleAssumption DEF LifecycleAssumption
<1>4. LabelsSet'
  <2> DEFINE n == 5 - Len(observing'.left)
  <2>1. n = 0
    BY <1>2, StatusNames
  <2> HIDE DEF n
  <2>2. \A j \in 1 .. 5 - n : n + j = j
    BY <2>1
  <2>3. \A j \in 1 .. 5 - n : observing'.left[j] = StatusOrder[n + j]
    BY <1>2, <2>2
  <2>4. 1 .. n = {} /\ n \in 0 .. 4
    BY <2>1
  <2>5. QED
    BY <2>3, <2>4 DEF LabelsSet, n
<1> HIDE DEF Q, e
<1>5. ASSUME NEW d \in Components, GaugeFollows(d) PROVE GaugeFollows(d)'
  <2>1. /\ At(Q, e.component) # {}
        /\ At(Q, d) = {} => At(Tail(Q), d) = {}
        /\ \A s : LastIn(Q, d, s) =>
              \/ LastIn(Tail(Q), d, s)
              \/ d = e.component /\ e.status = s /\ At(Tail(Q), d) = {}
    BY <1>1, TakeStatus DEF e
  <2>2. \/ last[d] = None
        \/ LastIn(Q, d, last[d])
        \/ At(Q, d) = {} /\ gauge[d] = {last[d]}
    BY <1>1, <1>5 DEF GaugeFollows, Q
  <2>3. CASE d = e.component
    <3>1. \/ last[d] = None
          \/ LastIn(Tail(Q), d, last[d])
          \/ e.status = last[d] /\ At(Tail(Q), d) = {}
      BY <2>1, <2>2, <2>3
    <3>2. QED
      BY <1>1, <1>2, <1>3, <2>3, <3>1 DEF GaugeFollows
  <2>4. CASE d # e.component
    <3>1. \/ last[d] = None
          \/ LastIn(Tail(Q), d, last[d])
          \/ At(Tail(Q), d) = {} /\ gauge[d] = {last[d]}
      BY <2>1, <2>2, <2>4
    <3>2. QED
      BY <1>1, <1>2, <1>3, <2>4, <3>1 DEF GaugeFollows
  <2>5. QED
    BY <2>3, <2>4
<1>6. MetricsFollow'
  BY <1>1, <1>5, MetricsByComponent
     DEF MetricsInv, MetricsFollow, Pending, LastPending, GaugeFollows, At, LastIn
<1>7. QED
  BY <1>1, <1>4, <1>6 DEF MetricsInv, QuietAtFirst

(* Steps that leave alone all the metrics are made from, or end the            *)
(* subscription.                                                           *)
LEMMA OthersKeepMetrics ==
  ASSUME MetricsInv, UNCHANGED <<gauge, observing, last>>,
         "statuses" \in subscribed' =>
            "statuses" \in subscribed /\ queue'["statuses"] = queue["statuses"],
         stage' \in {"load", "collector"} => stage \in {"load", "collector"} /\ server' = server
  PROVE  MetricsInv'
<1>1. MetricsFollow'
  BY DEF MetricsInv, MetricsFollow, Pending, LastPending
<1>2. LabelsSet'
  BY DEF MetricsInv, LabelsSet
<1>3. QuietAtFirst'
  BY DEF MetricsInv, QuietAtFirst
<1>4. QED
  BY <1>1, <1>2, <1>3 DEF MetricsInv

LEMMA MainKeepsMetrics ==
  ASSUME LifecycleTypeOK, StageInv, MetricsInv, Main
  PROVE  MetricsInv'
<1>0. ASSUME Fail PROVE MetricsInv'
  BY <1>0, OthersKeepMetrics DEF Fail, statusVars
<1>1. ASSUME NEW c \in Components, NEW status \in Statuses, PublishConnectionStatus(c, status),
             UNCHANGED <<gauge, observing>>, stage' \notin {"load", "collector"},
             "statuses" \in subscribed' => "statuses" \in subscribed
      PROVE  MetricsInv'
  BY <1>1, PublicationKeepsMetrics DEF MetricsInv, LabelsSet, QuietAtFirst
<1>2. ASSUME NEW c \in AllComponents, Launch(c), stage' \notin {"load", "collector"},
             "statuses" \in subscribed' => "statuses" \in subscribed
      PROVE  MetricsInv'
  <2>1. CASE c \in Components
    BY <1>1, <1>2, <2>1, StatusNames DEF Launch
  <2>2. CASE c \notin Components
    BY <1>2, <2>2, OthersKeepMetrics DEF Launch
  <2>3. QED
    BY <2>1, <2>2
<1>3. CASE LoadConfiguration
  <2>1. CASE Proceed("load", "collector") /\ UNCHANGED statusVars
    BY <2>1, OthersKeepMetrics DEF Proceed, statusVars
  <2>2. QED
    BY <1>0, <1>3, <2>1 DEF LoadConfiguration
<1>4. CASE NewCollector
  <2>1. CASE stage = "collector" /\ stage' = "mqtt" /\ UNCHANGED <<gauge, observing, last, server>>
    <3>1. \A c \in Components : last'[c] = None
      BY <2>1 DEF MetricsInv, QuietAtFirst
    <3>2. MetricsFollow'
      BY <3>1 DEF MetricsFollow
    <3>3. QED
      BY <2>1, <3>2 DEF MetricsInv, LabelsSet, QuietAtFirst
  <2>2. QED
    BY <1>0, <1>4, <2>1 DEF NewCollector, Proceed
<1>5. CASE StartMQTT
  BY <1>0, <1>2, <1>5 DEF StartMQTT, Proceed, AllComponents
<1>6. CASE StartHAP
  BY <1>0, <1>2, <1>6 DEF StartHAP, Proceed, AllComponents
<1>7. CASE StartWeb
  BY <1>0, <1>2, <1>7 DEF StartWeb, Proceed, Subscribe, AllComponents
<1>8. CASE StopMQTT
  <2>1. CASE "mqtt" \in Components
    BY <1>1, <1>8, <2>1, StatusNames DEF StopMQTT, Proceed
  <2>2. CASE "mqtt" \notin Components
    BY <1>8, <2>2, OthersKeepMetrics DEF StopMQTT, Proceed
  <2>3. QED
    BY <2>1, <2>2
<1>9. CASE CloseWeb
  BY <1>9, OthersKeepMetrics DEF CloseWeb, Proceed, Unsubscribe, StatusLoops
<1>10. CASE CloseCollector
  BY <1>10, OthersKeepMetrics DEF CloseCollector, Proceed, Unsubscribe, StatusLoops
<1>11. CASE AwaitWorkers
  BY <1>11, OthersKeepMetrics DEF AwaitWorkers, Proceed, statusVars
<1>12. CASE CloseBus
  BY <1>12, OthersKeepMetrics DEF CloseBus, Proceed, statusVars
<1>13. CASE Exit
  BY <1>13, OthersKeepMetrics DEF Exit, Proceed, statusVars
<1>14. QED
  BY <1>3, <1>4, <1>5, <1>6, <1>7, <1>8, <1>9, <1>10, <1>11, <1>12, <1>13 DEF Main

(* Once what is under way has arrived, the metrics show of every component the   *)
(* status published last and no other, whatever the order in which servers,    *)
(* Main and collector run, with any number of statuses waiting (app.go:102,    *)
(* collector.go:96-134).                                                    *)
THEOREM MetricsFollowStatuses == Spec => []MetricsFollow
<1>1. Init => MetricsInv
  BY DEF Init, MetricsInv, MetricsFollow, LabelsSet, QuietAtFirst
<1>2. ASSUME LifecycleTypeOK, StageInv, MetricsInv, [Next]_vars PROVE MetricsInv'
  <2>1. CASE Main
    BY <1>2, <2>1, MainKeepsMetrics
  <2>2. CASE Signal
    BY <1>2, <2>2, OthersKeepMetrics DEF Signal, statusVars
  <2>3. ASSUME NEW c \in Components, NEW status \in Statuses, PublishConnectionStatus(c, status),
               UNCHANGED <<stage, gauge, observing, subscribed>>, server[c] # "none"
        PROVE  MetricsInv'
    BY <1>2, <2>3, PublicationKeepsMetrics DEF MetricsInv, LabelsSet, QuietAtFirst
  <2>4. ASSUME NEW c \in Components, Connected(c) PROVE MetricsInv'
    BY <2>3, <2>4, StatusNames DEF Connected
  <2>5. ASSUME NEW c \in Components, NEW s \in Endings, Ends(c, s) PROVE MetricsInv'
    BY <2>3, <2>5, StatusNames DEF Ends, Returns
  <2>10. ASSUME NEW c \in Components, Listen(c) \/ StopListening(c) PROVE MetricsInv'
    <3>1. CASE Listen(c)
      <4>1. stage \notin {"load", "collector"}
        BY <1>2, <3>1 DEF Listen, MetricsInv, QuietAtFirst
      <4>2. UNCHANGED <<stage, gauge, observing, last, subscribed, queue>>
        BY <3>1 DEF Listen, mainVars
      <4>3. QED
        BY <1>2, <4>1, <4>2, OthersKeepMetrics
    <3>2. CASE StopListening(c)
      BY <1>2, <3>2, OthersKeepMetrics DEF StopListening, mainVars
    <3>3. QED
      BY <2>10, <3>1, <3>2
  <2>6. ASSUME NEW l \in Loops, LoopStep(l) PROVE MetricsInv'
    <3>1. CASE LoopEnds(l)
      BY <1>2, <3>1, OthersKeepMetrics DEF LoopEnds, Unsubscribe, StatusLoops, mainVars
    <3>2. CASE ConsumeStatus
      BY <1>2, <3>2, ConsumeKeepsMetrics
    <3>3. CASE SetGauge
      BY <1>2, <3>3, SetGaugeKeepsMetrics
    <3>4. CASE RecordStatus
      <4>1. queue'["statuses"] = queue["statuses"]
        BY <1>2, <3>4 DEF RecordStatus, LifecycleTypeOK, StatusLoops
      <4>2. QED
        BY <1>2, <3>4, <4>1, OthersKeepMetrics DEF RecordStatus, mainVars
    <3>5. CASE ObserveCommand
      BY <1>2, <3>5, OthersKeepMetrics DEF ObserveCommand, mainVars, statusVars
    <3>6. QED
      BY <2>6, <3>1, <3>2, <3>3, <3>4, <3>5 DEF LoopStep
  <2>7. ASSUME NEW k \in Callbacks, HomeKitCommand(k) \/ SendCommand(k) \/ PublishCommand(k)
        PROVE  MetricsInv'
    BY <1>2, <2>7, OthersKeepMetrics
       DEF HomeKitCommand, SendCommand, PublishCommand, mainVars, statusVars
  <2>8. CASE UNCHANGED vars
    BY <1>2, <2>8, OthersKeepMetrics DEF vars, mainVars, statusVars
  <2>9. QED
    BY <1>2, <2>1, <2>2, <2>4, <2>5, <2>6, <2>7, <2>8, <2>10 DEF Next, Over
<1>3. MetricsInv => MetricsFollow
  BY DEF MetricsInv
<1>4. QED
  BY <1>1, <1>2, <1>3, StagesHold, PTL DEF Spec

------------------------------------------------------------------------------
(* What TableFollows says of one component.                                  *)
RowFollows(c) ==
  \/ LastIn(queue["table"], c, last[c])
  \/ At(queue["table"], c) = {} /\ table[c] = last[c]

(* Before the web server is made there is nobody to fill its table.            *)
EmptyAtFirst ==
  stage \in {"load", "collector", "mqtt", "hap", "web"} =>
    "table" \notin subscribed /\ "table" \notin looping /\ told = {}

TableInv == TableFollows /\ EmptyAtFirst

LEMMA TableByComponent ==
  /\ TableFollows <=> ("table" \in subscribed =>
        {"web"} \cap Components \subseteq told /\ \A c \in told : RowFollows(c))
  /\ TableFollows' <=> ("table" \in subscribed' =>
        {"web"} \cap Components \subseteq told' /\ \A c \in told' : RowFollows(c)')
BY DEF TableFollows, RowFollows, Pending, LastPending, At, LastIn

LEMMA OthersKeepTable ==
  ASSUME TableInv, UNCHANGED <<table, last, told>>,
         "table" \in subscribed' => "table" \in subscribed,
         "table" \in looping' => "table" \in looping,
         "table" \in subscribed' => queue'["table"] = queue["table"],
         stage' \in {"load", "collector", "mqtt", "hap", "web"} =>
            stage \in {"load", "collector", "mqtt", "hap", "web"}
  PROVE  TableInv'
<1>1. TableFollows'
  BY DEF TableInv, TableFollows, Pending, LastPending
<1>2. EmptyAtFirst'
  BY DEF TableInv, EmptyAtFirst
<1>3. QED
  BY <1>1, <1>2 DEF TableInv

LEMMA PublicationKeepsTable ==
  ASSUME LifecycleTypeOK, TableInv, NEW c \in Components, NEW status \in Statuses,
         PublishConnectionStatus(c, status), UNCHANGED <<table, looping, subscribed>>,
         stage' \in {"load", "collector", "mqtt", "hap", "web"} =>
            stage \in {"load", "collector", "mqtt", "hap", "web"}
  PROVE  TableInv'
<1>1. CASE closed
  BY <1>1, OthersKeepTable DEF PublishConnectionStatus
<1>2. CASE ~closed /\ "table" \in subscribed
  <2>1. /\ last' = [last EXCEPT ![c] = status]
        /\ LastIn(queue'["table"], c, last'[c])
        /\ \A e \in Components \ {c} :
              /\ At(queue'["table"], e) = At(queue["table"], e)
              /\ LastIn(queue["table"], e, last[e]) => LastIn(queue'["table"], e, last'[e])
    BY <1>2, PublicationReaches DEF StatusLoops
  <2>2. told' = told \cup {c} /\ told \subseteq Components
    BY <1>2 DEF PublishConnectionStatus, LifecycleTypeOK
  <2>3. ASSUME NEW d \in told' PROVE RowFollows(d)'
    <3>1. CASE d = c
      BY <2>1, <3>1 DEF RowFollows
    <3>2. CASE d # c
      <4>1. RowFollows(d) /\ d \in Components
        BY <1>2, <2>2, <2>3, <3>2, TableByComponent DEF TableInv
      <4>2. last'[d] = last[d] /\ table'[d] = table[d]
        BY <2>1, <3>2, <4>1 DEF LifecycleTypeOK
      <4>3. QED
        BY <2>1, <3>2, <4>1, <4>2 DEF RowFollows
    <3>3. QED
      BY <3>1, <3>2
  <2>4. {"web"} \cap Components \subseteq told'
    BY <1>2, <2>2 DEF TableInv, TableFollows
  <2>5. TableFollows'
    BY <2>3, <2>4, TableByComponent
  <2>6. EmptyAtFirst'
    BY <1>2 DEF TableInv, EmptyAtFirst
  <2>7. QED
    BY <2>5, <2>6 DEF TableInv
<1>3. CASE ~closed /\ "table" \notin subscribed
  <2>1. told' = told
    BY <1>3 DEF PublishConnectionStatus
  <2>2. TableFollows'
    BY <1>3 DEF TableFollows
  <2>3. EmptyAtFirst'
    BY <2>1 DEF TableInv, EmptyAtFirst
  <2>4. QED
    BY <2>2, <2>3 DEF TableInv
<1>4. QED
  BY <1>1, <1>2, <1>3

(* The web server subscribes and announces itself.                           *)
LEMMA StartWebFillsTable ==
  ASSUME LifecycleTypeOK, StageInv, TableInv, Proceed("web", "wait"), Subscribe({"table"}),
         Launch("web")
  PROVE  TableInv'
<1>1. stage = "web" /\ stage' = "wait" /\ ~closed /\ "table" \in subscribed' /\ told = {}
  BY DEF Proceed, Subscribe, StageInv, TableInv, EmptyAtFirst
<1>2. TableFollows'
  <2>1. CASE "web" \in Components
    <3>1. told' = {"web"}
      BY <1>1, <2>1 DEF Launch, PublishConnectionStatus
    <3>2. LastIn(queue'["table"], "web", last'["web"])
      BY <1>1, <2>1, StatusNames, PublicationReaches DEF Launch, StatusLoops
    <3>3. RowFollows("web")'
      BY <3>2 DEF RowFollows
    <3>4. QED
      BY <3>1, <3>3, TableByComponent
  <2>2. CASE "web" \notin Components
    <3>1. told' = {}
      BY <1>1, <2>2 DEF Launch
    <3>2. QED
      BY <2>2, <3>1, TableByComponent
  <2>3. QED
    BY <2>1, <2>2
<1>3. QED
  BY <1>1, <1>2 DEF TableInv, EmptyAtFirst

LEMMA RecordKeepsTable ==
  ASSUME LifecycleTypeOK, TableInv, RecordStatus
  PROVE  TableInv'
<1> DEFINE Q == queue["table"]
           e == Head(Q)
<1>1. /\ Q \in Seq(StatusEvent) /\ Q # <<>> /\ "table" \in looping
      /\ queue'["table"] = Tail(Q)
      /\ table' = [table EXCEPT ![e.component] = e.status]
      /\ UNCHANGED <<stage, subscribed, looping, last, told>>
  BY DEF RecordStatus, Runs, LifecycleTypeOK, StatusLoops, mainVars
<1>2. stage \notin {"load", "collector", "mqtt", "hap", "web"}
  BY <1>1 DEF TableInv, EmptyAtFirst
<1> HIDE DEF Q, e
<1>3. ASSUME NEW d \in Components, RowFollows(d) PROVE RowFollows(d)'
  <2>1. /\ At(Q, e.component) # {}
        /\ At(Q, d) = {} => At(Tail(Q), d) = {}
        /\ \A s : LastIn(Q, d, s) =>
              \/ LastIn(Tail(Q), d, s)
              \/ d = e.component /\ e.status = s /\ At(Tail(Q), d) = {}
    BY <1>1, TakeStatus DEF e
  <2>2. CASE d = e.component
    <3>1. table'[d] = e.status
      BY <1>1, <2>2 DEF LifecycleTypeOK
    <3>2. LastIn(Q, d, last[d])
      BY <1>3, <2>1, <2>2 DEF RowFollows, Q
    <3>3. \/ LastIn(Tail(Q), d, last[d])
          \/ e.status = last[d] /\ At(Tail(Q), d) = {}
      BY <2>1, <3>2
    <3>4. QED
      BY <1>1, <3>1, <3>3 DEF RowFollows
  <2>3. CASE d # e.component
    <3>1. table'[d] = table[d]
      BY <1>1, <2>3 DEF LifecycleTypeOK
    <3>2. \/ LastIn(Tail(Q), d, last[d])
          \/ At(Tail(Q), d) = {} /\ table[d] = last[d]
      BY <1>3, <2>1, <2>3 DEF RowFollows, Q
    <3>3. QED
      BY <1>1, <3>1, <3>2 DEF RowFollows
  <2>4. QED
    BY <2>2, <2>3
<1>4. TableFollows'
  <2>1. told \subseteq Components
    BY DEF LifecycleTypeOK
  <2>2. QED
    BY <1>1, <1>3, <2>1, TableByComponent DEF TableInv
<1>5. QED
  BY <1>1, <1>2, <1>4 DEF TableInv, EmptyAtFirst

LEMMA MainKeepsTable ==
  ASSUME LifecycleTypeOK, StageInv, TableInv, Main
  PROVE  TableInv'
<1>0. ASSUME Fail PROVE TableInv'
  BY <1>0, OthersKeepTable DEF Fail, statusVars
<1>1. ASSUME NEW c \in AllComponents, Launch(c), UNCHANGED <<looping, subscribed>>,
             stage \in {"load", "collector", "mqtt", "hap", "web"}
      PROVE  TableInv'
  <2>1. CASE c \in Components
    BY <1>1, <2>1, StatusNames, PublicationKeepsTable DEF Launch
  <2>2. CASE c \notin Components
    BY <1>1, <2>2, OthersKeepTable DEF Launch
  <2>3. QED
    BY <2>1, <2>2
<1>2. CASE LoadConfiguration
  <2>1. CASE Proceed("load", "collector") /\ UNCHANGED statusVars
    BY <2>1, OthersKeepTable DEF Proceed, statusVars
  <2>2. QED
    BY <1>0, <1>2, <2>1 DEF LoadConfiguration
<1>3. CASE NewCollector
  BY <1>0, <1>3, OthersKeepTable DEF NewCollector, Proceed, Subscribe
<1>4. CASE StartMQTT
  BY <1>0, <1>1, <1>4 DEF StartMQTT, Proceed, AllComponents
<1>5. CASE StartHAP
  BY <1>0, <1>1, <1>5 DEF StartHAP, Proceed, AllComponents
<1>6. CASE StartWeb
  BY <1>0, <1>6, StartWebFillsTable DEF StartWeb
<1>7. CASE StopMQTT
  <2>1. CASE "mqtt" \in Components
    BY <1>7, <2>1, StatusNames, PublicationKeepsTable DEF StopMQTT, Proceed
  <2>2. CASE "mqtt" \notin Components
    BY <1>7, <2>2, OthersKeepTable DEF StopMQTT, Proceed
  <2>3. QED
    BY <2>1, <2>2
<1>8. CASE CloseWeb
  BY <1>8, OthersKeepTable DEF CloseWeb, Proceed, Unsubscribe, StatusLoops
<1>9. CASE CloseCollector
  BY <1>9, OthersKeepTable DEF CloseCollector, Proceed, Unsubscribe, StatusLoops
<1>10. CASE AwaitWorkers
  BY <1>10, OthersKeepTable DEF AwaitWorkers, Proceed, statusVars
<1>11. CASE CloseBus
  BY <1>11, OthersKeepTable DEF CloseBus, Proceed, statusVars
<1>12. CASE Exit
  BY <1>12, OthersKeepTable DEF Exit, Proceed, statusVars
<1>13. QED
  BY <1>2, <1>3, <1>4, <1>5, <1>6, <1>7, <1>8, <1>9, <1>10, <1>11, <1>12 DEF Main

(* The lifecycle table follows every component that is announced after the web   *)
(* server has subscribed, which the web server itself always is                *)
(* (web.go:101-109, 167-178).                                               *)
THEOREM TableFollowsStatuses == Spec => []TableFollows
<1>1. Init => TableInv
  BY DEF Init, TableInv, TableFollows, EmptyAtFirst, StatusLoops
<1>2. ASSUME LifecycleTypeOK, StageInv, TableInv, [Next]_vars PROVE TableInv'
  <2>1. CASE Main
    BY <1>2, <2>1, MainKeepsTable
  <2>2. CASE Signal
    BY <1>2, <2>2, OthersKeepTable DEF Signal, statusVars
  <2>3. ASSUME NEW c \in Components, Connected(c) PROVE TableInv'
    BY <1>2, <2>3, StatusNames, PublicationKeepsTable DEF Connected
  <2>4. ASSUME NEW c \in Components, NEW s \in Endings, Ends(c, s) PROVE TableInv'
    BY <1>2, <2>4, StatusNames, PublicationKeepsTable DEF Ends
  <2>9. ASSUME NEW c \in Components, Listen(c) \/ StopListening(c) PROVE TableInv'
    BY <1>2, <2>9, OthersKeepTable DEF Listen, StopListening, mainVars
  <2>5. ASSUME NEW l \in Loops, LoopStep(l) PROVE TableInv'
    <3>1. CASE LoopEnds(l)
      BY <1>2, <3>1, OthersKeepTable DEF LoopEnds, Unsubscribe, StatusLoops, mainVars
    <3>2. CASE ConsumeStatus
      <4>1. queue'["table"] = queue["table"]
        BY <1>2, <3>2 DEF ConsumeStatus, LifecycleTypeOK, StatusLoops
      <4>2. QED
        BY <1>2, <3>2, <4>1, OthersKeepTable DEF ConsumeStatus, mainVars
    <3>3. CASE SetGauge
      BY <1>2, <3>3, OthersKeepTable DEF SetGauge, mainVars
    <3>4. CASE RecordStatus
      BY <1>2, <3>4, RecordKeepsTable
    <3>5. CASE ObserveCommand
      BY <1>2, <3>5, OthersKeepTable DEF ObserveCommand, mainVars, statusVars
    <3>6. QED
      BY <2>5, <3>1, <3>2, <3>3, <3>4, <3>5 DEF LoopStep
  <2>6. ASSUME NEW k \in Callbacks, HomeKitCommand(k) \/ SendCommand(k) \/ PublishCommand(k)
        PROVE  TableInv'
    BY <1>2, <2>6, OthersKeepTable
       DEF HomeKitCommand, SendCommand, PublishCommand, mainVars, statusVars
  <2>7. CASE UNCHANGED vars
    BY <1>2, <2>7, OthersKeepTable DEF vars, mainVars, statusVars
  <2>8. QED
    BY <1>2, <2>1, <2>2, <2>3, <2>4, <2>5, <2>6, <2>7, <2>9 DEF Next, Over
<1>3. TableInv => TableFollows
  BY DEF TableInv
<1>4. QED
  BY <1>1, <1>2, <1>3, StagesHold, PTL DEF Spec

------------------------------------------------------------------------------
(* The callbacks between channel and bus.                                    *)
Publishing == {k \in Callbacks : callback[k] = "publishing"}

(* Before there is an accessory there is no command.                          *)
IdleAtFirst ==
  stage \in {"load", "collector"} =>
    /\ up = {} /\ \A c \in Components : server[c] = "none"
    /\ \A k \in Callbacks : callback[k] = "idle"
    /\ sent = 0 /\ counted = 0 /\ counting = 0

CommandInv == CommandsAreCounted /\ IdleAtFirst

LEMMA OthersKeepCommands ==
  ASSUME CommandInv, UNCHANGED <<callback, sent, counted>>,
         "commands" \in subscribed' => "commands" \in subscribed /\ counting' = counting,
         stage' \in {"load", "collector"} =>
            /\ stage \in {"load", "collector"} /\ counting' = counting
            /\ up' = up /\ \A c \in Components : server'[c] = server[c]
  PROVE  CommandInv'
<1>1. CommandsAreCounted'
  BY DEF CommandInv, CommandsAreCounted
<1>2. IdleAtFirst'
  BY DEF CommandInv, IdleAtFirst
<1>3. QED
  BY <1>1, <1>2 DEF CommandInv

(* A command that is sent waits for its publication, and once published for      *)
(* the counter.                                                            *)
LEMMA CallbackKeepsCommands ==
  ASSUME LifecycleTypeOK, StageInv, CommandInv, NEW k \in Callbacks,
         HomeKitCommand(k) \/ SendCommand(k) \/ PublishCommand(k)
  PROVE  CommandInv'
<1> USE DEF mainVars, statusVars
<1>1. UNCHANGED <<stage, subscribed, server, up>>
  BY DEF HomeKitCommand, SendCommand, PublishCommand
<1>2. stage \notin {"load", "collector"}
  <2>1. SUFFICES ASSUME stage \in {"load", "collector"} PROVE FALSE
    OBVIOUS
  <2>2. callback[k] = "idle" /\ up = {}
    BY <2>1 DEF CommandInv, IdleAtFirst
  <2>3. QED
    BY <2>1, <2>2 DEF HomeKitCommand, SendCommand, PublishCommand
<1>3. IdleAtFirst'
  BY <1>1, <1>2 DEF IdleAtFirst
<1>4. IsFiniteSet(Publishing)
  BY FS_Subset, LifecycleAssumption DEF LifecycleAssumption, Publishing
<1>5. SUFFICES ASSUME "commands" \in subscribed'
               PROVE  sent' = counted' + counting' + Cardinality(Publishing')
  BY <1>3 DEF CommandInv, CommandsAreCounted, Publishing
<1>6. /\ sent = counted + counting + Cardinality(Publishing) /\ Cardinality(Publishing) \in Nat
      /\ sent \in Nat /\ counted \in Nat /\ counting \in Nat
  BY <1>1, <1>4, <1>5, FS_CardinalityType DEF CommandInv, CommandsAreCounted, Publishing, LifecycleTypeOK
<1>7. CASE HomeKitCommand(k)
  <2>1. Publishing' = Publishing
    BY <1>7 DEF HomeKitCommand, Publishing, LifecycleTypeOK
  <2>2. QED
    BY <1>6, <1>7, <2>1 DEF HomeKitCommand
<1>8. CASE SendCommand(k)
  <2>1. Publishing' = Publishing \cup {k} /\ k \notin Publishing
    BY <1>8 DEF SendCommand, Publishing, LifecycleTypeOK
  <2>2. Cardinality(Publishing') = Cardinality(Publishing) + 1
    BY <1>4, <2>1, FS_AddElement
  <2>3. QED
    BY <1>6, <1>8, <2>2 DEF SendCommand
<1>9. CASE PublishCommand(k)
  <2>1. Publishing' = Publishing \ {k} /\ k \in Publishing
    BY <1>9 DEF PublishCommand, Publishing, LifecycleTypeOK
  <2>2. Cardinality(Publishing') = Cardinality(Publishing) - 1
    BY <1>4, <2>1, FS_RemoveElement
  <2>3. ~closed
    BY <1>1, <1>5 DEF StageInv
  <2>4. sent' = sent /\ counted' = counted /\ counting' = counting + 1
    BY <1>1, <1>5, <1>9, <2>3 DEF PublishCommand
  <2>5. QED
    BY <1>6, <2>2, <2>4
<1>10. QED
  BY <1>7, <1>8, <1>9

LEMMA MainKeepsCommands ==
  ASSUME LifecycleTypeOK, StageInv, CommandInv, Main
  PROVE  CommandInv'
<1> USE DEF commandVars
<1>0. ASSUME Fail PROVE CommandInv'
  BY <1>0, OthersKeepCommands DEF Fail, statusVars
<1>1. CASE LoadConfiguration
  <2>1. CASE Proceed("load", "collector") /\ UNCHANGED <<statusVars, commandVars>>
    BY <2>1, OthersKeepCommands DEF Proceed, statusVars
  <2>2. QED
    BY <1>0, <1>1, <2>1 DEF LoadConfiguration
<1>2. CASE NewCollector
  <2>1. CASE stage = "collector" /\ stage' = "mqtt" /\ UNCHANGED <<callback, sent, counting, counted>>
    <3>1. /\ {k \in Callbacks : callback'[k] = "publishing"} = {}
          /\ sent' = 0 /\ counted' = 0 /\ counting' = 0
      BY <2>1 DEF CommandInv, IdleAtFirst
    <3>2. CommandsAreCounted'
      BY <3>1, FS_EmptySet DEF CommandsAreCounted
    <3>3. QED
      BY <2>1, <3>2 DEF CommandInv, IdleAtFirst
  <2>2. QED
    BY <1>0, <1>2, <2>1 DEF NewCollector, Proceed
<1>3. CASE StartMQTT
  BY <1>0, <1>3, OthersKeepCommands DEF StartMQTT, Proceed, Launch
<1>4. CASE StartHAP
  BY <1>0, <1>4, OthersKeepCommands DEF StartHAP, Proceed, Launch
<1>5. CASE StartWeb
  BY <1>0, <1>5, OthersKeepCommands DEF StartWeb, Proceed, Launch, Subscribe
<1>6. CASE StopMQTT
  BY <1>6, OthersKeepCommands DEF StopMQTT, Proceed
<1>7. CASE CloseWeb
  BY <1>7, OthersKeepCommands DEF CloseWeb, Proceed, Unsubscribe
<1>8. CASE CloseCollector
  BY <1>8, OthersKeepCommands DEF CloseCollector, Proceed, Unsubscribe
<1>9. CASE AwaitWorkers
  BY <1>9, OthersKeepCommands DEF AwaitWorkers, Proceed, statusVars
<1>10. CASE CloseBus
  BY <1>10, OthersKeepCommands DEF CloseBus, Proceed, statusVars
<1>11. CASE Exit
  BY <1>11, OthersKeepCommands DEF Exit, Proceed, statusVars
<1>12. QED
  BY <1>1, <1>2, <1>3, <1>4, <1>5, <1>6, <1>7, <1>8, <1>9, <1>10, <1>11 DEF Main

(* While the collector is open no command is lost or counted twice between       *)
(* channel, bus and counter, for any number of callbacks (hap.go:170-176,      *)
(* collector.go:108-150).                                                   *)
THEOREM CommandsCounted == Spec => []CommandsAreCounted
<1>1. Init => CommandInv
  <2> SUFFICES ASSUME Init PROVE CommandInv
    OBVIOUS
  <2>1. {k \in Callbacks : callback[k] = "publishing"} = {}
    BY DEF Init
  <2>2. QED
    BY <2>1, FS_EmptySet DEF Init, CommandInv, CommandsAreCounted, IdleAtFirst
<1>2. ASSUME LifecycleTypeOK, StageInv, CommandInv, [Next]_vars PROVE CommandInv'
  <2> USE DEF commandVars
  <2>1. CASE Main
    BY <1>2, <2>1, MainKeepsCommands
  <2>2. CASE Signal
    BY <1>2, <2>2, OthersKeepCommands DEF Signal, statusVars
  <2>3. ASSUME NEW c \in Components, server[c] # "none",
               UNCHANGED <<stage, subscribed, commandVars>>
        PROVE  CommandInv'
    <3>1. stage \notin {"load", "collector"}
      BY <1>2, <2>3 DEF CommandInv, IdleAtFirst
    <3>2. QED
      BY <1>2, <2>3, <3>1, OthersKeepCommands
  <2>4. ASSUME NEW c \in Components, Connected(c) PROVE CommandInv'
    BY <2>3, <2>4 DEF Connected
  <2>5. ASSUME NEW c \in Components, NEW s \in Endings, Ends(c, s) PROVE CommandInv'
    BY <2>3, <2>5 DEF Ends, Returns
  <2>10. ASSUME NEW c \in Components, Listen(c) \/ StopListening(c) PROVE CommandInv'
    <3>1. server[c] # "none" \/ up # {}
      BY <2>10 DEF Listen, StopListening
    <3>2. stage \notin {"load", "collector"}
      BY <1>2, <3>1 DEF CommandInv, IdleAtFirst
    <3>3. UNCHANGED <<stage, subscribed, commandVars>>
      BY <2>10 DEF Listen, StopListening, mainVars
    <3>4. QED
      BY <1>2, <3>2, <3>3, OthersKeepCommands
  <2>6. ASSUME NEW l \in Loops, LoopStep(l) PROVE CommandInv'
    <3>1. CASE LoopEnds(l)
      <4>1. /\ subscribed' = subscribed \ {l} /\ UNCHANGED <<stage, server, up, callback, sent, counted>>
            /\ counting' = IF l = "commands" THEN 0 ELSE counting
        BY <3>1 DEF LoopEnds, Unsubscribe, mainVars
      <4>2. stage' \in {"load", "collector"} => counting = 0
        BY <1>2, <4>1 DEF CommandInv, IdleAtFirst
      <4>3. QED
        BY <1>2, <4>1, <4>2, OthersKeepCommands
    <3>2. CASE ConsumeStatus
      BY <1>2, <3>2, OthersKeepCommands DEF ConsumeStatus, mainVars
    <3>3. CASE SetGauge
      BY <1>2, <3>3, OthersKeepCommands DEF SetGauge, mainVars
    <3>4. CASE RecordStatus
      BY <1>2, <3>4, OthersKeepCommands DEF RecordStatus, mainVars
    <3>5. CASE ObserveCommand
      <4>1. /\ counting > 0 /\ counting' = counting - 1 /\ counted' = counted + 1
            /\ UNCHANGED <<stage, server, up, subscribed, callback, sent>>
        BY <3>5 DEF ObserveCommand, mainVars, statusVars
      <4>2. counting \in Nat /\ counted \in Nat
        BY <1>2 DEF LifecycleTypeOK
      <4>3. counted' + counting' = counted + counting
        BY <4>1, <4>2
      <4>4. CommandsAreCounted'
        BY <1>2, <4>1, <4>3 DEF CommandInv, CommandsAreCounted
      <4>5. stage \notin {"load", "collector"}
        BY <1>2, <4>1, <4>2 DEF CommandInv, IdleAtFirst
      <4>6. QED
        BY <4>1, <4>4, <4>5 DEF CommandInv, IdleAtFirst
    <3>6. QED
      BY <2>6, <3>1, <3>2, <3>3, <3>4, <3>5 DEF LoopStep
  <2>7. ASSUME NEW k \in Callbacks, HomeKitCommand(k) \/ SendCommand(k) \/ PublishCommand(k)
        PROVE  CommandInv'
    BY <1>2, <2>7, CallbackKeepsCommands
  <2>8. CASE UNCHANGED vars
    BY <1>2, <2>8, OthersKeepCommands DEF vars, mainVars, statusVars
  <2>9. QED
    BY <1>2, <2>1, <2>2, <2>4, <2>5, <2>6, <2>7, <2>8, <2>10 DEF Next, Over
<1>3. CommandInv => CommandsAreCounted
  BY DEF CommandInv
<1>4. QED
  BY <1>1, <1>2, <1>3, StagesHold, PTL DEF Spec

------------------------------------------------------------------------------
(* The configuration.                                                      *)
LEMMA NamesAreInSync == NamesInSync
<1> SUFFICES ASSUME NEW env \in Environments, Loads(env)
             PROVE  LET names == applyNameDefaults(env)
                    IN /\ names.bridge # Empty /\ (env.hostname # Empty => names.hostname # Empty)
                       /\ env.hostname = Unset \/ env.bridge = Unset => names.hostname = names.bridge
                       /\ env.hostname = Unset /\ env.bridge = Unset => names.bridge = DefaultName
                       /\ env.hostname \in {Unset, names.hostname} /\ env.bridge \in {Unset, names.bridge}
  BY DEF NamesInSync
<1>1. Empty # Unset /\ DefaultName # Empty
  BY ConfigAssumption DEF ConfigAssumption
<1>2. applyNameDefaults(env).bridge # Empty
  BY DEF Loads
<1>3. CASE env.hostname # Unset
  BY <1>1, <1>2, <1>3 DEF applyNameDefaults
<1>4. CASE env.hostname = Unset /\ env.bridge # Unset
  BY <1>1, <1>2, <1>4 DEF applyNameDefaults
<1>5. CASE env.hostname = Unset /\ env.bridge = Unset
  BY <1>1, <1>2, <1>5 DEF applyNameDefaults
<1>6. QED
  BY <1>3, <1>4, <1>5

LEMMA AllPortsExist == PortsExist
<1> SUFFICES ASSUME NEW env \in Environments, Loads(env), NEW l \in Listeners
             PROVE  /\ ListenPort(env, l) \in Ports
                    /\ ListenPort(env, l) = 0 => env.addr[l] = 0
                    /\ env.addr[l] = Empty /\ env.port[l] = Unset => ListenPort(env, l) = DefaultPort[l]
  BY DEF PortsExist
<1>1. ListenerParses(env, l) /\ env.addr[l] \in Ports \cup {Empty, Malformed}
  BY ConfigAssumption DEF ConfigAssumption, IsEnvironment, Loads
<1>2. CASE env.addr[l] = Empty
  <2> DEFINE port == PortOf(env, l)
  <2>1. ListenPort(env, l) = port
    BY <1>2 DEF ListenPort
  <2>2. env.port[l] = Unset => port = DefaultPort[l]
    BY DEF PortOf
  <2>3. port \in 1 .. MaxPort
    BY <1>1 DEF ListenerParses, validatePortRange
  <2> HIDE DEF port
  <2>4. port \in Ports /\ port # 0
    BY <2>3 DEF Ports
  <2>5. QED
    BY <2>1, <2>2, <2>4
<1>3. CASE env.addr[l] # Empty
  <2>1. ListenPort(env, l) = env.addr[l] /\ env.addr[l] \in Ports
    BY <1>1, <1>3 DEF ListenPort, ListenerParses
  <2>2. QED
    BY <1>3, <2>1
<1>4. QED
  BY <1>2, <1>3

LEMMA AllPlugsAreDistinct == PlugsAreDistinct
<1> SUFFICES ASSUME NEW file \in PlugFiles, PlugsLoad(file)
             PROVE  LET plugs == LoadConfig(file)
                    IN /\ plugs # <<>>
                       /\ \A i, j \in DOMAIN plugs : plugs[i].id = plugs[j].id => i = j
                       /\ \A i \in DOMAIN plugs : plugs[i].homekit \in BOOLEAN /\ plugs[i].web \in BOOLEAN
  BY DEF PlugsAreDistinct
<1> DEFINE n == Len(file)
<1>1. /\ file \in Seq(PlugEntry) /\ n \in Nat \ {0} /\ DOMAIN file = 1 .. n
      /\ \A i \in 1 .. n : file[i] \in PlugEntry
  <2>1. file \in Seq(PlugEntry) /\ file # <<>>
    BY ConfigAssumption DEF ConfigAssumption, PlugsLoad
  <2>2. QED
    BY <2>1, EmptySeq, LenProperties, ElementOfSeq
<1>2. \A i \in 1 .. n : \A j \in 1 .. i - 1 : file[j].id # file[i].id
  BY <1>1 DEF PlugsLoad, IsNew
<1>3. DOMAIN LoadConfig(file) = 1 .. n /\ \A i \in 1 .. n : LoadConfig(file)[i] = WithDefaults(file[i])
  BY <1>1 DEF LoadConfig
<1>4. ASSUME NEW plug \in PlugEntry
      PROVE  /\ WithDefaults(plug).id = plug.id
             /\ WithDefaults(plug).homekit \in BOOLEAN /\ WithDefaults(plug).web \in BOOLEAN
  BY DEF PlugEntry, WithDefaults
<1> HIDE DEF n
<1>5. LoadConfig(file) # <<>>
  <2>1. 1 \in DOMAIN LoadConfig(file)
    BY <1>1, <1>3
  <2>2. QED
    BY <2>1
<1>6. ASSUME NEW i \in 1 .. n, NEW j \in 1 .. n, file[i].id = file[j].id PROVE i = j
  <2>1. ~ (j \in 1 .. i - 1) /\ ~ (i \in 1 .. j - 1)
    BY <1>2, <1>6
  <2>2. QED
    BY <1>1, <1>6, <2>1
<1>7. QED
  BY <1>1, <1>3, <1>4, <1>5, <1>6

(* Main never gets past loading with a configuration the rest cannot work with,  *)
(* whatever the environment and the file (app.go:37-69).                      *)
THEOREM ConfigurationSound == Spec => []ConfigurationIsSound
<1>1. ConfigurationIsSound
  BY NamesAreInSync, AllPortsExist, AllPlugsAreDistinct DEF ConfigurationIsSound
<1>2. QED
  BY <1>1, PTL
==============================================================================
