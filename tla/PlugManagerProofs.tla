--------------------------- MODULE PlugManagerProofs ---------------------------
(***************************************************************************)
(* Proofs about PlugManager, for every set of plugs and callers, every       *)
(* capacity, lossy or reliable MQTT, and any clock.                         *)
(***************************************************************************)
EXTENDS PlugManager, SequenceTheorems, TLAPS

(* The functions of PlugState and Tasmota return what they should.          *)

LEMMA InitialStateType == InitialState \in State
BY ReadingAssumption DEF InitialState, State, NoReadings

LEMMA DeviceType ==
  ASSUME NEW on \in BOOLEAN
  PROVE  DeviceWhen(on) \in Device
BY ReadingAssumption, ManagerAssumption DEF DeviceWhen, Device, NoReadings

LEMMA DeviceValues ==
  ASSUME NEW d \in {DeviceWhen(FALSE), DeviceWhen(TRUE)}
  PROVE  d \in Device /\ d.on \in BOOLEAN
BY DeviceType DEF Device

(* What a plug sends becomes a well-formed event, whatever the format.       *)
LEMMA EventType ==
  ASSUME NEW id \in Plugs \cup ForeignIDs, NEW format \in MessageFormats,
         NEW d \in Device
  PROVE  OnPublish(id, Encode(format, d, {})) \in Event
<1> DEFINE msg == Encode(format, d, {})
<1>1. /\ \A r \in DOMAIN EnergyObject(msg) \cap Readings :
             EnergyObject(msg)[r] \in Values
  BY DEF Encode, MessageFormats, Device, EnergyObject, Empty, Missing, Object, Word
<1>2. PartialState(msg) \in State
  <2> HIDE DEF msg
  <2>1. \A r \in Readings :
          (IF r \in DOMAIN EnergyObject(msg) THEN EnergyObject(msg)[r] ELSE 0) \in Values
    BY <1>1, ReadingAssumption
  <2>2. QED
    BY <2>1 DEF PartialState, State
<1>3. UpdatedFields(msg) \in SUBSET ({"On", "MQTTConnected", "LastSeen"} \cup Readings)
  BY DEF UpdatedFields
<1>4. OnPublish(id, msg) = [plug |-> id, state |-> PartialState(msg), updated |-> TRUE,
                            fields |-> UpdatedFields(msg)]
  BY DEF OnPublish
<1>5. ASSUME NEW st \in State,
             NEW fs \in SUBSET ({"On", "MQTTConnected", "LastSeen"} \cup Readings)
      PROVE  [plug |-> id, state |-> st, updated |-> TRUE, fields |-> fs] \in Event
  BY DEF Event
<1>6. QED
  BY <1>2, <1>3, <1>4, <1>5, Zenon

LEMMA MergeType ==
  ASSUME NEW state \in State, NEW event \in Event
  PROVE  Merge(state, event) \in State
<1>1. event.state \in State /\ event.fields \in SUBSET ({"On", "MQTTConnected", "LastSeen"} \cup Readings)
  BY DEF Event
<1>2. CASE event.fields # {}
  BY <1>1, <1>2 DEF Merge, State
<1>3. CASE event.fields = {}
  BY <1>1, <1>3 DEF Merge, State
<1>4. QED
  BY <1>2, <1>3

LEMMA ReplyType ==
  ASSUME NEW format \in StatusFormats, NEW d \in Device
  PROVE  EncodeReply(format, d) \in Reply
<1>1. NoReadings \in [Readings -> Values]
  BY ReadingAssumption DEF NoReadings
<1>2. d.energy \in [Readings -> Values] /\ d.on \in BOOLEAN
  BY DEF Device
<1>3. QED
  BY <1>1, <1>2 DEF EncodeReply, Reply, StatusFormats, PowerWord, Word

LEMMA ApplyStatusType ==
  ASSUME NEW state \in State, NEW reply \in Reply
  PROVE  ApplyStatus(state, reply) \in State
<1>1. reply.form \in {"status", "mistyped", "garbage"} /\ reply.energy \in [Readings -> Values]
  BY DEF Reply
<1>2. CASE reply.form = "status"
  BY <1>1, <1>2 DEF ApplyStatus, State, StatusOn
<1>3. CASE reply.form = "mistyped"
  BY <1>3 DEF ApplyStatus, State
<1>4. CASE reply.form = "garbage"
  BY <1>4 DEF ApplyStatus
<1>5. QED
  BY <1>1, <1>2, <1>3, <1>4

------------------------------------------------------------------------------
(* What a publication does to the bus, seen from a plug: the last update of  *)
(* the plug becomes the state offered, up to the tolerance.                 *)
LEMMA PublishEffect ==
  ASSUME BusTypeOK, NEW p \in Plugs, NEW st \in State, NEW newTimes \in BOOLEAN,
         PublishStateUpdate(p, st, newTimes)
  PROVE  /\ BusTypeOK'
         /\ lastStates'[p] = st \/ Equals(st, lastStates'[p])
         /\ \A q \in Plugs \ {p} : lastStates'[q] = lastStates[q]
<1>1. /\ offered' = [offered EXCEPT ![p] = st]
      /\ subscribed' = subscribed /\ view' = view
  BY DEF PublishStateUpdate
<1>2. CASE Duplicate(p, st, newTimes)
  <2>1. lastStates' = lastStates /\ queue' = queue /\ owed' = owed
    BY <1>2 DEF PublishStateUpdate
  <2>2. Equals(st, lastStates'[p])
    BY <1>2, <2>1 DEF Duplicate
  <2>3. BusTypeOK'
    BY <1>1, <2>1 DEF BusTypeOK, MaybeState
  <2>4. QED
    BY <2>1, <2>2, <2>3
<1>3. CASE ~Duplicate(p, st, newTimes)
  <2>1. /\ queue' = [s \in Subscribers |->
                       IF s \in subscribed
                       THEN Append(queue[s], [plug |-> p, state |-> st])
                       ELSE queue[s]]
        /\ lastStates' = [lastStates EXCEPT ![p] = st]
        /\ owed' = [s \in Subscribers |->
                      IF s \in subscribed THEN owed[s] \cup {p} ELSE owed[s]]
    BY <1>3 DEF PublishStateUpdate
  <2>2. \A s \in Subscribers : Append(queue[s], [plug |-> p, state |-> st]) \in Seq(Update)
    BY AppendProperties DEF BusTypeOK, Update
  <2>3. BusTypeOK'
    BY <1>1, <2>1, <2>2 DEF BusTypeOK, MaybeState
  <2>4. QED
    BY <2>1, <2>3 DEF BusTypeOK
<1>4. QED
  BY <1>2, <1>3

------------------------------------------------------------------------------
(* ManagerTypeOK but for the bounds, in the parts the steps change.          *)
CallOK == call \in [Callers -> [Plugs -> Call]]
RestOK ==
  /\ device \in [Plugs -> {DeviceWhen(FALSE), DeviceWhen(TRUE)}]
  /\ stateEvents \in Seq(Event) /\ Len(stateEvents) <= MaxEvents
  /\ wasOn \in SUBSET Plugs

LEMMA SendType ==
  ASSUME RestOK, NEW id \in Plugs \cup ForeignIDs, NEW format \in MessageFormats,
         NEW d \in {DeviceWhen(FALSE), DeviceWhen(TRUE)}, Send(id, format, d)
  PROVE  stateEvents' \in Seq(Event) /\ Len(stateEvents') <= MaxEvents
<1>1. OnPublish(id, Encode(format, d, {})) \in Event
  BY EventType, DeviceValues
<1>2. Len(stateEvents) \in Nat
  BY LenProperties DEF RestOK
<1>3. QED
  BY <1>1, <1>2, AppendProperties, ManagerAssumption DEF Send, RestOK

LEMMA SwitchType ==
  ASSUME RestOK, NEW p \in Plugs, NEW on \in BOOLEAN, Switch(p, on)
  PROVE  RestOK'
<1>1. /\ device' = [device EXCEPT ![p] = DeviceWhen(on)]
      /\ wasOn' = IF on THEN wasOn \cup {p} ELSE wasOn
      /\ (Send(p, "RESULT", DeviceWhen(on)) \/ UNCHANGED stateEvents)
  BY DEF Switch
<1>2. stateEvents' \in Seq(Event) /\ Len(stateEvents') <= MaxEvents
  BY <1>1, SendType DEF RestOK, MessageFormats
<1>3. device' \in [Plugs -> {DeviceWhen(FALSE), DeviceWhen(TRUE)}]
  BY <1>1 DEF RestOK
<1>4. wasOn' \in SUBSET Plugs
  BY <1>1 DEF RestOK
<1>5. QED
  BY <1>2, <1>3, <1>4 DEF RestOK

(* A call only ever moves to a phase it can be in.                          *)
LEMMA CallType ==
  ASSUME CallOK, NEW c \in Callers, NEW p \in Plugs, NEW next \in Call,
         call' = [call EXCEPT ![c][p] = next]
  PROVE  CallOK'
BY DEF CallOK

LEMMA CallPhases ==
  /\ NoCall \in Call /\ [phase |-> "status"] \in Call
  /\ \A on \in BOOLEAN : [phase |-> "power", on |-> on] \in Call
  /\ \A reply \in Reply : [phase |-> "apply", reply |-> reply] \in Call
BY DEF NoCall, Call

LEMMA CallContents ==
  ASSUME CallOK, NEW c \in Callers, NEW p \in Plugs
  PROVE  /\ call[c][p].phase = "power" => call[c][p].on \in BOOLEAN
         /\ call[c][p].phase = "apply" => call[c][p].reply \in Reply
<1>1. call[c][p] \in Call
  BY DEF CallOK
<1>2. QED
  BY <1>1 DEF Call

------------------------------------------------------------------------------
CommandsOK == commands \in Seq(Command) /\ Len(commands) <= CommandCap
SharedOK == /\ states \in [Plugs -> State]
            /\ copy \in Update \cup {None}
            /\ unpublished \in SUBSET Plugs
InputsOK == inputs \in 0 .. MaxInputs

Parts == BusTypeOK /\ RestOK /\ CommandsOK /\ SharedOK /\ CallOK /\ InputsOK

LEMMA ManagerParts == (ManagerTypeOK <=> Parts) /\ (ManagerTypeOK' <=> Parts')
BY DEF Parts, ManagerTypeOK, RestOK, CommandsOK, SharedOK, CallOK, InputsOK

LEMMA BusUnchanged ==
  ASSUME BusTypeOK, UNCHANGED busVars
  PROVE  BusTypeOK'
BY DEF BusTypeOK, busVars

LEMMA InputType ==
  ASSUME InputsOK, Input
  PROVE  InputsOK'
BY ManagerAssumption DEF InputsOK, Input

(* The steps of a call keep all types.                                      *)
LEMMA CallStepTyping ==
  ASSUME ManagerTypeOK, NEW c \in Callers, NEW p \in Plugs, CallStep(c, p)
  PROVE  ManagerTypeOK'
<1> SUFFICES ASSUME Parts PROVE Parts'
  BY ManagerParts
<1> USE DEF Parts
<1>1. CASE PowerDone(c, p)
  <2>1. call[c][p].on \in BOOLEAN
    BY <1>1, CallContents DEF PowerDone
  <2>2. RestOK'
    BY <1>1, <2>1, SwitchType DEF PowerDone
  <2>3. CallOK'
    BY <1>1, CallPhases, CallType DEF PowerDone
  <2>4. QED
    BY <1>1, <2>2, <2>3, BusUnchanged DEF PowerDone, CommandsOK, SharedOK, InputsOK
<1>2. CASE PowerFailed(c, p)
  <2>1. call[c][p].on \in BOOLEAN
    BY <1>2, CallContents DEF PowerFailed
  <2>2. RestOK'
    <3>1. CASE UNCHANGED <<device, wasOn, stateEvents>>
      BY <3>1 DEF RestOK
    <3>2. CASE Switch(p, call[c][p].on)
      BY <2>1, <3>2, SwitchType
    <3>3. QED
      BY <1>2, <3>1, <3>2 DEF PowerFailed
  <2>3. CallOK'
    BY <1>2, CallPhases, CallType DEF PowerFailed
  <2>4. QED
    BY <1>2, <2>2, <2>3, BusUnchanged DEF PowerFailed, CommandsOK, SharedOK, InputsOK
<1>3. ASSUME NEW format \in ReplyFormats, StatusAnswer(c, p, format)
      PROVE  Parts'
  <2>1. EncodeReply(format, device[p]) \in Reply
    BY ReplyType, DeviceValues, ManagerAssumption DEF RestOK
  <2>2. CallOK'
    BY <1>3, <2>1, CallPhases, CallType DEF StatusAnswer
  <2>3. QED
    BY <1>3, <2>2, BusUnchanged DEF StatusAnswer, RestOK, CommandsOK, SharedOK, InputsOK
<1>4. CASE StatusFailed(c, p)
  <2>1. CallOK'
    BY <1>4, CallPhases, CallType DEF StatusFailed
  <2>2. QED
    BY <1>4, <2>1, BusUnchanged DEF StatusFailed, RestOK, CommandsOK, SharedOK, InputsOK
<1>5. CASE Apply(c, p)
  <2> DEFINE reply == call[c][p].reply
             next == ApplyStatus(states[p], reply)
  <2>1. reply \in Reply /\ next \in State
    BY <1>5, CallContents, ApplyStatusType DEF Apply, SharedOK
  <2>2. states' = [states EXCEPT ![p] = next]
    BY <1>5 DEF Apply
  <2>3. states' \in [Plugs -> State] /\ states'[p] = next
    BY <2>1, <2>2 DEF SharedOK
  <2>4. CallOK'
    BY <1>5, CallPhases, CallType DEF Apply
  <2>5. CASE reply.form = "status"
    <3>1. PICK newTimes \in Times : PublishStateUpdate(p, states'[p], newTimes)
      BY <1>5, <2>5 DEF Apply
    <3>2. newTimes \in BOOLEAN
      BY DEF Times
    <3>3. BusTypeOK'
      BY <2>1, <2>3, <3>1, <3>2, PublishEffect
    <3>4. unpublished' \in SUBSET Plugs
      BY <1>5, <2>5 DEF Apply, SharedOK
    <3>5. QED
      BY <1>5, <2>3, <2>4, <3>3, <3>4 DEF Apply, RestOK, CommandsOK, SharedOK, InputsOK
  <2>6. CASE reply.form = "mistyped"
    <3>1. UNCHANGED busVars /\ unpublished' = unpublished \cup {p}
      BY <1>5, <2>6 DEF Apply
    <3>2. QED
      BY <1>5, <2>3, <2>4, <3>1, BusUnchanged DEF Apply, RestOK, CommandsOK, SharedOK, InputsOK
  <2>7. CASE reply.form = "garbage"
    <3>1. UNCHANGED <<busVars, unpublished>>
      BY <1>5, <2>7 DEF Apply
    <3>2. QED
      BY <1>5, <2>3, <2>4, <3>1, BusUnchanged DEF Apply, RestOK, CommandsOK, SharedOK, InputsOK
  <2>8. QED
    BY <2>1, <2>5, <2>6, <2>7 DEF Reply
<1>6. QED
  BY <1>1, <1>2, <1>3, <1>4, <1>5 DEF CallStep

(* ProcessStateEvents keeps all types.                                      *)
LEMMA MergeTyping ==
  ASSUME ManagerTypeOK, MergeEvent
  PROVE  ManagerTypeOK'
<1> SUFFICES ASSUME Parts PROVE Parts'
  BY ManagerParts
<1> USE DEF Parts
<1> DEFINE event == Head(stateEvents)
<1>1. event \in Event /\ Tail(stateEvents) \in Seq(Event)
      /\ Len(Tail(stateEvents)) <= MaxEvents
  <2>1. stateEvents # <<>> /\ stateEvents \in Seq(Event) /\ Len(stateEvents) <= MaxEvents
    BY DEF MergeEvent, RestOK
  <2>2. Len(stateEvents) \in Nat \ {0}
    BY <2>1, EmptySeq, LenProperties
  <2>3. QED
    BY <2>1, <2>2, HeadTailProperties, ElementOfSeq, ManagerAssumption
<1>2. RestOK'
  BY <1>1 DEF MergeEvent, RestOK
<1>3. SharedOK'
  <2>1. CASE event.plug \in Plugs
    <3>1. /\ states' = [states EXCEPT ![event.plug] = Merge(states[event.plug], event)]
          /\ copy' = [plug |-> event.plug, state |-> states'[event.plug]]
          /\ unpublished' = unpublished \ {event.plug}
      BY <2>1 DEF MergeEvent
    <3>2. Merge(states[event.plug], event) \in State
      BY <1>1, <2>1, MergeType DEF SharedOK
    <3>3. QED
      BY <2>1, <3>1, <3>2 DEF SharedOK, Update
  <2>2. CASE event.plug \notin Plugs
    BY <2>2 DEF MergeEvent, SharedOK
  <2>3. QED
    BY <2>1, <2>2
<1>4. QED
  BY <1>2, <1>3, BusUnchanged DEF MergeEvent, CommandsOK, CallOK, InputsOK

LEMMA CopyTyping ==
  ASSUME ManagerTypeOK, PublishCopy
  PROVE  ManagerTypeOK'
<1> SUFFICES ASSUME Parts PROVE Parts'
  BY ManagerParts
<1> USE DEF Parts
<1>1. PICK newTimes \in Times : PublishStateUpdate(copy.plug, copy.state, newTimes)
  BY DEF PublishCopy
<1>2. copy.plug \in Plugs /\ copy.state \in State /\ newTimes \in BOOLEAN
  BY DEF PublishCopy, SharedOK, Update, Times
<1>3. BusTypeOK'
  BY <1>1, <1>2, PublishEffect
<1>4. QED
  BY <1>3 DEF PublishCopy, RestOK, CommandsOK, SharedOK, CallOK, InputsOK

------------------------------------------------------------------------------
(* ManagerNext, with commands that somebody else has counted as an input, as  *)
(* a HomeKit callback has before it sends one.                              *)
ManagerStep ==
  \/ Outside \/ Inside
  \/ \E p \in Plugs, on \in BOOLEAN : SendCommand(p, on) /\ (Input \/ UNCHANGED inputs)

LEMMA NextIsStep == ManagerNext => ManagerStep
BY DEF ManagerNext, ManagerStep

(* Every step keeps all types.                                              *)
LEMMA StepTyping ==
  ASSUME ManagerTypeOK, ManagerStep \/ UNCHANGED <<busVars, mgrVars>>
  PROVE  ManagerTypeOK'
<1> SUFFICES ASSUME Parts PROVE Parts'
  BY ManagerParts
<1> USE DEF Parts
<1>1. ASSUME NEW p \in Plugs, Button(p)
      PROVE  Parts'
  <2>1. RestOK'
    <3>1. (~device[p].on) \in BOOLEAN
      OBVIOUS
    <3>2. QED
      BY <1>1, <3>1, SwitchType DEF Button
  <2>2. QED
    BY <1>1, <2>1, BusUnchanged, InputType DEF Button, CommandsOK, SharedOK, CallOK
<1>2. ASSUME NEW id \in ForeignIDs, ForeignMessage(id)
      PROVE  Parts'
  <2>1. Send(id, "RESULT", DeviceWhen(TRUE))
    BY <1>2 DEF ForeignMessage
  <2>2. stateEvents' \in Seq(Event) /\ Len(stateEvents') <= MaxEvents
    BY <2>1, SendType DEF MessageFormats
  <2>3. QED
    BY <1>2, <2>2, BusUnchanged, InputType
       DEF ForeignMessage, RestOK, CommandsOK, SharedOK, CallOK
<1>3. ASSUME NEW c \in Requests, RefreshAll(c)
      PROVE  Parts'
  <2>1. CallOK'
    BY <1>3, CallPhases DEF RefreshAll, CallOK, Callers
  <2>2. QED
    BY <1>3, <2>1, BusUnchanged, InputType DEF RefreshAll, RestOK, CommandsOK, SharedOK
<1>4. ASSUME NEW c \in Requests, NEW p \in Plugs, GetStatus(c, p)
      PROVE  Parts'
  <2>1. CallOK'
    BY <1>4, CallPhases, CallType DEF GetStatus, BeginCall, Callers
  <2>2. QED
    BY <1>4, <2>1, BusUnchanged, InputType
       DEF GetStatus, BeginCall, RestOK, CommandsOK, SharedOK
<1>5. ASSUME NEW c \in Requests, NEW p \in Plugs, NEW on \in BOOLEAN, Toggle(c, p, on)
      PROVE  Parts'
  <2>1. CallOK'
    BY <1>5, CallPhases, CallType DEF Toggle, BeginCall, Callers
  <2>2. QED
    BY <1>5, <2>1, BusUnchanged, InputType
       DEF Toggle, BeginCall, RestOK, CommandsOK, SharedOK
<1>6. CASE ProcessCommand
  <2>1. commands # <<>> /\ commands \in Seq(Command) /\ Len(commands) \in Nat \ {0}
    BY <1>6, EmptySeq, LenProperties DEF ProcessCommand, CommandsOK
  <2>2. Head(commands) \in Command /\ Tail(commands) \in Seq(Command)
        /\ Len(Tail(commands)) = Len(commands) - 1
    BY <2>1, HeadTailProperties, ElementOfSeq
  <2>3. CommandsOK'
    BY <1>6, <2>1, <2>2, ManagerAssumption DEF ProcessCommand, CommandsOK
  <2>4. Head(commands).plug \in Plugs /\ Head(commands).on \in BOOLEAN
    BY <2>2 DEF Command
  <2>5. CallOK'
    BY <1>6, <2>4, CallPhases, CallType DEF ProcessCommand, BeginCall, Callers
  <2>6. QED
    BY <1>6, <2>3, <2>5, BusUnchanged
       DEF ProcessCommand, BeginCall, RestOK, SharedOK, InputsOK
<1>7. CASE MergeEvent
  BY <1>7, MergeTyping, ManagerParts
<1>8. CASE PublishCopy
  BY <1>8, CopyTyping, ManagerParts
<1>9. ASSUME NEW c \in Callers, NEW p \in Plugs, CallStep(c, p)
      PROVE  Parts'
  BY <1>9, CallStepTyping, ManagerParts
<1>10. ASSUME NEW p \in Plugs, NEW format \in Periodic, Telemetry(p, format)
       PROVE  Parts'
  <2>1. Send(p, format, device[p]) /\ format \in MessageFormats
    BY <1>10, ManagerAssumption DEF Telemetry
  <2>2. device[p] \in {DeviceWhen(FALSE), DeviceWhen(TRUE)}
    BY DEF RestOK
  <2>3. stateEvents' \in Seq(Event) /\ Len(stateEvents') <= MaxEvents
    BY <2>1, <2>2, SendType
  <2>4. QED
    BY <1>10, <2>3, BusUnchanged
       DEF Telemetry, RestOK, CommandsOK, SharedOK, CallOK, InputsOK
<1>11. ASSUME NEW p \in Plugs, NEW on \in BOOLEAN, SendCommand(p, on),
              Input \/ UNCHANGED inputs
       PROVE  Parts'
  <2>1. [plug |-> p, on |-> on] \in Command /\ Len(commands) \in Nat
    BY LenProperties DEF Command, CommandsOK
  <2>2. CommandsOK'
    BY <1>11, <2>1, AppendProperties, ManagerAssumption DEF SendCommand, CommandsOK
  <2>3. InputsOK'
    BY <1>11, InputType DEF InputsOK
  <2>4. QED
    BY <1>11, <2>2, <2>3, BusUnchanged DEF SendCommand, RestOK, SharedOK, CallOK
<1>12. CASE UNCHANGED <<busVars, mgrVars>>
  BY <1>12, BusUnchanged DEF mgrVars, RestOK, CommandsOK, SharedOK, CallOK, InputsOK
<1>13. QED
  BY <1>1, <1>2, <1>3, <1>4, <1>5, <1>6, <1>7, <1>8, <1>9, <1>10, <1>11, <1>12
     DEF ManagerStep, Outside, Inside

LEMMA ManagerInitTyping == ManagerInit => ManagerTypeOK
<1> SUFFICES ASSUME ManagerInit PROVE Parts
  BY ManagerParts
<1>1. BusTypeOK
  BY InitialStateType DEF ManagerInit, BusTypeOK, MaybeState
<1>2. \A p \in Plugs : device[p].on \in BOOLEAN
  BY DeviceValues DEF ManagerInit
<1>3. RestOK
  <2>1. stateEvents \in Seq(Event) /\ Len(stateEvents) <= MaxEvents
    BY EmptySeq, ManagerAssumption DEF ManagerInit
  <2>2. device \in [Plugs -> {DeviceWhen(FALSE), DeviceWhen(TRUE)}]
    BY DEF ManagerInit
  <2>3. wasOn = {p \in Plugs : device[p].on}
    BY DEF ManagerInit
  <2>4. wasOn \in SUBSET Plugs
    BY <1>2, <2>3
  <2>5. QED
    BY <2>1, <2>2, <2>4 DEF RestOK
<1>4. CommandsOK /\ CallOK /\ SharedOK /\ InputsOK
  BY EmptySeq, CallPhases, InitialStateType, ManagerAssumption
     DEF ManagerInit, CommandsOK, CallOK, SharedOK, InputsOK
<1>5. QED
  BY <1>1, <1>3, <1>4 DEF Parts

(* The manager's state, its queues and the calls in progress stay well typed  *)
(* and within the capacities, whatever arrives from plugs and users.         *)
THEOREM ManagerTyping == ManagerSpec => []ManagerTypeOK
<1>1. ManagerInit => ManagerTypeOK
  BY ManagerInitTyping
<1>2. ManagerTypeOK /\ [ManagerNext]_<<busVars, mgrVars>> => ManagerTypeOK'
  BY StepTyping, NextIsStep
<1>3. QED
  BY <1>1, <1>2, PTL DEF ManagerSpec

------------------------------------------------------------------------------
(* A step that touches neither the last updates nor what ProcessStateEvents   *)
(* and GetStatus share keeps the bus in step with the manager.              *)
LEMMA ElsewhereKeeps ==
  ASSUME BusFollowsManager, UNCHANGED <<lastStates, states, copy, unpublished>>
  PROVE  BusFollowsManager'
BY DEF BusFollowsManager, Held, Equals, AlmostEqual

(* Every step keeps the bus in step with the manager.                        *)
LEMMA FollowsStep ==
  ASSUME ManagerTypeOK, BusFollowsManager, ManagerStep \/ UNCHANGED <<busVars, mgrVars>>
  PROVE  BusFollowsManager'
<1>0. BusTypeOK /\ SharedOK /\ CallOK
  BY ManagerParts DEF Parts
<1> DEFINE Follows(q, st, last, cp) ==
             IF cp # None /\ cp.plug = q THEN cp.state = st
             ELSE last = st \/ Equals(st, last)
<1>f. /\ \A q \in Plugs \ unpublished : Follows(q, states[q], lastStates[q], copy)
      /\ (\A q \in Plugs \ unpublished' :
             Follows(q, states'[q], lastStates'[q], copy')) => BusFollowsManager'
  BY DEF BusFollowsManager, Held, Equals, AlmostEqual
<1>1. ASSUME NEW c \in Callers, NEW p \in Plugs, Apply(c, p)
      PROVE  BusFollowsManager'
  <2> DEFINE reply == call[c][p].reply
             next == ApplyStatus(states[p], reply)
  <2>1. reply \in Reply /\ next \in State
    BY <1>0, <1>1, CallContents, ApplyStatusType DEF Apply, SharedOK
  <2>2. states' = [states EXCEPT ![p] = next] /\ copy' = copy
    BY <1>1 DEF Apply
  <2>3. states'[p] = next /\ \A q \in Plugs \ {p} : states'[q] = states[q]
    BY <1>0, <2>2 DEF SharedOK
  <2>4. CASE reply.form = "status"
    <3>1. PICK newTimes \in Times : PublishStateUpdate(p, states'[p], newTimes)
      BY <1>1, <2>4 DEF Apply
    <3>2. /\ lastStates'[p] = next \/ Equals(next, lastStates'[p])
          /\ \A q \in Plugs \ {p} : lastStates'[q] = lastStates[q]
      <4>1. newTimes \in BOOLEAN
        BY DEF Times
      <4>2. QED
        BY <1>0, <2>1, <2>3, <3>1, <4>1, PublishEffect
    <3>3. unpublished' = IF copy # None /\ copy.plug = p
                         THEN unpublished \cup {p} ELSE unpublished \ {p}
      BY <1>1, <2>4 DEF Apply
    <3>4. ASSUME NEW q \in Plugs \ unpublished'
          PROVE  Follows(q, states'[q], lastStates'[q], copy')
      <4>1. CASE q = p
        BY <2>2, <2>3, <3>2, <3>3, <3>4, <4>1
      <4>2. CASE q # p
        BY <1>f, <2>2, <2>3, <3>2, <3>3, <3>4, <4>2
      <4>3. QED
        BY <4>1, <4>2
    <3>5. QED
      BY <1>f, <3>4
  <2>5. CASE reply.form = "mistyped"
    <3>1. unpublished' = unpublished \cup {p} /\ lastStates' = lastStates
      BY <1>1, <2>5 DEF Apply, busVars
    <3>2. \A q \in Plugs \ unpublished' : Follows(q, states'[q], lastStates'[q], copy')
      BY <1>f, <2>2, <2>3, <3>1
    <3>3. QED
      BY <1>f, <3>2
  <2>6. CASE reply.form = "garbage"
    <3>1. unpublished' = unpublished /\ lastStates' = lastStates
      BY <1>1, <2>6 DEF Apply, busVars
    <3>2. next = states[p]
      BY <2>6 DEF ApplyStatus
    <3>3. \A q \in Plugs \ unpublished' : Follows(q, states'[q], lastStates'[q], copy')
      BY <1>f, <2>2, <2>3, <3>1, <3>2
    <3>4. QED
      BY <1>f, <3>3
  <2>7. QED
    BY <2>1, <2>4, <2>5, <2>6 DEF Reply
<1>2. CASE MergeEvent
  <2> DEFINE event == Head(stateEvents)
             merged == Merge(states[event.plug], event)
  <2>1. CASE event.plug \in Plugs
    <3>1. /\ states' = [states EXCEPT ![event.plug] = merged]
          /\ copy' = [plug |-> event.plug, state |-> states'[event.plug]]
          /\ unpublished' = unpublished \ {event.plug}
          /\ copy = None /\ lastStates' = lastStates
      BY <1>2, <2>1 DEF MergeEvent, busVars
    <3>2. copy'.plug = event.plug /\ copy'.state = states'[event.plug]
      BY <3>1
    <3>3. copy' # None
      <4>1. states' \in [Plugs -> State]
        BY StepTyping, ManagerParts DEF Parts, SharedOK
      <4>2. copy' \in Update
        BY <2>1, <3>1, <4>1 DEF Update
      <4>3. QED
        BY <4>2, NoneAssumption
    <3>4. \A q \in Plugs \ {event.plug} : states'[q] = states[q]
      BY <1>0, <3>1 DEF SharedOK
    <3>5. \A q \in Plugs \ unpublished' : Follows(q, states'[q], lastStates'[q], copy')
      BY <1>f, <3>1, <3>2, <3>3, <3>4
    <3>6. QED
      BY <1>f, <3>5
  <2>2. CASE event.plug \notin Plugs
    BY <1>2, <2>2, ElsewhereKeeps DEF MergeEvent, busVars
  <2>3. QED
    BY <2>1, <2>2
<1>3. CASE PublishCopy
  <2>1. PICK newTimes \in Times : PublishStateUpdate(copy.plug, copy.state, newTimes)
    BY <1>3 DEF PublishCopy
  <2>2. copy # None /\ copy.plug \in Plugs /\ copy.state \in State /\ newTimes \in BOOLEAN
    BY <1>0, <1>3 DEF PublishCopy, SharedOK, Update, Times
  <2>3. /\ lastStates'[copy.plug] = copy.state \/ Equals(copy.state, lastStates'[copy.plug])
        /\ \A q \in Plugs \ {copy.plug} : lastStates'[q] = lastStates[q]
    BY <1>0, <2>1, <2>2, PublishEffect
  <2>4. copy' = None /\ states' = states /\ unpublished' = unpublished
    BY <1>3 DEF PublishCopy
  <2>5. \A q \in Plugs \ unpublished' : Follows(q, states'[q], lastStates'[q], copy')
    BY <1>f, <2>2, <2>3, <2>4
  <2>6. QED
    BY <1>f, <2>5
<1>4. CASE UNCHANGED <<busVars, states, copy, unpublished>>
  BY <1>4, ElsewhereKeeps DEF busVars
<1>5. QED
  BY <1>1, <1>2, <1>3, <1>4
     DEF ManagerStep, Outside, Inside, CallStep, Button, ForeignMessage, RefreshAll,
         GetStatus, Toggle, BeginCall, ProcessCommand, PowerDone, PowerFailed,
         StatusAnswer, StatusFailed, Telemetry, SendCommand, mgrVars

(* The last update on the bus shows pm.states, or the copy that does is on    *)
(* its way, except after one of the two escapes that `unpublished` records.  *)
THEOREM BusFollows == ManagerSpec => []BusFollowsManager
<1>1. ManagerInit => BusFollowsManager
  BY DEF ManagerInit, BusFollowsManager, Held
<1>2. ManagerTypeOK /\ BusFollowsManager /\ [ManagerNext]_<<busVars, mgrVars>>
      => BusFollowsManager'
  BY FollowsStep, NextIsStep
<1>3. QED
  BY <1>1, <1>2, ManagerTyping, PTL DEF ManagerSpec

------------------------------------------------------------------------------
(* Where the on of a published state can come from: the plug itself, what it    *)
(* said over MQTT or in a reply that is not merged yet, the manager's state,   *)
(* and the copy to be published.  Wherever it says on, the plug was on.       *)
EventsWereReal ==
  \A i \in DOMAIN stateEvents :
     stateEvents[i].plug \in Plugs /\ stateEvents[i].state.on => stateEvents[i].plug \in wasOn

RepliesWereReal ==
  \A c \in Callers, p \in Plugs : call[c][p].phase = "apply" =>
     /\ call[c][p].reply.form = "status" /\ StatusOn(call[c][p].reply) => p \in wasOn
     /\ call[c][p].reply.form = "mistyped" /\ call[c][p].reply.alt = "ON" => p \in wasOn

CopyWasReal == copy # None /\ copy.state.on => copy.plug \in wasOn

PlugsWereReal == \A p \in Plugs : /\ device[p].on => p \in wasOn
                                  /\ states[p].on => p \in wasOn

RealInv == /\ PlugsWereReal /\ EventsWereReal /\ RepliesWereReal /\ CopyWasReal
           /\ PublishedOnWasReal
LEMMA RealInit == ManagerInit => RealInv
<1> SUFFICES ASSUME ManagerInit PROVE RealInv
  OBVIOUS
<1>1. \A p \in Plugs : /\ device[p].on => p \in wasOn
                       /\ ~states[p].on /\ ~lastStates[p].on
  BY DEF ManagerInit, InitialState
<1>2. \A c \in Callers, p \in Plugs : call[c][p].phase # "apply"
  BY DEF ManagerInit, NoCall
<1>3. DOMAIN stateEvents = {} /\ copy = None
  BY EmptySeq DEF ManagerInit
<1>4. QED
  BY <1>1, <1>2, <1>3 DEF RealInv, PlugsWereReal, EventsWereReal, RepliesWereReal,
                          CopyWasReal, PublishedOnWasReal

(* A message that says on comes from a plug that is on.                      *)
LEMMA EventOn ==
  ASSUME NEW id, NEW format \in MessageFormats, NEW d \in Device, NEW event,
         event = OnPublish(id, Encode(format, d, {})), event.state.on
  PROVE  d.on
<1> DEFINE msg == Encode(format, d, {})
<1>1. PowerState(msg) \in {"", Word(d.on)}
  BY DEF Encode, MessageFormats, PowerState, Empty, Missing, Object, Word
<1>2. PowerState(msg) = "ON"
  BY DEF OnPublish, PartialState
<1>3. QED
  BY <1>1, <1>2 DEF Word

(* A reply that says on comes from a plug that is on.                        *)
LEMMA ReplyOn ==
  ASSUME NEW format \in StatusFormats, NEW d \in Device, NEW reply,
         reply = EncodeReply(format, d)
  PROVE  /\ reply.form = "status" /\ StatusOn(reply) => d.on
         /\ reply.form = "mistyped" /\ reply.alt = "ON" => d.on
<1>1. (Word(d.on) = "ON" => d.on) /\ Word(d.on) # ""
  BY DEF Word
<1>2. CASE format = "StatusSTS"
  <2>1. reply.form = "status" /\ reply.sts = Word(d.on)
    BY <1>2 DEF EncodeReply
  <2>2. QED
    BY <1>1, <2>1 DEF StatusOn
<1>3. CASE format = "Status"
  <2>1. reply.form = "status" /\ reply.sts = ""
    BY <1>3 DEF EncodeReply
  <2>2. reply.power = IF d.on THEN 1 ELSE 0
    BY <1>3 DEF EncodeReply
  <2>3. reply.power = 1 => d.on
    BY ONLY <2>2
  <2>4. QED
    BY <2>1, <2>3 DEF StatusOn
<1>4. CASE format = "POWER"
  <2>1. reply.form = "status" /\ reply.sts = ""
    BY <1>4 DEF EncodeReply
  <2>2. reply.power = 0
    BY <1>4 DEF EncodeReply
  <2>3. ~(reply.power = 1)
    BY ONLY <2>2
  <2>4. QED
    BY <2>1, <2>3 DEF StatusOn
<1>5. CASE format = "fallback"
  <2>1. reply.form = "mistyped" /\ reply.alt = Word(d.on)
    BY <1>5 DEF EncodeReply
  <2>2. QED
    BY <1>1, <2>1
<1>6. CASE format = "mistyped"
  <2>1. reply.form = "mistyped" /\ reply.alt = ""
    BY <1>6 DEF EncodeReply
  <2>2. QED
    BY <2>1
<1>7. CASE format = "error"
  BY <1>7 DEF EncodeReply
<1>8. QED
  BY <1>2, <1>3, <1>4, <1>5, <1>6, <1>7 DEF StatusFormats

(* What a merge or a reply makes of the power state was one of its inputs.    *)
LEMMA MergeOn ==
  ASSUME NEW state, NEW event
  PROVE  Merge(state, event).on \in {state.on, event.state.on}
BY DEF Merge

LEMMA ApplyOn ==
  ASSUME NEW state \in State, NEW reply \in Reply
  PROVE  LET on == ApplyStatus(state, reply).on
         IN \/ on = state.on
            \/ reply.form = "status" /\ on = StatusOn(reply)
            \/ reply.form = "mistyped" /\ on = (reply.alt = "ON")
<1>1. reply.form \in {"status", "mistyped", "garbage"}
  BY DEF Reply
<1>2. CASE reply.form = "status"
  BY <1>2 DEF ApplyStatus, State
<1>3. CASE reply.form = "mistyped"
  BY <1>3 DEF ApplyStatus, State
<1>4. CASE reply.form = "garbage"
  BY <1>4 DEF ApplyStatus
<1>5. QED
  BY <1>1, <1>2, <1>3, <1>4

(* A message sent about what a plug was is an event that was real.           *)
LEMMA SendReal ==
  ASSUME RestOK, EventsWereReal, NEW id \in Plugs \cup ForeignIDs,
         NEW format \in MessageFormats, NEW d \in {DeviceWhen(FALSE), DeviceWhen(TRUE)},
         Send(id, format, d), wasOn \subseteq wasOn',
         id \in Plugs /\ d.on => id \in wasOn'
  PROVE  EventsWereReal'
<1>1. PICK event \in Event : event = OnPublish(id, Encode(format, d, {}))
  BY EventType, DeviceValues
<1>2. event.plug = id /\ (id \in Plugs /\ event.state.on => id \in wasOn')
  <2>1. d \in Device
    BY DeviceValues
  <2>2. event.plug = id
    BY <1>1 DEF OnPublish
  <2>3. event.state.on => d.on
    BY <1>1, <2>1, EventOn
  <2>4. QED
    BY <2>2, <2>3
<1>3. stateEvents' = Append(stateEvents, event) /\ stateEvents \in Seq(Event)
  BY <1>1 DEF Send, RestOK
<1>4. /\ Len(stateEvents) \in Nat /\ DOMAIN stateEvents = 1 .. Len(stateEvents)
      /\ DOMAIN stateEvents' = 1 .. (Len(stateEvents) + 1)
      /\ \A i \in DOMAIN stateEvents : stateEvents'[i] = stateEvents[i]
      /\ stateEvents'[Len(stateEvents) + 1] = event
  BY <1>1, <1>3, AppendProperties, LenProperties
<1>5. ASSUME NEW i \in DOMAIN stateEvents', stateEvents'[i].plug \in Plugs
      PROVE  stateEvents'[i].state.on => stateEvents'[i].plug \in wasOn'
  <2>1. CASE i \in DOMAIN stateEvents
    BY <1>4, <1>5, <2>1 DEF EventsWereReal
  <2>2. CASE i = Len(stateEvents) + 1
    BY <1>2, <1>4, <1>5, <2>2
  <2>3. QED
    BY <1>4, <1>5, <2>1, <2>2
<1>6. QED
  BY <1>5 DEF EventsWereReal

(* What the relay was switched to is what the plug was from then on.         *)
LEMMA SwitchReal ==
  ASSUME RestOK, PlugsWereReal, EventsWereReal, NEW p \in Plugs, NEW on \in BOOLEAN,
         Switch(p, on)
  PROVE  /\ wasOn \subseteq wasOn' /\ \A q \in Plugs : device'[q].on => q \in wasOn'
         /\ EventsWereReal'
<1>1. /\ device' = [device EXCEPT ![p] = DeviceWhen(on)]
      /\ wasOn' = IF on THEN wasOn \cup {p} ELSE wasOn
      /\ (Send(p, "RESULT", DeviceWhen(on)) \/ UNCHANGED stateEvents)
  BY DEF Switch
<1>2. wasOn \subseteq wasOn'
  BY <1>1 DEF RestOK
<1>3. DeviceWhen(on).on = on /\ DeviceWhen(on) \in {DeviceWhen(FALSE), DeviceWhen(TRUE)}
  BY DEF DeviceWhen
<1>4. on => p \in wasOn'
  BY <1>1, <1>2 DEF RestOK, PlugsWereReal
<1>5. \A q \in Plugs : device'[q].on => q \in wasOn'
  BY <1>1, <1>2, <1>3, <1>4 DEF RestOK, PlugsWereReal
<1>6. CASE Send(p, "RESULT", DeviceWhen(on))
  BY <1>2, <1>3, <1>4, <1>5, <1>6, SendReal DEF MessageFormats
<1>7. CASE UNCHANGED stateEvents
  BY <1>2, <1>5, <1>7 DEF EventsWereReal
<1>8. QED
  BY <1>1, <1>6, <1>7

(* A step that takes nothing into the manager or onto the bus.               *)
LEMMA RealFrame ==
  ASSUME ManagerTypeOK, RealInv, UNCHANGED <<states, copy, lastStates>>,
         wasOn \subseteq wasOn' /\ \A p \in Plugs : device'[p].on => p \in wasOn',
         EventsWereReal',
         \A c \in Callers, p \in Plugs :
            call'[c][p] = call[c][p] \/ call'[c][p].phase # "apply"
  PROVE  RealInv'
<1>1. PlugsWereReal' /\ PublishedOnWasReal'
  BY DEF RealInv, PlugsWereReal, PublishedOnWasReal
<1>2. RepliesWereReal'
  BY DEF RealInv, RepliesWereReal
<1>3. CopyWasReal'
  BY DEF RealInv, CopyWasReal, ManagerTypeOK, Update
<1>4. QED
  BY <1>1, <1>2, <1>3 DEF RealInv
(* A reply is taken in: what it says of the power state was real.            *)
LEMMA ApplyReal ==
  ASSUME ManagerTypeOK, RealInv, NEW c \in Callers, NEW p \in Plugs, Apply(c, p)
  PROVE  RealInv'
<1> DEFINE reply == call[c][p].reply
           next == ApplyStatus(states[p], reply)
<1>0. BusTypeOK /\ SharedOK /\ CallOK
  BY ManagerParts DEF Parts
<1>1. reply \in Reply /\ next \in State /\ states[p] \in State
  BY <1>0, CallContents, ApplyStatusType DEF Apply, SharedOK
<1>2. /\ states' = [states EXCEPT ![p] = next]
      /\ call' = [call EXCEPT ![c][p] = NoCall]
      /\ UNCHANGED <<device, stateEvents, copy, wasOn>>
  BY DEF Apply
<1>3. states'[p] = next /\ \A q \in Plugs \ {p} : states'[q] = states[q]
  BY <1>0, <1>2 DEF SharedOK
<1>4. next.on => p \in wasOn
  <2>1. /\ reply.form = "status" /\ StatusOn(reply) => p \in wasOn
        /\ reply.form = "mistyped" /\ reply.alt = "ON" => p \in wasOn
        /\ states[p].on => p \in wasOn
    BY DEF RealInv, RepliesWereReal, PlugsWereReal, Apply
  <2>2. \/ next.on = states[p].on
        \/ reply.form = "status" /\ next.on = StatusOn(reply)
        \/ reply.form = "mistyped" /\ next.on = (reply.alt = "ON")
    BY <1>1, ApplyOn
  <2>3. QED
    BY <2>1, <2>2
<1>5. PlugsWereReal' /\ EventsWereReal' /\ CopyWasReal'
  BY <1>2, <1>3, <1>4 DEF RealInv, PlugsWereReal, EventsWereReal, CopyWasReal
<1>6. RepliesWereReal'
  <2>1. \A d \in Callers, q \in Plugs :
           call'[d][q] = IF d = c /\ q = p THEN NoCall ELSE call[d][q]
    BY <1>0, <1>2 DEF CallOK
  <2>2. QED
    BY <1>2, <2>1 DEF RealInv, RepliesWereReal, NoCall
<1>7. \A q \in Plugs : lastStates'[q].on \in {lastStates[q].on, states'[q].on}
  <2>1. CASE reply.form = "status"
    <3>1. PICK newTimes \in Times : PublishStateUpdate(p, states'[p], newTimes)
      BY <2>1 DEF Apply
    <3>2. newTimes \in BOOLEAN
      BY DEF Times
    <3>3. /\ lastStates'[p] = next \/ Equals(next, lastStates'[p])
          /\ \A q \in Plugs \ {p} : lastStates'[q] = lastStates[q]
      BY <1>0, <1>1, <1>3, <3>1, <3>2, PublishEffect
    <3>4. QED
      BY <1>3, <3>3 DEF Equals
  <2>2. CASE reply.form \in {"mistyped", "garbage"}
    BY <2>2 DEF Apply, busVars
  <2>3. QED
    BY <1>1, <2>1, <2>2 DEF Reply
<1>8. PublishedOnWasReal'
  BY <1>2, <1>5, <1>7 DEF RealInv, PublishedOnWasReal, PlugsWereReal
<1>9. QED
  BY <1>5, <1>6, <1>8 DEF RealInv

(* A message is merged, and the state copied: what it says was real.         *)
LEMMA MergeReal ==
  ASSUME ManagerTypeOK, RealInv, MergeEvent
  PROVE  RealInv'
<1> DEFINE event == Head(stateEvents)
<1>0. SharedOK /\ stateEvents \in Seq(Event) /\ stateEvents # <<>>
  BY ManagerParts DEF Parts, RestOK, MergeEvent
<1>1. /\ Len(stateEvents) \in Nat \ {0} /\ DOMAIN stateEvents = 1 .. Len(stateEvents)
      /\ event = stateEvents[1]
      /\ DOMAIN stateEvents' = 1 .. (Len(stateEvents) - 1)
      /\ \A i \in 1 .. (Len(stateEvents) - 1) : stateEvents'[i] = stateEvents[i + 1]
  <2>1. stateEvents' = Tail(stateEvents)
    BY DEF MergeEvent
  <2>2. Len(stateEvents) \in Nat \ {0} /\ DOMAIN stateEvents = 1 .. Len(stateEvents)
    BY <1>0, EmptySeq, LenProperties
  <2>3. /\ event = stateEvents[1] /\ stateEvents' \in Seq(Event)
        /\ Len(stateEvents') = Len(stateEvents) - 1
        /\ \A i \in 1 .. Len(stateEvents') : stateEvents'[i] = stateEvents[i + 1]
    BY <1>0, <2>1, HeadTailProperties
  <2>4. QED
    BY <2>2, <2>3, LenProperties
<1>2. UNCHANGED <<device, call, wasOn, lastStates>>
  BY DEF MergeEvent, busVars
<1>3. EventsWereReal'
  <2>1. ASSUME NEW i \in DOMAIN stateEvents', stateEvents'[i].plug \in Plugs
        PROVE  stateEvents'[i].state.on => stateEvents'[i].plug \in wasOn
    <3>1. i + 1 \in DOMAIN stateEvents /\ stateEvents'[i] = stateEvents[i + 1]
      BY <1>1
    <3>2. QED
      BY <2>1, <3>1 DEF RealInv, EventsWereReal
  <2>2. QED
    BY <1>2, <2>1 DEF EventsWereReal
<1>4. RepliesWereReal' /\ PublishedOnWasReal'
  BY <1>2 DEF RealInv, RepliesWereReal, PublishedOnWasReal
<1>5. CASE event.plug \in Plugs
  <2> DEFINE merged == Merge(states[event.plug], event)
  <2>1. /\ states' = [states EXCEPT ![event.plug] = merged]
        /\ copy' = [plug |-> event.plug, state |-> states'[event.plug]]
    BY <1>5 DEF MergeEvent
  <2>2. /\ states'[event.plug] = merged
        /\ \A q \in Plugs \ {event.plug} : states'[q] = states[q]
    BY <1>0, <1>5, <2>1 DEF SharedOK
  <2>3. merged.on => event.plug \in wasOn
    <3>0. 1 \in DOMAIN stateEvents
      BY <1>1
    <3>1. event.state.on \/ states[event.plug].on => event.plug \in wasOn
      <4>1. stateEvents[1].state.on => stateEvents[1].plug \in wasOn
        BY <1>1, <1>5, <3>0 DEF RealInv, EventsWereReal
      <4>2. states[event.plug].on => event.plug \in wasOn
        BY <1>5 DEF RealInv, PlugsWereReal
      <4>3. QED
        BY <1>1, <4>1, <4>2
    <3>2. merged.on \in {states[event.plug].on, event.state.on}
      BY MergeOn
    <3>3. QED
      BY <3>1, <3>2
  <2>4. PlugsWereReal' /\ CopyWasReal'
    BY <1>2, <2>1, <2>2, <2>3 DEF RealInv, PlugsWereReal, CopyWasReal
  <2>5. QED
    BY <1>3, <1>4, <2>4 DEF RealInv
<1>6. CASE event.plug \notin Plugs
  <2>1. UNCHANGED <<states, copy>>
    BY <1>6 DEF MergeEvent
  <2>2. PlugsWereReal' /\ CopyWasReal'
    BY <1>2, <2>1 DEF RealInv, PlugsWereReal, CopyWasReal
  <2>3. QED
    BY <1>3, <1>4, <2>2 DEF RealInv
<1>7. QED
  BY <1>5, <1>6

(* The copy is published: what it says was real when it was made.            *)
LEMMA CopyReal ==
  ASSUME ManagerTypeOK, RealInv, PublishCopy
  PROVE  RealInv'
<1>1. PICK newTimes \in Times : PublishStateUpdate(copy.plug, copy.state, newTimes)
  BY DEF PublishCopy
<1>2. BusTypeOK /\ copy # None /\ copy.plug \in Plugs /\ copy.state \in State
      /\ newTimes \in BOOLEAN
  BY ManagerParts DEF Parts, PublishCopy, SharedOK, Update, Times
<1>3. /\ lastStates'[copy.plug] = copy.state \/ Equals(copy.state, lastStates'[copy.plug])
      /\ \A q \in Plugs \ {copy.plug} : lastStates'[q] = lastStates[q]
  BY <1>1, <1>2, PublishEffect
<1>4. lastStates'[copy.plug].on = copy.state.on
  BY <1>3 DEF Equals
<1>5. copy' = None /\ UNCHANGED <<device, states, stateEvents, call, wasOn>>
  BY DEF PublishCopy
<1>6. PublishedOnWasReal'
  BY <1>2, <1>3, <1>4, <1>5 DEF RealInv, PublishedOnWasReal, CopyWasReal
<1>7. PlugsWereReal' /\ EventsWereReal' /\ RepliesWereReal' /\ CopyWasReal'
  BY <1>5 DEF RealInv, PlugsWereReal, EventsWereReal, RepliesWereReal, CopyWasReal
<1>8. QED
  BY <1>6, <1>7 DEF RealInv
(* The steps in which a plug may change or send, or a call goes on.          *)
LEMMA CallStepReal ==
  ASSUME ManagerTypeOK, RealInv, NEW c \in Callers, NEW p \in Plugs, CallStep(c, p)
  PROVE  RealInv'
<1>0. RestOK /\ CallOK /\ PlugsWereReal /\ EventsWereReal
  BY ManagerParts DEF Parts, RealInv
<1>1. ASSUME NEW next, next.phase # "apply", call' = [call EXCEPT ![c][p] = next],
             UNCHANGED <<busVars, states, copy>>,
             \/ Switch(p, call[c][p].on) /\ call[c][p].phase = "power"
             \/ UNCHANGED <<device, wasOn, stateEvents>>
      PROVE  RealInv'
  <2>1. /\ wasOn \subseteq wasOn' /\ \A q \in Plugs : device'[q].on => q \in wasOn'
        /\ EventsWereReal'
    <3>1. CASE Switch(p, call[c][p].on) /\ call[c][p].phase = "power"
      <4>1. call[c][p].on \in BOOLEAN
        BY <1>0, <3>1, CallContents
      <4>2. QED
        BY <1>0, <3>1, <4>1, SwitchReal
    <3>2. CASE UNCHANGED <<device, wasOn, stateEvents>>
      BY <1>0, <3>2 DEF PlugsWereReal, EventsWereReal
    <3>3. QED
      BY <1>1, <3>1, <3>2
  <2>2. \A d \in Callers, q \in Plugs : call'[d][q] = call[d][q] \/ call'[d][q] = next
    BY <1>0, <1>1 DEF CallOK
  <2>3. \A d \in Callers, q \in Plugs :
           call'[d][q] = call[d][q] \/ call'[d][q].phase # "apply"
    BY <1>1, <2>2
  <2>4. QED
    BY <1>1, <2>1, <2>3, RealFrame DEF busVars
<1>2. NoCall.phase # "apply" /\ [phase |-> "status"].phase # "apply"
  BY DEF NoCall
<1>3. CASE PowerDone(c, p)
  BY <1>1, <1>2, <1>3 DEF PowerDone
<1>4. CASE PowerFailed(c, p)
  BY <1>1, <1>2, <1>4 DEF PowerFailed
<1>5. CASE StatusFailed(c, p)
  BY <1>1, <1>2, <1>5 DEF StatusFailed
<1>6. ASSUME NEW format \in ReplyFormats, StatusAnswer(c, p, format)
      PROVE  RealInv'
  <2>1. PICK reply \in Reply : reply = EncodeReply(format, device[p])
    BY <1>0, ReplyType, DeviceValues, ManagerAssumption DEF RestOK
  <2>2. UNCHANGED <<busVars, device, states, stateEvents, copy, wasOn>>
    BY <1>6 DEF StatusAnswer
  <2>3. /\ reply.form = "status" /\ StatusOn(reply) => p \in wasOn
        /\ reply.form = "mistyped" /\ reply.alt = "ON" => p \in wasOn
    <3>1. device[p] \in Device /\ format \in StatusFormats
      BY <1>0, DeviceValues, ManagerAssumption DEF RestOK
    <3>2. device[p].on => p \in wasOn
      BY <1>0 DEF PlugsWereReal
    <3>3. QED
      BY <2>1, <3>1, <3>2, ReplyOn
  <2>4. call' = [call EXCEPT ![c][p] = [phase |-> "apply", reply |-> reply]]
    BY <1>6, <2>1 DEF StatusAnswer
  <2>5. \A d \in Callers, q \in Plugs :
           call'[d][q] = IF d = c /\ q = p THEN [phase |-> "apply", reply |-> reply]
                         ELSE call[d][q]
    BY <1>0, <2>4 DEF CallOK
  <2>6. RepliesWereReal'
    <3>1. ASSUME NEW d \in Callers, NEW q \in Plugs, call'[d][q].phase = "apply"
          PROVE  /\ call'[d][q].reply.form = "status"
                     /\ StatusOn(call'[d][q].reply) => q \in wasOn
                 /\ call'[d][q].reply.form = "mistyped"
                     /\ call'[d][q].reply.alt = "ON" => q \in wasOn
      <4>1. CASE d = c /\ q = p
        <5>1. call'[d][q].reply = reply
          BY <2>5, <4>1
        <5>2. QED
          BY <2>3, <4>1, <5>1
      <4>2. CASE ~(d = c /\ q = p)
        BY <2>5, <3>1, <4>2 DEF RealInv, RepliesWereReal
      <4>3. QED
        BY <4>1, <4>2
    <3>2. QED
      BY <2>2, <3>1 DEF RepliesWereReal, StatusOn
  <2>7. PlugsWereReal' /\ EventsWereReal' /\ CopyWasReal' /\ PublishedOnWasReal'
    BY <2>2 DEF RealInv, PlugsWereReal, EventsWereReal, CopyWasReal, PublishedOnWasReal, busVars
  <2>8. QED
    BY <2>6, <2>7 DEF RealInv
<1>7. CASE Apply(c, p)
  BY <1>7, ApplyReal
<1>8. QED
  BY <1>3, <1>4, <1>5, <1>6, <1>7 DEF CallStep

LEMMA RealStep ==
  ASSUME ManagerTypeOK, RealInv, ManagerStep \/ UNCHANGED <<busVars, mgrVars>>
  PROVE  RealInv'
<1>0. RestOK /\ CallOK /\ PlugsWereReal /\ EventsWereReal
  BY ManagerParts DEF Parts, RealInv
<1>1. ASSUME UNCHANGED <<busVars, device, states, stateEvents, copy, wasOn>>,
             \A c \in Callers, p \in Plugs :
                call'[c][p] = call[c][p] \/ call'[c][p].phase # "apply"
      PROVE  RealInv'
  <2>1. /\ wasOn \subseteq wasOn' /\ \A p \in Plugs : device'[p].on => p \in wasOn'
        /\ EventsWereReal'
    BY <1>0, <1>1 DEF PlugsWereReal, EventsWereReal
  <2>2. QED
    BY <1>1, <2>1, RealFrame DEF busVars
<1>2. ASSUME NEW c \in Callers, NEW p \in Plugs, NEW first, BeginCall(c, p, first),
             first.phase # "apply"
      PROVE  RealInv'
  <2>1. \A d \in Callers, q \in Plugs : call'[d][q] = call[d][q] \/ call'[d][q] = first
    BY <1>0, <1>2 DEF BeginCall, CallOK
  <2>2. QED
    BY <1>1, <1>2, <2>1 DEF BeginCall
<1>3. CASE ProcessCommand
  <2>1. commands # <<>> /\ commands \in Seq(Command) /\ Len(commands) \in Nat \ {0}
    BY <1>3, ManagerParts, EmptySeq, LenProperties DEF Parts, ProcessCommand, CommandsOK
  <2>2. Head(commands) \in Command
    BY <2>1, HeadTailProperties, ElementOfSeq
  <2>3. Head(commands).plug \in Plugs /\ Worker \in Callers
    BY <2>2 DEF Command, Callers
  <2>4. PICK first : /\ BeginCall(Worker, Head(commands).plug, first)
                     /\ first.phase = "power"
    BY <1>3 DEF ProcessCommand
  <2>5. QED
    BY <1>2, <2>3, <2>4
<1>4. ASSUME NEW c \in Requests, NEW p \in Plugs,
             GetStatus(c, p) \/ \E on \in BOOLEAN : Toggle(c, p, on)
      PROVE  RealInv'
  BY <1>2, <1>4 DEF GetStatus, Toggle, Callers
<1>5. ASSUME NEW c \in Requests, RefreshAll(c)
      PROVE  RealInv'
  <2>1. \A d \in Callers, q \in Plugs :
           call'[d][q] = call[d][q] \/ call'[d][q] = [phase |-> "status"]
    BY <1>0, <1>5 DEF RefreshAll, CallOK, Callers
  <2>2. QED
    BY <1>1, <1>5, <2>1 DEF RefreshAll
<1>6. ASSUME NEW p \in Plugs, NEW on \in BOOLEAN, SendCommand(p, on)
      PROVE  RealInv'
  BY <1>1, <1>6 DEF SendCommand
<1>7. ASSUME NEW p \in Plugs, Button(p)
      PROVE  RealInv'
  <2>1. Switch(p, ~device[p].on) /\ (~device[p].on) \in BOOLEAN
    BY <1>7 DEF Button
  <2>2. /\ wasOn \subseteq wasOn' /\ \A q \in Plugs : device'[q].on => q \in wasOn'
        /\ EventsWereReal'
    BY <1>0, <2>1, SwitchReal
  <2>3. QED
    BY <1>7, <2>2, RealFrame DEF Button, busVars
<1>8. ASSUME NEW id \in ForeignIDs, ForeignMessage(id)
      PROVE  RealInv'
  <2>1. Send(id, "RESULT", DeviceWhen(TRUE)) /\ id \notin Plugs /\ "RESULT" \in MessageFormats
    BY <1>8, ManagerAssumption DEF ForeignMessage, MessageFormats
  <2>2. UNCHANGED <<busVars, device, states, copy, call, wasOn>>
    BY <1>8 DEF ForeignMessage
  <2>3. EventsWereReal'
    BY <1>0, <2>1, <2>2, SendReal
  <2>4. QED
    BY <1>0, <2>2, <2>3, RealFrame DEF busVars, PlugsWereReal
<1>9. ASSUME NEW p \in Plugs, NEW format \in Periodic, Telemetry(p, format)
      PROVE  RealInv'
  <2>1. Send(p, format, device[p]) /\ format \in MessageFormats
        /\ device[p] \in {DeviceWhen(FALSE), DeviceWhen(TRUE)}
    BY <1>0, <1>9, ManagerAssumption DEF Telemetry, RestOK
  <2>2. UNCHANGED <<busVars, device, states, copy, call, wasOn>>
    BY <1>9 DEF Telemetry
  <2>3. wasOn \subseteq wasOn' /\ \A q \in Plugs : device[q].on => q \in wasOn'
    BY <1>0, <2>2 DEF PlugsWereReal
  <2>4. EventsWereReal'
    BY <1>0, <2>1, <2>3, SendReal
  <2>5. QED
    BY <1>0, <2>2, <2>3, <2>4, RealFrame DEF busVars, PlugsWereReal
<1>10. CASE UNCHANGED <<busVars, mgrVars>>
  BY <1>1, <1>10 DEF mgrVars
<1>11. QED
  BY <1>3, <1>4, <1>5, <1>6, <1>7, <1>8, <1>9, <1>10, CallStepReal, MergeReal, CopyReal
     DEF ManagerStep, Outside, Inside

(* The history only grows.                                                  *)
LEMMA WasOnGrows ==
  ASSUME ManagerTypeOK, ManagerStep \/ UNCHANGED <<busVars, mgrVars>>
  PROVE  wasOn \subseteq wasOn'
<1>1. wasOn \in SUBSET Plugs
  BY DEF ManagerTypeOK
<1>2. CASE wasOn' = wasOn
  BY <1>2
<1>3. ASSUME NEW p \in Plugs, NEW on, Switch(p, on)
      PROVE  wasOn \subseteq wasOn'
  BY <1>1, <1>3 DEF Switch
<1>4. QED
  BY <1>2, <1>3
     DEF ManagerStep, Outside, Inside, CallStep, Button, ForeignMessage, RefreshAll,
         GetStatus, Toggle, BeginCall, ProcessCommand, MergeEvent, PublishCopy, PowerDone,
         PowerFailed, StatusAnswer, StatusFailed, Apply, Telemetry, SendCommand, mgrVars

(* A plug published as on was on at some time, whatever fails, overtakes or is  *)
(* lost (manager.go:168-241): to have asked for it is not enough.  Of a plug    *)
(* published as off nothing is said.                                        *)
THEOREM OnlyRealOnIsPublished == ManagerSpec => []PublishedOnWasReal
<1>1. ManagerTypeOK /\ RealInv /\ [ManagerNext]_<<busVars, mgrVars>> => RealInv'
  BY RealStep, NextIsStep
<1>2. RealInv => PublishedOnWasReal
  BY DEF RealInv
<1>3. QED
  BY <1>1, <1>2, RealInit, ManagerTyping, PTL DEF ManagerSpec
==============================================================================
