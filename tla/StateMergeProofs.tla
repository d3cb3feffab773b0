--------------------------- MODULE StateMergeProofs ---------------------------
(***************************************************************************)
(* Theorems about what the manager makes of the messages and replies of a    *)
(* plug, for every set of readings and values and any order of messages.     *)
(***************************************************************************)
EXTENDS StateMerge, TLAPS

(* The formats by what they say of the readings.                             *)
Full == {"SENSOR", "STATUS10", "TELEMETRY"}

LEMMA NoReadingsType == NoReadings \in [Readings -> Values]
BY ReadingAssumption DEF NoReadings

LEMMA WordSaysOn ==
  ASSUME NEW on \in BOOLEAN
  PROVE  (Word(on) = "ON") = on /\ Word(on) # "" /\ Word(on) # "absent"
BY DEF Word

(* How OnPublish reads a payload whose entries are known.                    *)
LEMMA PayloadRead ==
  ASSUME NEW msg
  PROVE  /\ msg.power # "absent" => PowerState(msg) = msg.power
         /\ msg.power = "absent" => PowerState(msg) = msg.stsPower
         /\ msg.energy = Missing /\ msg.snsEnergy = Missing => ~EnergyAnnounced(msg)
         /\ \A values : msg.energy = Object(values)
               => EnergyAnnounced(msg) /\ EnergyObject(msg) = values
         /\ \A values : msg.energy = Missing /\ msg.snsEnergy = Object(values)
               => EnergyAnnounced(msg) /\ EnergyObject(msg) = values
<1>1. Missing.kind = "missing"
  BY DEF Missing
<1>2. \A values : Object(values).kind = "object" /\ Object(values).values = values
  BY DEF Object
<1>3. "object" # "missing"
  OBVIOUS
<1>4. /\ msg.power # "absent" => PowerState(msg) = msg.power
      /\ msg.power = "absent" => PowerState(msg) = msg.stsPower
  BY Zenon DEF PowerState
<1>5. msg.energy = Missing /\ msg.snsEnergy = Missing => ~EnergyAnnounced(msg)
  BY <1>1 DEF EnergyAnnounced
<1>6. ASSUME NEW values, msg.energy = Object(values)
      PROVE  EnergyAnnounced(msg) /\ EnergyObject(msg) = values
  BY <1>2, <1>3, <1>6 DEF EnergyAnnounced, EnergyObject
<1>7. ASSUME NEW values, msg.energy = Missing, msg.snsEnergy = Object(values)
      PROVE  EnergyAnnounced(msg) /\ EnergyObject(msg) = values
  BY <1>1, <1>2, <1>3, <1>7 DEF EnergyAnnounced, EnergyObject
<1>8. QED
  BY <1>4, <1>5, <1>6, <1>7

(* What it finds in a message of each format.                                *)
Contents(msg, format, d, S) ==
  /\ msg.json <=> format # "LWT"
  /\ ReportsPower(format) => PowerState(msg) = Word(d.on)
  /\ ~ReportsPower(format) => PowerState(msg) = ""
  /\ EnergyAnnounced(msg) <=> format \in Full \cup {"PARTIAL"}
  /\ format \in Full => EnergyObject(msg) = d.energy
  /\ format = "PARTIAL" => EnergyObject(msg) = [r \in S |-> d.energy[r]]

LEMMA MessageContents ==
  ASSUME NEW format \in MessageFormats, NEW d \in Device, NEW S \in SUBSET Readings,
         NEW msg, msg = Encode(format, d, S)
  PROVE  Contents(msg, format, d, S)
<1> USE DEF Contents
<1>0. Word(d.on) # "absent"
  BY WordSaysOn DEF Device
<1>1. CASE format \in {"RESULT", "STATE"}
  <2>1. msg = [Empty EXCEPT !.power = Word(d.on)]
    BY <1>1 DEF Encode
  <2>2. msg.json = TRUE /\ msg.power = Word(d.on) /\ msg.energy = Missing /\ msg.snsEnergy = Missing
    BY <2>1 DEF Empty
  <2>3. PowerState(msg) = Word(d.on) /\ ~EnergyAnnounced(msg)
    BY <1>0, <2>2, PayloadRead
  <2>4. QED
    BY <1>1, <2>2, <2>3 DEF ReportsPower, Full
<1>2. CASE format = "SENSOR"
  <2>1. msg = [Empty EXCEPT !.energy = Object(d.energy)]
    BY <1>2 DEF Encode
  <2>2. /\ msg.json = TRUE /\ msg.power = "absent" /\ msg.stsPower = ""
        /\ msg.energy = Object(d.energy)
    BY <2>1 DEF Empty
  <2>3. PowerState(msg) = "" /\ EnergyAnnounced(msg) /\ EnergyObject(msg) = d.energy
    BY <1>0, <2>2, PayloadRead
  <2>4. QED
    BY <1>2, <2>2, <2>3 DEF ReportsPower, Full
<1>3. CASE format = "STATUS10"
  <2>1. msg = [Empty EXCEPT !.snsEnergy = Object(d.energy)]
    BY <1>3 DEF Encode
  <2>2. /\ msg.json = TRUE /\ msg.power = "absent" /\ msg.stsPower = ""
        /\ msg.energy = Missing /\ msg.snsEnergy = Object(d.energy)
    BY <2>1 DEF Empty
  <2>3. PowerState(msg) = "" /\ EnergyAnnounced(msg) /\ EnergyObject(msg) = d.energy
    BY <1>0, <2>2, PayloadRead
  <2>4. QED
    BY <1>3, <2>2, <2>3 DEF ReportsPower, Full
<1>4. CASE format = "STATUS11"
  <2>1. msg = [Empty EXCEPT !.stsPower = Word(d.on)]
    BY <1>4 DEF Encode
  <2>2. /\ msg.json = TRUE /\ msg.power = "absent" /\ msg.stsPower = Word(d.on)
        /\ msg.energy = Missing /\ msg.snsEnergy = Missing
    BY <2>1 DEF Empty
  <2>3. PowerState(msg) = Word(d.on) /\ ~EnergyAnnounced(msg)
    BY <1>0, <2>2, PayloadRead
  <2>4. QED
    BY <1>4, <2>2, <2>3 DEF ReportsPower, Full
<1>5. CASE format = "TELEMETRY"
  <2>1. msg = [Empty EXCEPT !.power = Word(d.on), !.energy = Object(d.energy)]
    BY <1>5 DEF Encode
  <2>2. msg.json = TRUE /\ msg.power = Word(d.on) /\ msg.energy = Object(d.energy)
    BY <2>1 DEF Empty
  <2>3. PowerState(msg) = Word(d.on) /\ EnergyAnnounced(msg) /\ EnergyObject(msg) = d.energy
    BY <1>0, <2>2, PayloadRead
  <2>4. QED
    BY <1>5, <2>2, <2>3 DEF ReportsPower, Full
<1>6. CASE format = "PARTIAL"
  <2>1. msg = [Empty EXCEPT !.energy = Object([r \in S |-> d.energy[r]])]
    BY <1>6 DEF Encode
  <2>2. /\ msg.json = TRUE /\ msg.power = "absent" /\ msg.stsPower = ""
        /\ msg.energy = Object([r \in S |-> d.energy[r]])
    BY <2>1 DEF Empty
  <2>3. PowerState(msg) = "" /\ EnergyAnnounced(msg) /\ EnergyObject(msg) = [r \in S |-> d.energy[r]]
    BY <1>0, <2>2, PayloadRead
  <2>4. QED
    BY <1>6, <2>2, <2>3 DEF ReportsPower, Full
<1>7. CASE format = "LWT"
  <2>1. msg = [Empty EXCEPT !.json = FALSE]
    BY <1>7 DEF Encode
  <2>2. /\ msg.json = FALSE /\ msg.power = "absent" /\ msg.stsPower = ""
        /\ msg.energy = Missing /\ msg.snsEnergy = Missing
    BY <2>1 DEF Empty
  <2>3. PowerState(msg) = "" /\ ~EnergyAnnounced(msg)
    BY <1>0, <2>2, PayloadRead
  <2>4. QED
    BY <1>7, <2>2, <2>3 DEF ReportsPower, Full
<1>8. QED
  BY <1>1, <1>2, <1>3, <1>4, <1>5, <1>6, <1>7 DEF MessageFormats

(* What ProcessStateEvents makes of such a message: the fields it names are   *)
(* replaced by what the plug is, the others kept.                           *)
Updated(merged, format, d, st) ==
  /\ merged \in State
  /\ ReportsPower(format) => merged.on = d.on
  /\ ~ReportsPower(format) => merged.on = st.on
  /\ format \in Full => merged.energy = d.energy
  /\ format \notin Full \cup {"PARTIAL"} => merged.energy = st.energy
  /\ merged.seen = TRUE /\ merged.connected = TRUE

LEMMA MergedMessage ==
  ASSUME NEW format \in MessageFormats, format # "LWT", NEW d \in Device,
         NEW S \in SUBSET Readings, NEW msg, msg = Encode(format, d, S),
         NEW st \in State, NEW merged, merged = Merge(st, OnPublish("plug", msg))
  PROVE  Updated(merged, format, d, st)
<1> USE DEF Updated
<1> DEFINE event == OnPublish("plug", msg)
<1>0. Contents(msg, format, d, S)
  BY MessageContents
<1>1. /\ ReportsPower(format) => PowerState(msg) = Word(d.on)
      /\ ~ReportsPower(format) => PowerState(msg) = ""
      /\ EnergyAnnounced(msg) <=> format \in Full \cup {"PARTIAL"}
      /\ format \in Full => EnergyObject(msg) = d.energy
      /\ format = "PARTIAL" => EnergyObject(msg) = [r \in S |-> d.energy[r]]
  BY <1>0 DEF Contents
<1>2. /\ d.on \in BOOLEAN /\ d.energy \in [Readings -> Values]
      /\ st.on \in BOOLEAN /\ st.energy \in [Readings -> Values]
  BY DEF Device, State
<1>3. /\ event.state = PartialState(msg) /\ event.fields = UpdatedFields(msg)
      /\ event.state.seen = TRUE /\ event.state.connected = TRUE
  BY <1>1 DEF OnPublish, PartialState
<1>4. /\ "LastSeen" \in event.fields /\ "MQTTConnected" \in event.fields
      /\ event.fields # {}
      /\ "On" \in event.fields <=> PowerState(msg) # ""
      /\ \A r \in Readings : r \in event.fields <=> EnergyAnnounced(msg)
  BY <1>3, FieldAssumption DEF UpdatedFields
<1> HIDE DEF event
<1>5. merged = [on |-> IF "On" \in event.fields THEN event.state.on ELSE st.on,
                energy |-> [r \in Readings |-> IF r \in event.fields THEN event.state.energy[r]
                                                                    ELSE st.energy[r]],
                connected |-> TRUE, seen |-> TRUE]
  BY <1>3, <1>4 DEF Merge, event
<1>6. merged.on = IF ReportsPower(format) THEN d.on ELSE st.on
  <2>1. event.state.on = (PowerState(msg) = "ON")
    BY <1>3 DEF PartialState
  <2>2. CASE ReportsPower(format)
    <3>1. PowerState(msg) = Word(d.on)
      BY <1>1, <2>2
    <3>2. "On" \in event.fields /\ event.state.on = d.on
      BY <1>2, <1>4, <2>1, <3>1, WordSaysOn
    <3>3. QED
      BY <1>5, <2>2, <3>2
  <2>3. CASE ~ReportsPower(format)
    <3>1. PowerState(msg) = ""
      BY <1>1, <2>3
    <3>2. "On" \notin event.fields
      BY <1>4, <3>1
    <3>3. QED
      BY <1>5, <2>3, <3>2
  <2>4. QED
    BY <2>2, <2>3
<1>7. event.state.energy = [r \in Readings |-> IF r \in DOMAIN EnergyObject(msg)
                                                THEN EnergyObject(msg)[r] ELSE 0]
  BY <1>3 DEF PartialState
<1>8. ASSUME format \in Full
      PROVE  merged.energy = d.energy
  <2>1. \A r \in Readings : r \in event.fields /\ event.state.energy[r] = d.energy[r]
    BY <1>1, <1>2, <1>4, <1>7, <1>8
  <2>2. merged.energy = [r \in Readings |-> d.energy[r]]
    BY <1>5, <2>1
  <2>3. QED
    BY <1>2, <2>2
<1>9. ASSUME format \notin Full \cup {"PARTIAL"}
      PROVE  merged.energy = st.energy
  <2>1. \A r \in Readings : r \notin event.fields
    BY <1>1, <1>4, <1>9
  <2>2. merged.energy = [r \in Readings |-> st.energy[r]]
    BY <1>5, <2>1
  <2>3. QED
    BY <1>2, <2>2
<1>10. merged.energy \in [Readings -> Values]
  <2>1. CASE format = "PARTIAL"
    <3>1. EnergyObject(msg) = [r \in S |-> d.energy[r]]
      BY <1>1, <2>1
    <3>2. \A r \in Readings : event.state.energy[r] \in Values
      BY <1>2, <1>7, <3>1, ReadingAssumption
    <3>3. QED
      BY <1>2, <1>5, <3>2
  <2>2. QED
    BY <1>2, <1>8, <1>9, <2>1
<1>11. merged \in State
  <2>1. merged.on \in BOOLEAN
    BY <1>2, <1>6
  <2>2. \A on \in BOOLEAN, energy \in [Readings -> Values] :
          [on |-> on, energy |-> energy, connected |-> TRUE, seen |-> TRUE] \in State
    BY DEF State
  <2>3. QED
    BY <1>5, <1>10, <2>1, <2>2
<1>12. QED
  BY <1>5, <1>6, <1>8, <1>9, <1>11
(* What GetStatus makes of a reply: the reply's power state and readings, where *)
(* it has them, and never anything of the MQTT connection.                  *)
LEMMA ReplyApplied ==
  ASSUME NEW format \in StatusFormats, NEW d \in Device, NEW st \in State,
         NEW next, next = ApplyStatus(st, EncodeReply(format, d))
  PROVE  /\ next \in State
         /\ next.seen = st.seen /\ next.connected = st.connected
         /\ format \in {"StatusSTS", "Status"} => next.on = d.on /\ next.energy = d.energy
         /\ format = "fallback" => next.on = d.on /\ next.energy = st.energy
         /\ format = "mistyped" => next.energy = st.energy
         /\ format = "error" => next = st
<1> DEFINE Applied(on, energy) == [st EXCEPT !.on = on, !.energy = energy]
<1>0. /\ d.on \in BOOLEAN /\ d.energy \in [Readings -> Values]
      /\ st.energy \in [Readings -> Values]
  BY DEF Device, State
<1>1. (Word(d.on) = "ON") = d.on /\ Word(d.on) # ""
  BY <1>0, WordSaysOn
<1>2. ASSUME NEW on \in BOOLEAN, NEW energy \in [Readings -> Values]
      PROVE  /\ Applied(on, energy) \in State
             /\ Applied(on, energy).on = on /\ Applied(on, energy).energy = energy
             /\ Applied(on, energy).seen = st.seen
             /\ Applied(on, energy).connected = st.connected
  BY DEF State
<1>3. ASSUME NEW reply, reply.form = "status"
      PROVE  ApplyStatus(st, reply) = Applied(StatusOn(reply), reply.energy)
  BY <1>3 DEF ApplyStatus
<1> HIDE DEF Applied
<1>4. CASE format = "StatusSTS"
  <2>1. PICK reply : reply = EncodeReply(format, d)
    OBVIOUS
  <2>2. reply.form = "status" /\ reply.sts = Word(d.on) /\ reply.energy = d.energy
    BY <1>4, <2>1 DEF EncodeReply
  <2>3. StatusOn(reply) = d.on
    BY <1>1, <2>2 DEF StatusOn
  <2>4. next = Applied(d.on, d.energy)
    BY <1>3, <2>1, <2>2, <2>3
  <2>5. QED
    BY <1>0, <1>2, <1>4, <2>4
<1>5. CASE format = "Status"
  <2>1. PICK reply : reply = EncodeReply(format, d)
    OBVIOUS
  <2>2. reply.form = "status" /\ reply.sts = "" /\ reply.energy = d.energy
    BY <1>5, <2>1 DEF EncodeReply
  <2>3. reply.power = IF d.on THEN 1 ELSE 0
    BY <1>5, <2>1 DEF EncodeReply
  <2>4. (reply.power = 1) = d.on
    <3>1. reply.power = 1 <=> d.on
      BY ONLY <2>3
    <3>2. QED
      BY <1>0, <3>1, Zenon
  <2>5. StatusOn(reply) = d.on
    BY <2>2, <2>4 DEF StatusOn
  <2>6. next = Applied(d.on, d.energy)
    BY <1>3, <2>1, <2>2, <2>5
  <2>7. QED
    BY <1>0, <1>2, <1>5, <2>6
<1>6. CASE format = "POWER"
  <2>1. PICK reply : reply = EncodeReply(format, d)
    OBVIOUS
  <2>2. reply.form = "status" /\ reply.sts = "" /\ reply.energy = NoReadings
    BY <1>6, <2>1 DEF EncodeReply
  <2>3. StatusOn(reply) \in BOOLEAN
    BY <2>2 DEF StatusOn
  <2>4. next = Applied(StatusOn(reply), NoReadings)
    BY <1>3, <2>1, <2>2
  <2>5. QED
    BY <1>2, <1>6, <2>3, <2>4, NoReadingsType
<1>7. CASE format = "fallback"
  <2>1. PICK reply : reply = EncodeReply(format, d)
    OBVIOUS
  <2>2. reply.form = "mistyped" /\ reply.alt = Word(d.on)
    BY <1>7, <2>1 DEF EncodeReply
  <2>3. ApplyStatus(st, reply) = [st EXCEPT !.on = (reply.alt = "ON")]
    BY <2>2 DEF ApplyStatus
  <2>4. next = [st EXCEPT !.on = d.on]
    BY <1>1, <2>1, <2>2, <2>3
  <2>5. QED
    BY <1>0, <1>7, <2>4 DEF State
<1>8. CASE format = "error"
  <2>1. PICK reply : reply = EncodeReply(format, d)
    OBVIOUS
  <2>2. reply.form = "garbage"
    BY <1>8, <2>1 DEF EncodeReply
  <2>3. next = st
    BY <2>1, <2>2 DEF ApplyStatus
  <2>4. QED
    BY <1>8, <2>3
<1>9. CASE format = "mistyped"
  <2>1. PICK reply : reply = EncodeReply(format, d)
    OBVIOUS
  <2>2. reply.form = "mistyped" /\ reply.alt = ""
    BY <1>9, <2>1 DEF EncodeReply
  <2>3. ApplyStatus(st, reply) = [st EXCEPT !.on = (reply.alt = "ON")]
    BY <2>2 DEF ApplyStatus
  <2>4. next = [st EXCEPT !.on = FALSE]
    BY <2>1, <2>2, <2>3
  <2>5. QED
    BY <1>9, <2>4 DEF State
<1>10. QED
  BY <1>4, <1>5, <1>6, <1>7, <1>8, <1>9 DEF StatusFormats

------------------------------------------------------------------------------
(* Every message or reply of a well-typed plug gives a well-typed state, and   *)
(* only a message that is JSON tells of the MQTT connection.                 *)
Typed == TypeOK /\ SeenOnlyThroughMQTT

LEMMA InitTyped == Init => Typed
<1> SUFFICES ASSUME Init PROVE Typed
  OBVIOUS
<1>1. device = [on |-> FALSE, energy |-> NoReadings] /\ reported = device
      /\ heard = FALSE /\ state = InitialState
  BY DEF Init
<1>2. device \in Device /\ reported \in Device /\ state \in State
  BY <1>1, NoReadingsType DEF Device, State, InitialState
<1>3. QED
  BY <1>1, <1>2 DEF Typed, TypeOK, SeenOnlyThroughMQTT, InitialState

LEMMA MessageTyped ==
  ASSUME Typed, NEW format \in Formats, NEW S \in SUBSET Readings, Message(format, S)
  PROVE  Typed'
<1>1. PICK msg : msg = Encode(format, device, S)
  OBVIOUS
<1>2. /\ format \in MessageFormats /\ device \in Device /\ state \in State
      /\ Contents(msg, format, device, S)
  BY <1>1, FormatAssumption, MessageContents DEF Typed, TypeOK
<1>3. /\ state' = IF msg.json THEN Merge(state, OnPublish("plug", msg)) ELSE state
      /\ heard' = (heard \/ msg.json) /\ device' = device
      /\ msg.json <=> format # "LWT"
  BY <1>1, <1>2 DEF Message, Contents
<1>4. reported' \in Device
  <2>1. /\ reported'.on = IF ReportsPower(format) THEN device.on ELSE reported.on
        /\ reported' = [on |-> reported'.on, energy |-> reported'.energy]
        /\ reported'.energy = [r \in Readings |->
              IF r \in ReportsReadings(format, S) THEN device.energy[r] ELSE reported.energy[r]]
    BY DEF Message
  <2>2. reported'.on \in BOOLEAN /\ reported'.energy \in [Readings -> Values]
    BY <2>1 DEF Typed, TypeOK, Device
  <2>3. QED
    BY <2>1, <2>2 DEF Device
<1>5. CASE format = "LWT"
  BY <1>3, <1>4, <1>5 DEF Typed, TypeOK, SeenOnlyThroughMQTT
<1>6. CASE format # "LWT"
  <2>1. PICK merged : merged = Merge(state, OnPublish("plug", msg))
    OBVIOUS
  <2>2. Updated(merged, format, device, state)
    BY <1>1, <1>2, <1>6, <2>1, MergedMessage
  <2>3. state' = merged /\ heard' = TRUE
    BY <1>3, <1>6, <2>1
  <2>4. QED
    BY <1>3, <1>4, <2>2, <2>3 DEF Updated, Typed, TypeOK, SeenOnlyThroughMQTT
<1>7. QED
  BY <1>5, <1>6

LEMMA QueryTyped ==
  ASSUME Typed, NEW format \in ReplyFormats, Query(format)
  PROVE  Typed'
<1>1. /\ format \in StatusFormats /\ device \in Device /\ state \in State /\ reported \in Device
      /\ device' = device /\ heard' = heard
      /\ state' = ApplyStatus(state, EncodeReply(format, device))
  BY FormatAssumption DEF Typed, TypeOK, Query
<1>2. state' \in State /\ state'.seen = state.seen /\ state'.connected = state.connected
  BY <1>1, ReplyApplied
<1>3. reported' \in Device
  <2>1. [reported EXCEPT !.on = device.on] \in Device
    BY <1>1 DEF Device
  <2>2. reported' \in {device, reported, [reported EXCEPT !.on = device.on]}
    BY <1>1 DEF Query, StatusFormats
  <2>3. QED
    BY <1>1, <2>1, <2>2
<1>4. QED
  BY <1>1, <1>2, <1>3 DEF Typed, TypeOK, SeenOnlyThroughMQTT

LEMMA AlwaysTyped == Spec => []Typed
<1>1. Typed /\ [Next]_vars => Typed'
  <2> SUFFICES ASSUME Typed, [Next]_vars PROVE Typed'
    OBVIOUS
  <2>1. CASE Change
    BY <2>1 DEF Change, Typed, TypeOK, SeenOnlyThroughMQTT
  <2>2. CASE UNCHANGED vars
    BY <2>2 DEF vars, Typed, TypeOK, SeenOnlyThroughMQTT
  <2>3. QED
    BY <2>1, <2>2, MessageTyped, QueryTyped DEF Next
<1>2. QED
  BY <1>1, InitTyped, PTL DEF Spec

(* Whatever the plug sends, in any format, the state stays well typed.        *)
THEOREM MergeTyping == Spec => []TypeOK
<1>1. Typed => TypeOK
  BY DEF Typed
<1>2. QED
  BY <1>1, AlwaysTyped, PTL

(* The plug counts as seen exactly when a message of it was understood: no      *)
(* reply over HTTP, of any format, makes it look connected to MQTT.          *)
THEOREM SeenThroughMQTT == Spec => []SeenOnlyThroughMQTT
<1>1. Typed => SeenOnlyThroughMQTT
  BY DEF Typed
<1>2. QED
  BY <1>1, AlwaysTyped, PTL

------------------------------------------------------------------------------
(* What a message does to a field, and to the last value reported of it, is     *)
(* the same: the event names the field exactly when the message has it.       *)
LEMMA MessageFollows ==
  ASSUME Typed, NEW format \in Formats, NEW S \in SUBSET Readings, Message(format, S)
  PROVE  /\ PowerIsLastReported => PowerIsLastReported'
         /\ ReadingsAreLastReported /\ format # "PARTIAL" => ReadingsAreLastReported'
<1>1. PICK msg : msg = Encode(format, device, S)
  OBVIOUS
<1>2. /\ format \in MessageFormats /\ device \in Device /\ state \in State
      /\ reported \in Device /\ Contents(msg, format, device, S)
  BY <1>1, FormatAssumption, MessageContents DEF Typed, TypeOK
<1>3. /\ state' = IF msg.json THEN Merge(state, OnPublish("plug", msg)) ELSE state
      /\ reported'.on = IF ReportsPower(format) THEN device.on ELSE reported.on
      /\ reported'.energy = [r \in Readings |->
              IF r \in ReportsReadings(format, S) THEN device.energy[r] ELSE reported.energy[r]]
      /\ msg.json <=> format # "LWT"
  BY <1>1, <1>2 DEF Message, Contents
<1>4. /\ device.energy \in [Readings -> Values] /\ reported.energy \in [Readings -> Values]
  BY <1>2 DEF Device
<1>5. format # "PARTIAL" => reported'.energy = IF format \in Full THEN device.energy
                                                               ELSE reported.energy
  <2>1. format \in Full => ReportsReadings(format, S) = Readings
    BY DEF Full, ReportsReadings
  <2>2. format \notin Full /\ format # "PARTIAL" => ReportsReadings(format, S) = {}
    BY DEF Full, ReportsReadings
  <2>3. QED
    BY <1>3, <1>4, <2>1, <2>2
<1>6. CASE format = "LWT"
  <2>1. state' = state /\ ~ReportsPower(format) /\ format \notin Full
    BY <1>3, <1>6 DEF ReportsPower, Full
  <2>2. QED
    BY <1>3, <1>5, <2>1 DEF PowerIsLastReported, ReadingsAreLastReported
<1>7. CASE format # "LWT"
  <2>1. PICK merged : merged = Merge(state, OnPublish("plug", msg))
    OBVIOUS
  <2>2. Updated(merged, format, device, state)
    BY <1>1, <1>2, <1>7, <2>1, MergedMessage
  <2>3. state' = merged
    BY <1>3, <1>7, <2>1
  <2>4. QED
    BY <1>3, <1>5, <2>2, <2>3 DEF Updated, PowerIsLastReported, ReadingsAreLastReported
<1>8. QED
  BY <1>6, <1>7

(* And so a reply, but for one that has the power state only at the top and     *)
(* fits the structure GetStatus parses first, where it counts as off with      *)
(* readings of zero; and one that fits only the other and has no power state,  *)
(* which counts as off too.                                                 *)
LEMMA QueryFollows ==
  ASSUME Typed, NEW format \in ReplyFormats, format # "POWER", Query(format)
  PROVE  /\ PowerIsLastReported /\ format # "mistyped" => PowerIsLastReported'
         /\ ReadingsAreLastReported => ReadingsAreLastReported'
<1>1. /\ format \in StatusFormats /\ device \in Device /\ state \in State /\ reported \in Device
      /\ state' = ApplyStatus(state, EncodeReply(format, device))
  BY FormatAssumption DEF Typed, TypeOK, Query
<1>2. CASE format \in {"StatusSTS", "Status"}
  <2>1. reported' = device
    BY <1>2 DEF Query
  <2>2. state'.on = device.on /\ state'.energy = device.energy
    BY <1>1, <1>2, ReplyApplied
  <2>3. QED
    BY <2>1, <2>2 DEF PowerIsLastReported, ReadingsAreLastReported
<1>3. CASE format = "fallback"
  <2>1. reported' = [reported EXCEPT !.on = device.on]
    BY <1>3 DEF Query
  <2>2. reported'.on = device.on /\ reported'.energy = reported.energy
    BY <1>1, <2>1 DEF Device
  <2>3. state'.on = device.on /\ state'.energy = state.energy
    BY <1>1, <1>3, ReplyApplied
  <2>4. QED
    BY <2>2, <2>3 DEF PowerIsLastReported, ReadingsAreLastReported
<1>4. CASE format = "error"
  <2>1. reported' = reported
    BY <1>4 DEF Query
  <2>2. state' = state
    BY <1>1, <1>4, ReplyApplied
  <2>3. QED
    BY <2>1, <2>2 DEF PowerIsLastReported, ReadingsAreLastReported
<1>5. CASE format = "mistyped"
  <2>1. reported' = reported
    BY <1>5 DEF Query
  <2>2. state'.energy = state.energy
    BY <1>1, <1>5, ReplyApplied
  <2>3. QED
    BY <1>5, <2>1, <2>2 DEF ReadingsAreLastReported
<1>6. QED
  BY <1>1, <1>2, <1>3, <1>4, <1>5 DEF StatusFormats

LEMMA FollowsInit == Init => PowerIsLastReported /\ ReadingsAreLastReported
BY DEF Init, InitialState, PowerIsLastReported, ReadingsAreLastReported

(* A plug whose replies have the power state in its place: what the manager     *)
(* holds of it is always what the plug said last, however messages of every    *)
(* format, partial readings included, and replies are mixed.                 *)
THEOREM PowerFollowsReports ==
  ASSUME {"POWER", "mistyped"} \cap ReplyFormats = {}
  PROVE  Spec => []PowerIsLastReported
<1>1. Typed /\ PowerIsLastReported /\ [Next]_vars => PowerIsLastReported'
  <2> SUFFICES ASSUME Typed, PowerIsLastReported, [Next]_vars PROVE PowerIsLastReported'
    OBVIOUS
  <2>1. CASE Change \/ UNCHANGED vars
    BY <2>1 DEF Change, vars, PowerIsLastReported
  <2>2. QED
    BY <2>1, MessageFollows, QueryFollows DEF Next
<1>2. QED
  BY <1>1, FollowsInit, AlwaysTyped, PTL DEF Spec

(* And so each reading, of a plug whose ENERGY objects hold all readings: of    *)
(* one that lacks some, the event names them nonetheless, as zero.           *)
THEOREM ReadingsFollowReports ==
  ASSUME "POWER" \notin ReplyFormats, "PARTIAL" \notin Formats
  PROVE  Spec => []ReadingsAreLastReported
<1>1. Typed /\ ReadingsAreLastReported /\ [Next]_vars => ReadingsAreLastReported'
  <2> SUFFICES ASSUME Typed, ReadingsAreLastReported, [Next]_vars
               PROVE  ReadingsAreLastReported'
    OBVIOUS
  <2>1. CASE Change \/ UNCHANGED vars
    BY <2>1 DEF Change, vars, ReadingsAreLastReported
  <2>2. QED
    BY <2>1, MessageFollows, QueryFollows DEF Next
<1>2. QED
  BY <1>1, FollowsInit, AlwaysTyped, PTL DEF Spec

==============================================================================
