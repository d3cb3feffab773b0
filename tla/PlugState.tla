------------------------------ MODULE PlugState ------------------------------
(***************************************************************************)
(* The data of one plug and the functions of the program that transform it. *)
(*                                                                         *)
(*   State              plugs/types.go, State: what the manager knows       *)
(*   OnPublish          mqtt.go: an MQTT message becomes a change event     *)
(*   Merge              plugs/manager.go, ProcessStateEvents: event applied *)
(*   ApplyStatus        plugs/manager.go, GetStatus: HTTP reply applied     *)
(*   Equals             events/types.go: when two updates are duplicates    *)
(*                                                                         *)
(* Times are abstracted to what the program asks of them here: LastSeen to  *)
(* whether it is the zero time.  A reading is an integer, in a fraction of   *)
(* its unit so fine that the tolerance 0.001 of almostEqual is Eps of them.  *)
(***************************************************************************)
EXTENDS Integers, Sequences

CONSTANTS
  Plugs,      \* the plug IDs of the configuration file
  Readings,   \* the electrical readings: Power, Voltage, Current, Energy
  Values,     \* the values a reading can take
  Eps         \* the tolerance of almostEqual

ASSUME ReadingAssumption == /\ Values \subseteq Int
                            /\ 0 \in Values
                            /\ Eps \in Nat \ {0}

(* The other fields of a State that an event names.                         *)
ASSUME FieldAssumption == Readings \cap {"On", "MQTTConnected", "LastSeen"} = {}

(* A word of a JSON message that says whether the plug is on; "" when the   *)
(* key is missing or does not hold a string, which OnPublish tells from an  *)
(* empty string at the top of the message ("absent").                       *)
PowerWord == {"", "ON", "OFF"}

(* Readings that a message carries; the ones it lacks are not in the domain. *)
PartialReadings == UNION {[S -> Values] : S \in SUBSET Readings}

(* plugs.State: on, the four readings, MQTTConnected and LastSeen # 0.      *)
State == [on : BOOLEAN, energy : [Readings -> Values],
          connected : BOOLEAN, seen : BOOLEAN]

NoReadings == [r \in Readings |-> 0]

(* The state NewManager gives every plug before anything is known of it.    *)
InitialState == [on |-> FALSE, energy |-> NoReadings,
                 connected |-> FALSE, seen |-> FALSE]

------------------------------------------------------------------------------
(* events/types.go: two updates of one plug that would be shown the same.   *)
(* Whether their recorded times also agree is left to the caller.           *)
AlmostEqual(a, b) == IF a > b THEN a - b < Eps ELSE b - a < Eps

Equals(e, other) ==
  /\ e.on = other.on
  /\ \A r \in Readings : AlmostEqual(e.energy[r], other.energy[r])
  /\ e.connected = other.connected
  /\ e.seen = other.seen

------------------------------------------------------------------------------
(* An MQTT payload by what OnPublish looks up in it: is it JSON at all, the *)
(* POWER word at the top and under StatusSTS, and the ENERGY entry at the   *)
(* top and under StatusSNS: missing, present but no object, or an object    *)
(* with some of the readings.                                               *)
EnergyEntry == [kind : {"missing", "notObject"}, values : {<<>>}]
                 \cup [kind : {"object"}, values : PartialReadings]

Payload == [json : BOOLEAN, power : PowerWord \cup {"absent"}, stsPower : PowerWord,
            energy : EnergyEntry, snsEnergy : EnergyEntry]

(* Mutant: the POWER word under StatusSTS is not looked at.                 *)
PowerStateTopOnly(msg) == IF msg.power # "absent" THEN msg.power ELSE ""

(* msg["POWER"] when it is a string, else msg["StatusSTS"]["POWER"].        *)
PowerState(msg) == IF msg.power # "absent" THEN msg.power ELSE msg.stsPower

(* Mutant: the ENERGY object under StatusSNS is not looked at.              *)
EnergyObjectTopOnly(msg) ==
  IF msg.energy.kind = "object" THEN msg.energy.values ELSE <<>>

(* The ENERGY object the readings are taken from: an entry at the top that   *)
(* is no object falls through to the one under StatusSNS.                   *)
EnergyObject(msg) ==
  IF msg.energy.kind = "object" THEN msg.energy.values
  ELSE IF msg.snsEnergy.kind = "object" THEN msg.snsEnergy.values
  ELSE <<>>

(* The readings are announced as updated when an ENERGY key is there at all. *)
EnergyAnnounced(msg) == msg.energy.kind # "missing" \/ msg.snsEnergy.kind # "missing"

(* Mutant: the connectivity fields go only with a power state.             *)
UpdatedFieldsWithPower(msg) ==
  {f \in {"On", "MQTTConnected", "LastSeen"} : PowerState(msg) # ""}
    \cup {r \in Readings : EnergyAnnounced(msg)}

(* The fields named in UpdatedFields.                                       *)
UpdatedFields(msg) ==
  {f \in {"On"} : PowerState(msg) # ""}
    \cup {r \in Readings : EnergyAnnounced(msg)}
    \cup {"MQTTConnected", "LastSeen"}

(* The partial state of the event: a reading the message lacks is zero.     *)
PartialState(msg) ==
  [on |-> PowerState(msg) = "ON",
   energy |-> [r \in Readings |->
                 IF r \in DOMAIN EnergyObject(msg) THEN EnergyObject(msg)[r] ELSE 0],
   connected |-> TRUE, seen |-> TRUE]

(* The event OnPublish puts on the bus for plug id, when the payload parses; *)
(* updated: its LastUpdated is set.                                        *)
OnPublish(id, msg) ==
  [plug |-> id, state |-> PartialState(msg), updated |-> TRUE, fields |-> UpdatedFields(msg)]

(* Mutant: readings are added up where they should replace each other.       *)
MergeAdding(state, event) ==
  [on |-> IF "On" \in event.fields THEN event.state.on ELSE state.on,
   energy |-> [r \in Readings |->
                 IF r \in event.fields THEN state.energy[r] + event.state.energy[r]
                                       ELSE state.energy[r]],
   connected |-> TRUE, seen |-> TRUE]

(* What ProcessStateEvents makes of it.  An event that names no field is a  *)
(* legacy one: connectivity comes with LastSeen, and all the rest with       *)
(* LastUpdated.                                                            *)
Merge(state, event) ==
  IF event.fields # {}
  THEN [on |-> IF "On" \in event.fields THEN event.state.on ELSE state.on,
        energy |-> [r \in Readings |->
                      IF r \in event.fields THEN event.state.energy[r]
                                            ELSE state.energy[r]],
        connected |-> IF "MQTTConnected" \in event.fields
                      THEN event.state.connected ELSE state.connected,
        seen |-> IF "LastSeen" \in event.fields THEN event.state.seen ELSE state.seen]
  ELSE [on |-> IF event.updated THEN event.state.on ELSE state.on,
        energy |-> IF event.updated THEN event.state.energy ELSE state.energy,
        connected |-> IF event.state.seen THEN event.state.connected ELSE state.connected,
        seen |-> event.state.seen \/ state.seen]

------------------------------------------------------------------------------
(* The body of a reply to "Status 0", by what GetStatus makes of it:        *)
(*   "status"    it fits statusResp (keys it lacks count as zero values)    *)
(*   "mistyped"  JSON that does not fit statusResp but fits altResp         *)
(*   "garbage"   neither                                                    *)
(* sts is StatusSTS.POWER, power is Status.Power, alt the POWER at the top. *)
Reply == [form : {"status", "mistyped", "garbage"}, sts : PowerWord,
          power : {0, 1}, alt : PowerWord, energy : [Readings -> Values]]

StatusOn(reply) == IF reply.sts # "" THEN reply.sts = "ON" ELSE reply.power = 1

(* The state after the reply, under pm.mu.  Only a "status" reply is then   *)
(* published, and "garbage" is the error return.                            *)
ApplyStatus(state, reply) ==
  CASE reply.form = "status"   -> [state EXCEPT !.on = StatusOn(reply),
                                                !.energy = reply.energy]
    [] reply.form = "mistyped" -> [state EXCEPT !.on = (reply.alt = "ON")]
    [] reply.form = "garbage"  -> state
==============================================================================
