------------------------------ MODULE StateMerge ------------------------------
(***************************************************************************)
(* One plug, the messages and replies it sends, and what the manager makes  *)
(* of them.  The plug is not part of the repository: it changes by itself   *)
(* and describes itself in one of the formats that mqtt.go and GetStatus     *)
(* look for.  Messages are handled one at a time and in order here: the      *)
(* question is only whether the functions of PlugState keep, for every       *)
(* field, what the plug said of it last.                                    *)
(***************************************************************************)
EXTENDS Tasmota

CONSTANTS
  Formats,      \* the formats of MQTT message the plug sends
  ReplyFormats  \* the formats of reply to "Status 0" the plug gives

ASSUME FormatAssumption == Formats \subseteq MessageFormats /\ ReplyFormats \subseteq StatusFormats

VARIABLES
  device,    \* what the plug really is: on and its readings
  state,     \* what the manager holds: pm.states[id]
  reported,  \* history: the last value the plug reported of each field
  heard      \* history: has an MQTT message of the plug been understood

vars == <<device, state, reported, heard>>

------------------------------------------------------------------------------
Init == /\ device = [on |-> FALSE, energy |-> NoReadings]
        /\ state = InitialState
        /\ reported = device
        /\ heard = FALSE

(* A button is pressed, or the load changes.                                *)
Change == /\ \E d \in Device : d # device /\ device' = d
          /\ UNCHANGED <<state, reported, heard>>

(* The broker hands a message to the hook; a payload that is no JSON returns *)
(* early, any other one becomes an event that ProcessStateEvents merges.     *)
Message(format, S) ==
  LET msg == Encode(format, device, S)
  IN /\ state' = IF msg.json THEN Merge(state, OnPublish("plug", msg)) ELSE state
     /\ reported' = [on |-> IF ReportsPower(format) THEN device.on ELSE reported.on,
                     energy |-> [r \in Readings |->
                        IF r \in ReportsReadings(format, S) THEN device.energy[r]
                                                            ELSE reported.energy[r]]]
     /\ heard' = (heard \/ msg.json)
     /\ UNCHANGED device

(* GetStatus asks, and the plug answers.                                    *)
Query(format) ==
  /\ state' = ApplyStatus(state, EncodeReply(format, device))
  /\ reported' = CASE format \in {"StatusSTS", "Status"} -> device
                   [] format \in {"POWER", "fallback"} -> [reported EXCEPT !.on = device.on]
                   [] format \in {"mistyped", "error"} -> reported
  /\ UNCHANGED <<device, heard>>

Next == \/ Change
        \/ \E format \in Formats, S \in SUBSET Readings : Message(format, S)
        \/ \E format \in ReplyFormats : Query(format)

Spec == Init /\ [][Next]_vars

------------------------------------------------------------------------------
TypeOK == /\ device \in Device /\ state \in State
          /\ reported \in Device /\ heard \in BOOLEAN

(* The manager holds, for on, the last value the plug reported over either  *)
(* transport and in any format, however messages without that field are     *)
(* mixed in (the field lists of mqtt.go, merged at manager.go:305-342).      *)
PowerIsLastReported == state.on = reported.on

(* The same for every electrical reading: "Selective update based on what   *)
(* changed" (manager.go:306).                                               *)
ReadingsAreLastReported == state.energy = reported.energy

(* A plug counts as seen, and as connected to MQTT, exactly when a message   *)
(* of its own was understood; an HTTP reply never counts.  The monitor tells *)
(* "reachable over HTTP but not over MQTT" by it (manager.go:415-448).       *)
SeenOnlyThroughMQTT == (state.seen <=> heard) /\ (state.connected <=> heard)
==============================================================================
