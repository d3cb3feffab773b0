-------------------------------- MODULE Tasmota --------------------------------
(***************************************************************************)
(* The plug itself, which is not part of the repository: what it is, and     *)
(* how it describes itself in the MQTT messages and the HTTP replies that    *)
(* mqtt.go and GetStatus look for.  The formats are the ones the code and    *)
(* its tests name: stat/.../RESULT, tele/.../STATE and SENSOR, the replies   *)
(* STATUS10 and STATUS11 to a Status command, a last-will message.          *)
(***************************************************************************)
EXTENDS PlugState

MessageFormats == {"RESULT", "STATE", "SENSOR", "STATUS10", "STATUS11",
                   "TELEMETRY", "LWT", "PARTIAL"}
StatusFormats == {"StatusSTS", "Status", "POWER", "fallback", "mistyped", "error"}

Device == [on : BOOLEAN, energy : [Readings -> Values]]

Word(on) == IF on THEN "ON" ELSE "OFF"

Missing == [kind |-> "missing", values |-> <<>>]
Object(values) == [kind |-> "object", values |-> values]

Empty == [json |-> TRUE, power |-> "absent", stsPower |-> "",
          energy |-> Missing, snsEnergy |-> Missing]

(* The MQTT message of each format, S the readings a partial one carries.   *)
Encode(format, d, S) ==
  CASE format \in {"RESULT", "STATE"} -> [Empty EXCEPT !.power = Word(d.on)]
    [] format = "SENSOR"    -> [Empty EXCEPT !.energy = Object(d.energy)]
    [] format = "STATUS10"  -> [Empty EXCEPT !.snsEnergy = Object(d.energy)]
    [] format = "STATUS11"  -> [Empty EXCEPT !.stsPower = Word(d.on)]
    [] format = "TELEMETRY" -> [Empty EXCEPT !.power = Word(d.on),
                                             !.energy = Object(d.energy)]
    [] format = "PARTIAL"   -> [Empty EXCEPT !.energy =
                                  Object([r \in S |-> d.energy[r]])]
    [] format = "LWT"       -> [Empty EXCEPT !.json = FALSE]

(* What each format reports: the power state, and the readings in the set.  *)
ReportsPower(format) == format \in {"RESULT", "STATE", "STATUS11", "TELEMETRY"}
ReportsReadings(format, S) ==
  IF format \in {"SENSOR", "STATUS10", "TELEMETRY"} THEN Readings
  ELSE IF format = "PARTIAL" THEN S ELSE {}

(* The reply to "Status 0" of each format; a mistyped one has the POWER at    *)
(* the top (fallback) or lacks it.                                         *)
EncodeReply(format, d) ==
  CASE format = "StatusSTS" -> [form |-> "status", sts |-> Word(d.on), power |-> 0,
                                alt |-> "", energy |-> d.energy]
    [] format = "Status"    -> [form |-> "status", sts |-> "",
                                power |-> IF d.on THEN 1 ELSE 0,
                                alt |-> "", energy |-> d.energy]
    [] format = "POWER"     -> [form |-> "status", sts |-> "", power |-> 0,
                                alt |-> Word(d.on), energy |-> NoReadings]
    [] format = "fallback"  -> [form |-> "mistyped", sts |-> "", power |-> 0,
                                alt |-> Word(d.on), energy |-> NoReadings]
    [] format = "mistyped"  -> [form |-> "mistyped", sts |-> "", power |-> 0,
                                alt |-> "", energy |-> NoReadings]
    [] format = "error"     -> [form |-> "garbage", sts |-> "", power |-> 0,
                                alt |-> "", energy |-> NoReadings]
==============================================================================
