------------------------------ MODULE PlugManager ------------------------------
(***************************************************************************)
(* plugs/manager.go: the goroutines that share pm.states under pm.mu, the    *)
(* plugs they talk to, and what they publish on the bus of EventBus.         *)
(*                                                                         *)
(* Goroutines.  The Worker runs ProcessCommands: it takes commands off the   *)
(* channel and calls SetPower.  A web request calls SetPower (HandleToggle)  *)
(* or RefreshAll (HandleIndex), which asks every plug concurrently.  Start-up *)
(* and the monitor call GetStatus.  One more goroutine runs                  *)
(* ProcessStateEvents.  A call is in one of the phases                      *)
(*     power    the "Power ON|OFF" request is on its way to the plug         *)
(*     status   the "Status 0" request is                                   *)
(*     apply    the reply is back, and the call waits for pm.mu              *)
(* and everything done under pm.mu in one go is one step.                    *)
(*                                                                         *)
(* An MQTT message goes from the plug through the broker's hook (OnPublish)  *)
(* onto the bus queue of ProcessStateEvents; both hops keep the order, and   *)
(* stateEvents is the two of them together.                                 *)
(***************************************************************************)
EXTENDS EventBus, Tasmota

CONSTANTS
  Worker,       \* the goroutine of ProcessCommands
  Requests,     \* the other goroutines that call the manager
  ForeignIDs,   \* IDs in MQTT topics that name no configured plug
  Periodic,     \* the formats of the plugs' periodic messages
  ReplyFormats, \* the formats of reply the plugs give
  Load,         \* the readings of a plug that is on
  CommandCap,   \* capacity of the commands channel
  LossyMQTT,    \* may MQTT messages about a change be lost
  DistinctTimes,\* do two readings of the clock always differ
  MaxInputs,    \* bound on the commands, requests and button presses
  MaxEvents     \* bound on the messages under way at a time

ASSUME ManagerAssumption ==
  /\ Worker \notin Requests
  /\ ForeignIDs \cap Plugs = {}
  /\ Periodic \subseteq MessageFormats
  /\ ReplyFormats \subseteq StatusFormats
  /\ Load \in [Readings -> Values]
  /\ CommandCap \in Nat \ {0}
  /\ LossyMQTT \in BOOLEAN /\ DistinctTimes \in BOOLEAN
  /\ MaxInputs \in Nat /\ MaxEvents \in Nat

Callers == Requests \cup {Worker}

VARIABLES
  device,       \* external: what each plug is
  states,       \* pm.states
  commands,     \* the commands channel
  stateEvents,  \* the MQTT messages of the plugs not yet merged
  copy,         \* the copy ProcessStateEvents is about to publish, or None
  call,         \* per caller and plug, the call in progress
  inputs,       \* how many outside inputs there were
  wasOn,        \* history: the plugs that were on at some time
  unpublished   \* history: plugs whose state was last changed in a way that
                \* the last publication may not show

mgrVars == <<device, states, commands, stateEvents, copy, call, inputs, wasOn, unpublished>>

DeviceWhen(on) == [on |-> on, energy |-> IF on THEN Load ELSE NoReadings]

Command == [plug : Plugs, on : BOOLEAN]
Event == [plug : Plugs \cup ForeignIDs, state : State, updated : BOOLEAN,
          fields : SUBSET ({"On", "MQTTConnected", "LastSeen"} \cup Readings)]
NoCall == [phase |-> "idle"]
Call == [phase : {"idle", "status"}]
          \cup [phase : {"power"}, on : BOOLEAN]
          \cup [phase : {"apply"}, reply : Reply]

Idle(c) == \A p \in Plugs : call[c][p] = NoCall

Input == inputs < MaxInputs /\ inputs' = inputs + 1

(* newTimes of PublishStateUpdate: with a clock that moves between any two   *)
(* readings, no update carries the times of an earlier one.                 *)
Times == IF DistinctTimes THEN {TRUE} ELSE BOOLEAN

(* NewManager: every plug starts with the default state, which is published  *)
(* before the HAP manager and the web server subscribe.                     *)
ManagerInit ==
  /\ lastStates = [p \in Plugs |-> InitialState]
  /\ subscribed = {}
  /\ queue = [s \in Subscribers |-> <<>>]
  /\ view = [s \in Subscribers |-> [p \in Plugs |-> None]]
  /\ offered = [p \in Plugs |-> InitialState]
  /\ owed = [s \in Subscribers |-> {}]
  /\ device \in [Plugs -> {DeviceWhen(FALSE), DeviceWhen(TRUE)}]
  /\ states = [p \in Plugs |-> InitialState]
  /\ commands = <<>>
  /\ stateEvents = <<>>
  /\ copy = None
  /\ call = [c \in Callers |-> [p \in Plugs |-> NoCall]]
  /\ inputs = 0
  /\ wasOn = {p \in Plugs : device[p].on}
  /\ unpublished = {}

------------------------------------------------------------------------------
(* The plugs (external).                                                    *)

Send(id, format, d) ==
  /\ Len(stateEvents) < MaxEvents
  /\ stateEvents' = Append(stateEvents, OnPublish(id, Encode(format, d, {})))

(* The relay of plug p is switched, which the plug reports over MQTT at once. *)
Switch(p, on) ==
  /\ device' = [device EXCEPT ![p] = DeviceWhen(on)]
  /\ wasOn' = IF on THEN wasOn \cup {p} ELSE wasOn
  /\ \/ Send(p, "RESULT", DeviceWhen(on))
     \/ LossyMQTT /\ UNCHANGED stateEvents

(* Somebody presses the button on the plug.                                 *)
Button(p) ==
  /\ Input
  /\ Switch(p, ~device[p].on)
  /\ UNCHANGED <<busVars, states, commands, copy, call, unpublished>>

(* Periodic telemetry, whether anything changed or not.                     *)
Telemetry(p, format) ==
  /\ Send(p, format, device[p])
  /\ UNCHANGED <<busVars, device, states, commands, copy, call, inputs, wasOn, unpublished>>

(* Another MQTT client publishes under a topic of the same form.            *)
ForeignMessage(id) ==
  /\ Input
  /\ Send(id, "RESULT", DeviceWhen(TRUE))
  /\ UNCHANGED <<busVars, device, states, commands, copy, call, wasOn, unpublished>>

------------------------------------------------------------------------------
(* SetPower and GetStatus, called by c.                                     *)

BeginCall(c, p, first) ==
  /\ call' = [call EXCEPT ![c][p] = first]
  /\ UNCHANGED <<busVars, device, states, stateEvents, copy, wasOn, unpublished>>

(* ProcessCommands takes the next command.                                  *)
ProcessCommand ==
  /\ Idle(Worker) /\ commands # <<>>
  /\ BeginCall(Worker, Head(commands).plug, [phase |-> "power", on |-> Head(commands).on])
  /\ commands' = Tail(commands)
  /\ UNCHANGED inputs

(* A web request toggles plug p.                                            *)
Toggle(c, p, on) ==
  /\ Idle(c) /\ Input
  /\ BeginCall(c, p, [phase |-> "power", on |-> on])
  /\ UNCHANGED commands

(* Start-up, or the monitor, asks one plug.                                 *)
GetStatus(c, p) ==
  /\ Idle(c) /\ Input
  /\ BeginCall(c, p, [phase |-> "status"])
  /\ UNCHANGED commands

(* A page view asks all plugs at once, and is over when all calls are.      *)
RefreshAll(c) ==
  /\ Idle(c) /\ Input
  /\ call' = [call EXCEPT ![c] = [p \in Plugs |-> [phase |-> "status"]]]
  /\ UNCHANGED <<busVars, device, states, commands, stateEvents, copy, wasOn, unpublished>>

(* The plug obeys; SetPower goes on to ask for the status.                   *)
PowerDone(c, p) ==
  /\ call[c][p].phase = "power"
  /\ Switch(p, call[c][p].on)
  /\ call' = [call EXCEPT ![c][p] = [phase |-> "status"]]
  /\ UNCHANGED <<busVars, states, commands, copy, inputs, unpublished>>

(* Mutant: the wanted state is stored although the request failed.          *)
PowerFailedOptimistic(c, p) ==
  /\ call[c][p].phase = "power"
  /\ states' = [states EXCEPT ![p].on = call[c][p].on]
  /\ call' = [call EXCEPT ![c][p] = NoCall]
  /\ UNCHANGED <<busVars, device, commands, stateEvents, copy, inputs, wasOn, unpublished>>

(* Mutant: the goroutine that made the request ends with it.                *)
PowerFailedForGood(c, p) ==
  /\ call[c][p].phase = "power"
  /\ call' = [call EXCEPT ![c][p] = [phase |-> "ended"]]
  /\ UNCHANGED <<busVars, device, states, commands, stateEvents, copy, inputs, wasOn, unpublished>>

(* The request fails and SetPower returns the error.  The plug may have      *)
(* obeyed all the same, when it is only the answer that was lost.            *)
PowerFailed(c, p) ==
  /\ call[c][p].phase = "power"
  /\ \/ UNCHANGED <<device, wasOn, stateEvents>>
     \/ Switch(p, call[c][p].on)
  /\ call' = [call EXCEPT ![c][p] = NoCall]
  /\ UNCHANGED <<busVars, states, commands, copy, inputs, unpublished>>

(* The plug answers "Status 0" with what it is at this moment.              *)
StatusAnswer(c, p, format) ==
  /\ call[c][p].phase = "status"
  /\ call' = [call EXCEPT ![c][p] =
                [phase |-> "apply", reply |-> EncodeReply(format, device[p])]]
  /\ UNCHANGED <<busVars, device, states, commands, stateEvents, copy, inputs, wasOn, unpublished>>

(* The status request fails or times out: nothing is changed.               *)
StatusFailed(c, p) ==
  /\ call[c][p].phase = "status"
  /\ call' = [call EXCEPT ![c][p] = NoCall]
  /\ UNCHANGED <<busVars, device, states, commands, stateEvents, copy, inputs, wasOn, unpublished>>

(* Mutant: GetStatus publishes the state before it applies the reply.        *)
ApplyAfterPublishing(c, p) ==
  /\ call[c][p].phase = "apply"
  /\ states' = [states EXCEPT ![p] = ApplyStatus(@, call[c][p].reply)]
  /\ \E newTimes \in Times : PublishStateUpdate(p, states[p], newTimes)
  /\ unpublished' = IF copy # None /\ copy.plug = p
                    THEN unpublished \cup {p} ELSE unpublished \ {p}
  /\ call' = [call EXCEPT ![c][p] = NoCall]
  /\ UNCHANGED <<device, commands, stateEvents, copy, inputs, wasOn>>

(* GetStatus under pm.mu: the reply is applied, and published before the     *)
(* lock is released, unless it needed the fallback or could not be parsed.  *)
Apply(c, p) ==
  /\ call[c][p].phase = "apply"
  /\ LET reply == call[c][p].reply
     IN /\ states' = [states EXCEPT ![p] = ApplyStatus(@, reply)]
        /\ CASE reply.form = "status" ->
                  /\ \E newTimes \in Times : PublishStateUpdate(p, states'[p], newTimes)
                  /\ unpublished' = IF copy # None /\ copy.plug = p
                                    THEN unpublished \cup {p} ELSE unpublished \ {p}
             [] reply.form = "mistyped" ->
                  /\ unpublished' = unpublished \cup {p}
                  /\ UNCHANGED busVars
             [] reply.form = "garbage" -> UNCHANGED <<busVars, unpublished>>
  /\ call' = [call EXCEPT ![c][p] = NoCall]
  /\ UNCHANGED <<device, commands, stateEvents, copy, inputs, wasOn>>

------------------------------------------------------------------------------
(* Mutant: an event for an unknown plug is published all the same.          *)
MergeEventUnchecked ==
  /\ copy = None /\ stateEvents # <<>>
  /\ LET event == Head(stateEvents)
     IN copy' = [plug |-> event.plug, state |-> event.state]
  /\ stateEvents' = Tail(stateEvents)
  /\ UNCHANGED <<busVars, device, states, commands, call, inputs, wasOn, unpublished>>

(* ProcessStateEvents: an event is merged and the state copied under pm.mu;  *)
(* an event for an unknown plug is dropped.                                 *)
MergeEvent ==
  /\ copy = None /\ stateEvents # <<>>
  /\ LET event == Head(stateEvents)
     IN IF event.plug \in Plugs
        THEN /\ states' = [states EXCEPT ![event.plug] = Merge(@, event)]
             /\ copy' = [plug |-> event.plug, state |-> states'[event.plug]]
             /\ unpublished' = unpublished \ {event.plug}
        ELSE UNCHANGED <<states, copy, unpublished>>
  /\ stateEvents' = Tail(stateEvents)
  /\ UNCHANGED <<busVars, device, commands, call, inputs, wasOn>>

(* The copy is published after pm.mu was released.                          *)
PublishCopy ==
  /\ copy # None
  /\ \E newTimes \in Times : PublishStateUpdate(copy.plug, copy.state, newTimes)
  /\ copy' = None
  /\ UNCHANGED <<device, states, commands, stateEvents, call, inputs, wasOn, unpublished>>

------------------------------------------------------------------------------
(* Mutant: a command is sent whether there is room or not.                  *)
SendCommandUnbounded(p, on) ==
  /\ commands' = Append(commands, [plug |-> p, on |-> on])
  /\ UNCHANGED <<busVars, device, states, stateEvents, copy, call, wasOn, unpublished>>

(* A command arrives on the channel, as long as there is room for it.        *)
SendCommand(p, on) ==
  /\ Len(commands) < CommandCap
  /\ commands' = Append(commands, [plug |-> p, on |-> on])
  /\ UNCHANGED <<busVars, device, states, stateEvents, copy, call, wasOn, unpublished>>

(* Outside inputs other than commands from HomeKit.                         *)
Outside ==
  \/ \E p \in Plugs : Button(p)
  \/ \E id \in ForeignIDs : ForeignMessage(id)
  \/ \E c \in Requests :
        RefreshAll(c) \/ \E p \in Plugs : GetStatus(c, p) \/ \E on \in BOOLEAN : Toggle(c, p, on)

(* The steps of a call of c to plug p.                                      *)
CallStep(c, p) ==
  \/ PowerDone(c, p) \/ PowerFailed(c, p)
  \/ \E format \in ReplyFormats : StatusAnswer(c, p, format)
  \/ StatusFailed(c, p) \/ Apply(c, p)

(* What the program and the plugs do by themselves.                         *)
Inside ==
  \/ ProcessCommand \/ MergeEvent \/ PublishCopy
  \/ \E c \in Callers, p \in Plugs : CallStep(c, p)
  \/ \E p \in Plugs, format \in Periodic : Telemetry(p, format)

ManagerNext ==
  \/ Outside \/ Inside
  \/ \E p \in Plugs, on \in BOOLEAN : Input /\ SendCommand(p, on)

ManagerSpec == ManagerInit /\ [][ManagerNext]_<<busVars, mgrVars>>

------------------------------------------------------------------------------
ManagerTypeOK ==
  /\ BusTypeOK
  /\ device \in [Plugs -> {DeviceWhen(FALSE), DeviceWhen(TRUE)}]
  /\ states \in [Plugs -> State]
  /\ commands \in Seq(Command) /\ Len(commands) <= CommandCap
  /\ stateEvents \in Seq(Event) /\ Len(stateEvents) <= MaxEvents
  /\ copy \in Update \cup {None}
  /\ call \in [Callers -> [Plugs -> Call]]
  /\ inputs \in 0 .. MaxInputs
  /\ wasOn \in SUBSET Plugs
  /\ unpublished \in SUBSET Plugs

Held(p) == copy # None /\ copy.plug = p

(* The bus follows the manager: the last update published of a plug shows    *)
(* pm.states, up to the tolerance, or the copy that does is about to be      *)
(* published.  There are exactly two ways around it, both in `unpublished`:  *)
(* GetStatus published while an older copy of the same plug was waiting      *)
(* between manager.go:345 and 357, or it took the reply without publishing   *)
(* (manager.go:217-223).  The next merge, or undisturbed GetStatus, ends it. *)
BusFollowsManager ==
  \A p \in Plugs \ unpublished :
     IF Held(p) THEN copy.state = states[p]
     ELSE lastStates[p] = states[p] \/ Equals(states[p], lastStates[p])

(* "we only publish confirmed state" (manager.go:168): a plug that is         *)
(* published as on was on at some time, so a command to switch on a plug      *)
(* that never was does not show while it is under way or when it is refused.  *)
(* Of a plug published as off nothing is said: off is the default of          *)
(* NewManager, and what GetStatus makes of a reply without the power state.   *)
PublishedOnWasReal == \A p \in Plugs : lastStates[p].on => p \in wasOn

(* Nothing is under way: no command, call, message or copy.                 *)
Quiet == /\ \A c \in Callers : Idle(c)
         /\ commands = <<>> /\ stateEvents = <<>> /\ copy = None

(* "All interfaces stay synchronized through the event bus" (README.md:254): *)
(* when nothing is under way the last update on the bus is the manager's      *)
(* state.                                                                   *)
BusInSync == Quiet => \A p \in Plugs : Equals(states[p], lastStates[p])

(* "state stays consistent whether commands originate from HomeKit, the       *)
(* dashboard, or MQTT telemetry" (TASMOTA_IMPLEMENTATION.md:23): when nothing *)
(* is under way, the manager holds the state of every plug that it has heard  *)
(* of over MQTT (to be checked with messages that all carry POWER).         *)
ManagerInSync == Quiet => \A p \in Plugs : states[p].seen => states[p].on = device[p].on
==============================================================================
