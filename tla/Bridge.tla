-------------------------------- MODULE Bridge --------------------------------
(***************************************************************************)
(* The whole bridge (app.go): plugs, manager and bus of PlugManager, with    *)
(* the two interfaces that show the state and send commands.                *)
(*                                                                         *)
(*   hap.go   a HomeKit write changes the characteristic first (external,    *)
(*            the hap library), then its callback sends a command on the      *)
(*            channel, waiting for room; updates from the bus set the         *)
(*            characteristic.                                              *)
(*   web.go   updates from the bus are stored in currentState, here          *)
(*            view[Web]; requests call the manager directly.                 *)
(***************************************************************************)
EXTENDS PlugManager

CONSTANTS
  Hap, Web,      \* the two subscribers
  HomeKitPlugs,  \* the plugs with an accessory (homekit not set to false)
  Writers,       \* HomeKit requests that can be in progress at a time
  MaxQueue       \* bound on the updates queued while telemetry goes on

ASSUME BridgeAssumption ==
  /\ Hap # Web /\ Subscribers = {Hap, Web}
  /\ HomeKitPlugs \subseteq Plugs
  /\ MaxQueue \in Nat \ {0}

VARIABLES
  characteristic,  \* what HomeKit shows of each plug with an accessory
  writer,          \* the command a HomeKit callback is waiting to send, or None
  overwritten      \* history: plugs HomeKit wrote since the last update of them

hapVars == <<characteristic, writer, overwritten>>
vars == <<busVars, mgrVars, hapVars>>

Init ==
  /\ ManagerInit
  /\ characteristic = [p \in HomeKitPlugs |-> FALSE]
  /\ writer = [w \in Writers |-> None]
  /\ overwritten = {}

------------------------------------------------------------------------------
(* Main makes the HAP manager while the manager's goroutines already run,    *)
(* and the web server after it.                                             *)
NewHAPManager == Subscribe(Hap) /\ UNCHANGED <<mgrVars, hapVars>>

NewWebServer == /\ Hap \in subscribed
                /\ Subscribe(Web)
                /\ UNCHANGED <<mgrVars, hapVars>>

(* A HomeKit controller writes the characteristic.                          *)
HomeKitWrite(w, p, on) ==
  /\ Hap \in subscribed
  /\ writer[w] = None /\ Input
  /\ characteristic' = [characteristic EXCEPT ![p] = on]
  /\ writer' = [writer EXCEPT ![w] = [plug |-> p, on |-> on]]
  /\ overwritten' = overwritten \cup {p}
  /\ UNCHANGED <<busVars, device, states, commands, stateEvents, copy, call,
                 wasOn, unpublished>>

(* Mutant: the wanted state is published along with the command.             *)
HomeKitSendOptimistic(w) ==
  /\ writer[w] # None /\ Len(commands) < CommandCap
  /\ commands' = Append(commands, writer[w])
  /\ LET p == writer[w].plug
     IN PublishStateUpdate(p, [states[p] EXCEPT !.on = writer[w].on], TRUE)
  /\ writer' = [writer EXCEPT ![w] = None]
  /\ UNCHANGED <<device, states, stateEvents, copy, call, inputs, wasOn, unpublished,
                 characteristic, overwritten>>

(* The callback of OnValueRemoteUpdate sends the command, once there is room. *)
HomeKitSend(w) ==
  /\ writer[w] # None
  /\ SendCommand(writer[w].plug, writer[w].on)
  /\ writer' = [writer EXCEPT ![w] = None]
  /\ UNCHANGED <<inputs, characteristic, overwritten>>

(* ProcessStateChanges and UpdateState: a plug without an accessory is       *)
(* skipped.                                                                 *)
HapReceive ==
  /\ Deliver(Hap)
  /\ LET update == Head(queue[Hap])
     IN IF update.plug \in HomeKitPlugs
        THEN /\ characteristic' = [characteristic EXCEPT ![update.plug] = update.state.on]
             /\ overwritten' = overwritten \ {update.plug}
        ELSE UNCHANGED <<characteristic, overwritten>>
  /\ UNCHANGED <<mgrVars, writer>>

(* processStateChanges: currentState[p] is view[Web][p].                    *)
WebReceive == Deliver(Web) /\ UNCHANGED <<mgrVars, hapVars>>

(* What comes from outside; web requests only once there is a web server.   *)
Stimulus ==
  \/ \E w \in Writers, p \in HomeKitPlugs, on \in BOOLEAN : HomeKitWrite(w, p, on)
  \/ /\ \/ \E p \in Plugs : Button(p)
        \/ \E c \in Requests, p \in Plugs : GetStatus(c, p)
        \/ \E c \in Requests :
              /\ Web \in subscribed
              /\ RefreshAll(c) \/ \E p \in Plugs, on \in BOOLEAN : Toggle(c, p, on)
     /\ UNCHANGED hapVars

Report(p, format) ==
  /\ \A s \in Subscribers : Len(queue[s]) < MaxQueue
  /\ Telemetry(p, format)
  /\ UNCHANGED hapVars

Next ==
  \/ Stimulus
  \/ NewHAPManager \/ NewWebServer \/ HapReceive \/ WebReceive
  \/ \E w \in Writers : HomeKitSend(w)
  \/ (ProcessCommand \/ MergeEvent \/ PublishCopy) /\ UNCHANGED hapVars
  \/ \E c \in Callers, p \in Plugs : CallStep(c, p) /\ UNCHANGED hapVars
  \/ \E p \in Plugs, format \in Periodic : Report(p, format)

Spec == Init /\ [][Next]_vars

(* Goroutines are scheduled, every HTTP request ends (the client has a       *)
(* timeout), and a plug keeps sending its periodic messages.  Nobody has to  *)
(* press a button or send a command.  A goroutine that does one thing after  *)
(* another needs one condition for all it does: Main, the Worker, and        *)
(* ProcessStateEvents.                                                      *)
Main == NewHAPManager \/ NewWebServer
ProcessCommands == /\ ProcessCommand \/ \E p \in Plugs : CallStep(Worker, p)
                   /\ UNCHANGED hapVars
ProcessStateEvents == (MergeEvent \/ PublishCopy) /\ UNCHANGED hapVars

Fairness ==
  /\ WF_vars(Main) /\ WF_vars(HapReceive) /\ WF_vars(WebReceive)
  /\ WF_vars(ProcessCommands) /\ WF_vars(ProcessStateEvents)
  /\ \A w \in Writers : WF_vars(HomeKitSend(w))
  /\ \A c \in Requests, p \in Plugs : WF_vars(CallStep(c, p) /\ UNCHANGED hapVars)
  /\ \A p \in Plugs, format \in Periodic : WF_vars(Report(p, format))

FairSpec == Spec /\ Fairness

------------------------------------------------------------------------------
BridgeTypeOK ==
  /\ ManagerTypeOK
  /\ characteristic \in [HomeKitPlugs -> BOOLEAN]
  /\ writer \in [Writers -> Command \cup {None}]
  /\ overwritten \in SUBSET HomeKitPlugs

(* Nothing under way in manager or interfaces.                              *)
Settled == /\ Quiet
           /\ \A s \in Subscribers : queue[s] = <<>>
           /\ \A w \in Writers : writer[w] = None

(* End to end: once everything has settled, the dashboard shows the           *)
(* manager's state of a plug, and HomeKit its power state, if an update was   *)
(* published since they subscribed, except for a plug whose last change      *)
(* escaped the bus (BusFollowsManager) or, on HomeKit, whose value HomeKit   *)
(* itself wrote last (the way manager.go:244, 357, bus.go:85, hap.go:259 and *)
(* web.go:151 work together).                                               *)
InterfacesFollow ==
  Settled => \A p \in Plugs \ unpublished :
     /\ p \in owed[Web] => Equals(states[p], view[Web][p])
     /\ (p \in HomeKitPlugs \cap owed[Hap] /\ p \notin overwritten) =>
           characteristic[p] = states[p].on

(* "we only publish confirmed state" (manager.go:168), end to end: whenever     *)
(* the dashboard shows a plug as on, the plug was on at some time; and so     *)
(* HomeKit, unless HomeKit itself wrote the value.  Off is the default, of    *)
(* which nothing is said (PublishedOnWasReal).                              *)
ShownOnWasReal ==
  \A p \in Plugs :
     /\ view[Web][p] # None /\ view[Web][p].on => p \in wasOn
     /\ p \in HomeKitPlugs \ overwritten /\ characteristic[p] => p \in wasOn

(* When plugs are left alone and keep sending telemetry, everything ends up  *)
(* agreeing with the plug for good: manager, bus, HomeKit and dashboard.     *)
(* Stale replies, raced publications, lost messages, failed commands and     *)
(* missed start-up updates are all repaired.                                *)
Converges ==
  <>[](\A p \in Plugs : /\ states[p].on = device[p].on
                        /\ lastStates[p].on = device[p].on
                        /\ p \in HomeKitPlugs => characteristic[p] = device[p].on
                        /\ view[Web][p] # None /\ view[Web][p].on = device[p].on)

(* A HomeKit callback is never stuck on a full commands channel (hap.go:171), *)
(* and every command on it is taken up, whatever fails in the calls.         *)
CommandsAreServed ==
  /\ \A w \in Writers : writer[w] # None ~> writer[w] = None
  /\ commands # <<>> ~> commands = <<>>
==============================================================================
