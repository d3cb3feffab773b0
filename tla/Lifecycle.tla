------------------------------- MODULE Lifecycle -------------------------------
(***************************************************************************)
(* The life of the process: Main (app.go) starts the parts in order, waits    *)
(* for a signal and shuts down; the servers announce what becomes of them on  *)
(* the event bus (events/bus.go); the metrics collector                      *)
(* (metrics/collector.go) and the web server's lifecycle table follow.       *)
(* HomeKit commands are counted.                                            *)
(*                                                                         *)
(* External: the tailscale bus under events.Bus (a queue without limit per    *)
(* subscriber; what happens to a publication once its client is closed        *)
(* depends on the library: it is dropped, or panics), and the three servers.    *)
(* The calls ListenAndServe of HAP and web server last as long as the server   *)
(* does, which may end at any time, with an error or without.  Serve of the    *)
(* broker (mochi-mqtt) starts its listeners in goroutines of their own and     *)
(* returns at once; the broker goes on until Main closes it.  When there is    *)
(* room on the channel of commands is the business of PlugManager; here a      *)
(* callback may wait for it for ever.                                       *)
(***************************************************************************)
EXTENDS Config, FiniteSets

CONSTANTS
  Components,   \* the components with a status: in the program, all of AllComponents
  Callbacks,    \* the HomeKit write requests that may be handled at a time
  MaxCommands,  \* bound on the commands sent
  MaxWaiting,   \* bound on the statuses under way when a server announces another
  None

AllComponents == {"mqtt", "hap", "web"}

(* In the order observeStatus goes through them.                            *)
StatusOrder == <<"disconnected", "connecting", "connected", "reconnecting", "failed">>
Statuses == {StatusOrder[i] : i \in DOMAIN StatusOrder}

(* How the goroutine of a server ends.                                      *)
Endings == {"failed", "disconnected"}
StatusEvent == [component : Components, status : Statuses]

(* observeStatus: the event it is at, and the labels it has yet to set.       *)
Observation == [event : StatusEvent, left : Seq(Statuses) \ {<<>>}]

(* The loops that receive events until the context ends: the collector's two   *)
(* and that of the lifecycle table; all but one receive component statuses.    *)
Loops == {"statuses", "commands", "table"}
StatusLoops == {"statuses", "table"}

(* What Main does next.                                                    *)
Stages == {"load", "collector", "mqtt", "hap", "web", "wait", "close web",
           "close collector", "await", "close bus", "exit", "done"}

LifecycleAssumption ==
  /\ Components \subseteq AllComponents
  /\ IsFiniteSet(Callbacks) /\ MaxCommands \in Nat /\ MaxWaiting \in Nat
  /\ None \notin Statuses /\ None \notin Observation

ASSUME LifecycleAssumption

VARIABLES
  stage,        \* what Main does next
  process,      \* "running", "exited", or "crashed" by a panic
  cancelled,    \* the context of signal.NotifyContext
  closed,       \* the bus's clients are closed
  server,       \* the goroutine of each server: "none", "starting", "calling"
                \* (about to call Serve or ListenAndServe), "serving", "ended"
  up,           \* external: the components that accept connections
  looping,      \* the loops that run
  subscribed,   \* external: the loops that still receive events
  queue,        \* external: the statuses each has yet to receive
  last,         \* history: the status published last of each component
  told,         \* history: the components announced since the table's loop subscribed
  gauge,        \* the labels of tasmota_homekit_component_status at 1, per component
  observing,    \* the Observation under way, or None
  table,        \* WebServer.connectionState
  callback,     \* "idle", "sending" or "publishing", per HomeKit callback
  sent,         \* history: commands put on the channel
  counting,     \* external: command events the collector has yet to receive
  counted       \* the total of tasmota_homekit_command_total

mainVars == <<stage, process, cancelled, closed>>
statusVars == <<server, up, looping, subscribed, queue, last, told, gauge, observing, table>>
commandVars == <<callback, sent, counting, counted>>
vars == <<mainVars, statusVars, commandVars>>

Init ==
  /\ stage = "load" /\ process = "running" /\ cancelled = FALSE /\ closed = FALSE
  /\ server = [c \in Components |-> "none"] /\ up = {}
  /\ looping = {} /\ subscribed = {} /\ queue = [l \in StatusLoops |-> <<>>]
  /\ last = [c \in Components |-> None] /\ told = {}
  /\ gauge = [c \in Components |-> {}] /\ observing = None
  /\ table = [c \in Components |-> None]
  /\ callback = [k \in Callbacks |-> "idle"]
  /\ sent = 0 /\ counting = 0 /\ counted = 0

------------------------------------------------------------------------------
(* Publications.                                                           *)

(* A publication by a closed client: dropped, or a panic, which no goroutine  *)
(* of the program recovers from.                                            *)
PublishClosed == process' \in {"running", "crashed"}

(* PublishConnectionStatus.                                                *)
PublishConnectionStatus(c, status) ==
  IF closed
  THEN PublishClosed /\ UNCHANGED <<queue, last, told>>
  ELSE /\ queue' = [l \in StatusLoops |->
                      IF l \in subscribed'
                      THEN Append(queue[l], [component |-> c, status |-> status])
                      ELSE queue[l]]
       /\ last' = [last EXCEPT ![c] = status]
       /\ told' = IF "table" \in subscribed' THEN told \cup {c} ELSE told
       /\ UNCHANGED process

------------------------------------------------------------------------------
(* Main.                                                                   *)

(* os.Exit(1): nothing deferred is run.                                     *)
Fail == process' = "exited" /\ UNCHANGED <<stage, cancelled, closed, statusVars, commandVars>>

Proceed(from, to) == process = "running" /\ stage = from /\ stage' = to

Good == {env \in Environments : Loads(env)}
GoodFiles == {file \in PlugFiles : PlugsLoad(file)}

LoadConfiguration ==
  \/ /\ Good # {} /\ GoodFiles # {}
     /\ Proceed("load", "collector")
     /\ UNCHANGED <<process, cancelled, closed, statusVars, commandVars>>
  \/ /\ process = "running" /\ stage = "load"
     /\ Good # Environments \/ GoodFiles # PlugFiles
     /\ Fail

Subscribe(loops) == /\ looping' = looping \cup loops
                    /\ subscribed' = subscribed \cup loops

(* The bus is made, and the collector, which subscribes before anything is      *)
(* published; either may fail.                                              *)
NewCollector ==
  \/ process = "running" /\ stage = "collector" /\ Fail
  \/ /\ Proceed("collector", "mqtt")
     /\ Subscribe({"statuses", "commands"})
     /\ UNCHANGED <<process, cancelled, closed, server, up, queue, last, told, gauge,
                    observing, table, commandVars>>

(* The start of a server is announced, then its goroutine is started.         *)
Launch(c) ==
  /\ IF c \in Components
     THEN /\ server' = [server EXCEPT ![c] = "starting"]
          /\ PublishConnectionStatus(c, "connecting")
     ELSE UNCHANGED <<process, server, queue, last, told>>
  /\ UNCHANGED <<cancelled, closed, up, gauge, observing, table, commandVars>>

(* The manager and the broker are made, which may fail (an unknown plug, a     *)
(* taken port), and run.                                                    *)
StartMQTT ==
  \/ process = "running" /\ stage = "mqtt" /\ Fail
  \/ /\ Proceed("mqtt", "hap")
     /\ UNCHANGED <<looping, subscribed>>
     /\ Launch("mqtt")

(* The HAP server is made, which may fail (its store), and runs.             *)
StartHAP ==
  \/ process = "running" /\ stage = "hap" /\ Fail
  \/ /\ Proceed("hap", "web")
     /\ UNCHANGED <<looping, subscribed>>
     /\ Launch("hap")

(* NewWebServer subscribes, Start runs the table's loop and the server.       *)
StartWeb ==
  \/ process = "running" /\ stage = "web" /\ Fail
  \/ /\ Proceed("web", "wait")
     /\ Subscribe({"table"})
     /\ Launch("web")

(* <-ctx.Done(), and the broker is closed.                                  *)
StopMQTT ==
  /\ cancelled
  /\ Proceed("wait", "close web")
  /\ up' = up \ {"mqtt"}
  /\ UNCHANGED <<server, looping, subscribed>>
  /\ IF "mqtt" \in Components THEN PublishConnectionStatus("mqtt", "disconnected")
     ELSE UNCHANGED <<process, queue, last, told>>
  /\ UNCHANGED <<cancelled, closed, gauge, observing, table, commandVars>>

(* A subscriber that is closed, or that nobody reads any more, receives no     *)
(* more; what it still has is never read.                                   *)
Unsubscribe(loops) ==
  /\ subscribed' = subscribed \ loops
  /\ queue' = [l \in StatusLoops |-> IF l \in loops THEN <<>> ELSE queue[l]]
  /\ counting' = IF "commands" \in loops THEN 0 ELSE counting
  /\ UNCHANGED <<server, up, last, told, gauge, observing, table, callback, sent, counted>>

(* The deferred calls, last one first.                                      *)
CloseWeb ==
  /\ Proceed("close web", "close collector")
  /\ Unsubscribe({"table"})
  /\ UNCHANGED <<process, cancelled, closed, looping>>

CloseCollector ==
  /\ Proceed("close collector", "await")
  /\ Unsubscribe({"statuses", "commands"})
  /\ UNCHANGED <<process, cancelled, closed, looping>>

(* Mutant: the collector's loops are not waited for.                        *)
AwaitNobody ==
  /\ Proceed("await", "close bus")
  /\ UNCHANGED <<process, cancelled, closed, statusVars, commandVars>>

(* c.workers.Wait().                                                       *)
AwaitWorkers ==
  /\ looping \cap {"statuses", "commands"} = {}
  /\ Proceed("await", "close bus")
  /\ UNCHANGED <<process, cancelled, closed, statusVars, commandVars>>

CloseBus ==
  /\ Proceed("close bus", "exit")
  /\ closed' = TRUE
  /\ UNCHANGED <<process, cancelled, statusVars, commandVars>>

Exit ==
  /\ Proceed("exit", "done")
  /\ process' = "exited"
  /\ UNCHANGED <<cancelled, closed, statusVars, commandVars>>

Main ==
  \/ LoadConfiguration \/ NewCollector \/ StartMQTT \/ StartHAP \/ StartWeb
  \/ StopMQTT \/ CloseWeb \/ CloseCollector \/ AwaitWorkers \/ CloseBus \/ Exit

(* An interrupt, from signal.NotifyContext on.                              *)
Signal ==
  /\ process = "running" /\ stage # "load" /\ ~cancelled
  /\ cancelled' = TRUE
  /\ UNCHANGED <<stage, process, closed, statusVars, commandVars>>

------------------------------------------------------------------------------
(* The goroutine of each server.                                           *)

CanAnnounce ==
  Cardinality({observing} \ {None}) + Len(queue["statuses"]) + Len(queue["table"]) < MaxWaiting

(* The server is announced as connected, and then called.                    *)
Connected(c) ==
  /\ process = "running" /\ server[c] = "starting" /\ CanAnnounce
  /\ server' = [server EXCEPT ![c] = "calling"]
  /\ UNCHANGED <<up, looping, subscribed>>
  /\ PublishConnectionStatus(c, "connected")
  /\ UNCHANGED <<stage, cancelled, closed, gauge, observing, table, commandVars>>

(* Main has closed the broker, whose listeners then refuse to serve.          *)
BrokerClosed == stage \in {"close web", "close collector", "await", "close bus", "exit", "done"}

(* The server listens.                                                     *)
Listen(c) ==
  /\ process = "running" /\ server[c] = "calling"
  /\ server' = [server EXCEPT ![c] = "serving"]
  /\ up' = up \cup {d \in {c} : ~(c = "mqtt" /\ BrokerClosed)}
  /\ UNCHANGED <<mainVars, looping, subscribed, queue, last, told, gauge, observing, table, commandVars>>

(* HAP or web server ends, by itself or with the context.                    *)
StopListening(c) ==
  /\ process = "running" /\ c \in up \ {"mqtt"}
  /\ up' = up \ {c}
  /\ UNCHANGED <<mainVars, server, looping, subscribed, queue, last, told, gauge, observing, table, commandVars>>

(* What the call may return: an error if nothing came of it; then nil from the  *)
(* broker, at once; from the others, when they have ended, an error, which     *)
(* with the cancelled context may be the context's, or nil.                  *)
Returns(c, status) ==
  \/ /\ c = "mqtt"
     /\ server[c] = IF status = "failed" THEN "calling" ELSE "serving"
  \/ /\ c # "mqtt"
     /\ server[c] = "calling" \/ (server[c] = "serving" /\ c \notin up)
     /\ status = "failed" \/ cancelled

(* The call returns, which ends the goroutine, and is taken for the end of the  *)
(* server.                                                                 *)
Ends(c, status) ==
  /\ process = "running" /\ Returns(c, status) /\ CanAnnounce
  /\ server' = [server EXCEPT ![c] = "ended"]
  /\ UNCHANGED <<up, looping, subscribed>>
  /\ PublishConnectionStatus(c, status)
  /\ UNCHANGED <<stage, cancelled, closed, gauge, observing, table, commandVars>>

------------------------------------------------------------------------------
(* The loops.  Each waits for an event or the end of the context; with both    *)
(* there, select takes either.                                              *)

Runs(l) == process = "running" /\ l \in looping

(* Mutant: a loop looks at the context only while it is subscribed.          *)
LoopEndsIdle(l) ==
  /\ Runs(l) /\ cancelled /\ l \in subscribed
  /\ looping' = looping \ {l}
  /\ Unsubscribe({l})
  /\ UNCHANGED mainVars

LoopEnds(l) ==
  /\ Runs(l) /\ cancelled
  /\ l = "statuses" => observing = None
  /\ looping' = looping \ {l}
  /\ Unsubscribe({l})
  /\ UNCHANGED mainVars

ConsumeStatus ==
  /\ Runs("statuses") /\ observing = None /\ queue["statuses"] # <<>>
  /\ observing' = [event |-> Head(queue["statuses"]), left |-> StatusOrder]
  /\ queue' = [queue EXCEPT !["statuses"] = Tail(@)]
  /\ UNCHANGED <<mainVars, server, up, looping, subscribed, last, told, gauge, table, commandVars>>

(* Mutant: the label of the status is set and no other one reset.           *)
SetGaugeOnly ==
  /\ Runs("statuses") /\ observing # None
  /\ LET event == observing.event
     IN gauge' = [gauge EXCEPT ![event.component] = @ \cup {event.status}]
  /\ observing' = None
  /\ UNCHANGED <<mainVars, server, up, looping, subscribed, queue, last, told, table, commandVars>>

(* observeStatus: one label after the other, with scrapes in between.        *)
SetGauge ==
  /\ Runs("statuses") /\ observing # None
  /\ LET event == observing.event
         label == Head(observing.left)
     IN gauge' = [gauge EXCEPT ![event.component] =
                    IF label = event.status THEN @ \cup {label} ELSE @ \ {label}]
  /\ observing' = IF Len(observing.left) = 1 THEN None
                  ELSE [event |-> observing.event, left |-> Tail(observing.left)]
  /\ UNCHANGED <<mainVars, server, up, looping, subscribed, queue, last, told, table, commandVars>>

(* Mutant: a component that has a row keeps it.                             *)
RecordFirst ==
  /\ Runs("table") /\ queue["table"] # <<>>
  /\ LET event == Head(queue["table"])
     IN table' = [table EXCEPT ![event.component] = IF @ = None THEN event.status ELSE @]
  /\ queue' = [queue EXCEPT !["table"] = Tail(@)]
  /\ UNCHANGED <<mainVars, server, up, looping, subscribed, last, told, gauge, observing, commandVars>>

(* processConnectionStatuses.                                              *)
RecordStatus ==
  /\ Runs("table") /\ queue["table"] # <<>>
  /\ LET event == Head(queue["table"])
     IN table' = [table EXCEPT ![event.component] = event.status]
  /\ queue' = [queue EXCEPT !["table"] = Tail(@)]
  /\ UNCHANGED <<mainVars, server, up, looping, subscribed, last, told, gauge, observing, commandVars>>

(* Mutant: the loop takes the zero value of a closed channel for an event.     *)
ObserveCommandAnyway ==
  /\ Runs("commands")
  /\ counting' = counting - 1
  /\ counted' = counted + 1
  /\ UNCHANGED <<mainVars, statusVars, callback, sent>>

(* consumeCommands and observeCommand.                                     *)
ObserveCommand ==
  /\ Runs("commands") /\ counting > 0
  /\ counting' = counting - 1
  /\ counted' = counted + 1
  /\ UNCHANGED <<mainVars, statusVars, callback, sent>>

LoopStep(l) ==
  \/ LoopEnds(l)
  \/ l = "statuses" /\ (ConsumeStatus \/ SetGauge)
  \/ l = "table" /\ RecordStatus
  \/ l = "commands" /\ ObserveCommand

------------------------------------------------------------------------------
(* The callback of a HomeKit write request, which goes on when the server      *)
(* that handles the request has ended.                                     *)
HomeKitCommand(k) ==
  /\ process = "running" /\ callback[k] = "idle"
  /\ IF "hap" \in Components THEN "hap" \in up
     ELSE stage \notin {"load", "collector", "mqtt", "hap"}
  /\ sent + Cardinality({j \in Callbacks : callback[j] = "sending"}) < MaxCommands
  /\ callback' = [callback EXCEPT ![k] = "sending"]
  /\ UNCHANGED <<mainVars, statusVars, sent, counting, counted>>

SendCommand(k) ==
  /\ process = "running" /\ callback[k] = "sending"
  /\ sent' = sent + 1
  /\ callback' = [callback EXCEPT ![k] = "publishing"]
  /\ UNCHANGED <<mainVars, statusVars, counting, counted>>

(* Mutant: the event is kept for the next command.                          *)
PublishCommandNever(k) ==
  /\ process = "running" /\ callback[k] = "publishing"
  /\ callback' = [callback EXCEPT ![k] = "idle"]
  /\ UNCHANGED <<mainVars, statusVars, sent, counting, counted>>

(* publishCommand.                                                         *)
PublishCommand(k) ==
  /\ process = "running" /\ callback[k] = "publishing"
  /\ callback' = [callback EXCEPT ![k] = "idle"]
  /\ IF closed THEN PublishClosed /\ UNCHANGED counting
     ELSE /\ counting' = IF "commands" \in subscribed THEN counting + 1 ELSE counting
          /\ UNCHANGED process
  /\ UNCHANGED <<stage, cancelled, closed, statusVars, sent, counted>>

------------------------------------------------------------------------------
(* The process is over; nothing of it happens any more.                     *)
Over == process # "running" /\ UNCHANGED vars

Next ==
  \/ Main \/ Signal \/ Over
  \/ \E c \in Components : \/ Connected(c) \/ Listen(c) \/ StopListening(c)
                          \/ \E s \in Endings : Ends(c, s)
  \/ \E l \in Loops : LoopStep(l)
  \/ \E k \in Callbacks : HomeKitCommand(k) \/ SendCommand(k) \/ PublishCommand(k)

Spec == Init /\ [][Next]_vars

(* The scheduler runs Main and the two loops Main waits for; nothing is        *)
(* assumed of the other goroutines.  Nobody has to send a signal or a command,  *)
(* no server has to end, and no callback need find room.                    *)
Fairness == WF_vars(Main) /\ \A l \in {"statuses", "commands"} : WF_vars(LoopStep(l))

FairSpec == Spec /\ Fairness

------------------------------------------------------------------------------
LifecycleTypeOK ==
  /\ stage \in Stages /\ process \in {"running", "exited", "crashed"}
  /\ cancelled \in BOOLEAN /\ closed \in BOOLEAN
  /\ server \in [Components -> {"none", "starting", "calling", "serving", "ended"}]
  /\ up \in SUBSET Components /\ told \in SUBSET Components
  /\ looping \in SUBSET Loops /\ subscribed \in SUBSET Loops
  /\ queue \in [StatusLoops -> Seq(StatusEvent)]
  /\ last \in [Components -> Statuses \cup {None}]
  /\ gauge \in [Components -> SUBSET Statuses]
  /\ observing \in Observation \cup {None}
  /\ table \in [Components -> Statuses \cup {None}]
  /\ callback \in [Callbacks -> {"idle", "sending", "publishing"}]
  /\ {sent, counting, counted} \subseteq Nat

(* Main gets past loading only with a configuration the rest can work with:     *)
(* two names that are in sync unless both were chosen, listeners on ports that  *)
(* exist, and plugs that are distinct (app.go:37-69).                        *)
ConfigurationIsSound == stage # "load" => NamesInSync /\ PortsExist /\ PlugsAreDistinct

(* What loop l has yet to receive of component c.                           *)
Pending(l, c) == {i \in DOMAIN queue[l] : queue[l][i].component = c}

LastPending(l, c, status) ==
  \E i \in Pending(l, c) : /\ queue[l][i].status = status
                           /\ \A j \in Pending(l, c) : j <= i

(* The metrics show of every component the status published last, and nothing  *)
(* else, once what is under way has arrived: the collector subscribes before   *)
(* the first status is published and no label stays set (app.go:102,          *)
(* collector.go:120-134).                                                   *)
MetricsFollow ==
  "statuses" \in subscribed => \A c \in Components :
     \/ last[c] = None
     \/ LastPending("statuses", c, last[c])
     \/ /\ Pending("statuses", c) = {}
        /\ IF observing # None /\ observing.event.component = c
           THEN observing.event.status = last[c]
           ELSE gauge[c] = {last[c]}

(* The lifecycle table misses nothing that is announced from the moment the     *)
(* web server subscribes, its own start included: of each component told of     *)
(* since, the row shows the last status, or will (web.go:82, 102-109, 168-179). *)
TableFollows ==
  "table" \in subscribed =>
     /\ {"web"} \cap Components \subseteq told
     /\ \A c \in told : \/ LastPending("table", c, last[c])
                        \/ Pending("table", c) = {} /\ table[c] = last[c]

(* Start-up is over, every server has come up or failed, and the table has all    *)
(* that was announced to it.                                                *)
StartedUp ==
  /\ stage = "wait" /\ ~cancelled
  /\ \A c \in Components : server[c] = "ended" \/ (c \in up \ {"mqtt"})
  /\ "table" \in looping /\ queue["table"] = <<>>

(* "`/debug/eventbus` renders MQTT/HAP/Web status rows so you can confirm which  *)
(* components are connected" (README.md:309): once the program has started up,  *)
(* every component that accepts connections has a row that says so.          *)
ServingIsShown == StartedUp => \A c \in up : table[c] = "connected"

(* Every command HomeKit gets onto the channel is counted once, or will be:    *)
(* while the collector is open none is lost between channel, bus and counter,  *)
(* and none is counted that still waits for room (hap.go:170-176,             *)
(* collector.go:136-150).                                                   *)
CommandsAreCounted ==
  "commands" \in subscribed =>
     sent = counted + counting + Cardinality({k \in Callbacks : callback[k] = "publishing"})

(* Goroutines that Main does not wait for may meet the closed bus, but by then  *)
(* everything is shut down: no late publication ever cuts the web server's,    *)
(* the collector's or the broker's end short (app.go:89-107, 355, 374-386).   *)
CrashComesLast ==
  process = "crashed" =>
     /\ stage = "exit" /\ subscribed = {}
     /\ looping \cap {"statuses", "commands"} = {} /\ observing = None

(* A signal ends the process, at whatever point of start-up or of a command it  *)
(* comes, with events left in the queues, callbacks stuck on a full channel     *)
(* and servers that do not return (app.go:374-387, collector.go:82-94).       *)
ShutdownEnds == cancelled ~> process # "running"
==============================================================================
