# A formal model of tasmota-homekit

tasmota-homekit is a bridge between Tasmota smart plugs and their users: it
embeds an MQTT broker the plugs report to, sends them commands over HTTP,
offers each as a HomeKit accessory and shows all of them on a web dashboard.
This directory holds TLA+ modules translated from its source, the TLC
configurations that check them, and theorems about them proved with TLAPS.

The question behind the whole of it is the one the program's README answers
with "All interfaces stay synchronized through the event bus"
(`src/README.md:254`): plug, manager, bus, HomeKit and dashboard each keep their
own idea of a plug's state, five or more goroutines move it from one to the next,
and calls fail, messages get lost and answers arrive late. Where do the copies
agree, where not, and what brings them back?

## The system

| Component | State | Operations | Talks to |
|---|---|---|---|
| Plug (external) | relay, readings | obeys `Power`, answers `Status 0`, reports over MQTT | MQTT hook, manager |
| MQTT hook (`mqtt.go`) | none | `OnPublish` turns a message into a partial state event | bus |
| Plug manager (`plugs/manager.go`) | `states` under `mu` | `NewManager`, `SetPower`, `GetStatus`, `RefreshAll`, `ProcessCommands`, `ProcessStateEvents`, `MonitorConnections`, `ConfigureMQTT` | plugs, commands channel, bus |
| Event bus wrapper (`events/bus.go`) | `lastStates` under `stateMu` | `PublishStateUpdate` with deduplication, commands and component statuses, `Close` | tailscale eventbus |
| HAP manager (`hap.go`) | characteristics, activity counters | remote update callback, `ProcessStateChanges`, `UpdateState` | commands channel, bus |
| Web server (`web.go`) | `currentState`, `eventLog`, SSE clients, component statuses | `HandleIndex`, `HandleToggle`, `HandleSSE`, `processStateChanges`, `broadcastSSE`, `Close` | manager, bus, browsers |
| Wiring (`app.go`) | contexts, a goroutine per server | start in a fixed order, announce the servers' statuses, shutdown | all |
| Metrics (`metrics/collector.go`) | a gauge per component and status, a counter of commands | `consumeStatuses`, `consumeCommands`, `Close` | bus |
| Configuration (`config/`, `plugs/types.go`) | none | `Load`, `LoadConfig`, validation | none |
| Debug pages, logging, Nix | none | rendering, output, packaging | none |

How state travels:

    plug --MQTT--> OnPublish --bus--> ProcessStateEvents --+
                                                           +--> pm.states --> PublishStateUpdate --> HAP, web
    plug <--HTTP-- SetPower / GetStatus -------------------+
                       ^
    HomeKit callback --commands channel--> ProcessCommands
    dashboard -- HandleToggle, HandleIndex --> SetPower, RefreshAll  (directly)

What is hard about it, and what makes each part correct:

* **Plug data.** Messages and replies come in many shapes and carry some of the
  fields. After any mix of them each field must be what the plug reported last,
  and "seen" must mean heard over MQTT, since the monitor relies on it.
* **Bus.** Updates that look like the last one published are skipped. Nothing
  may be lost or overtaken because of it, and small changes must not add up
  unseen. `lastStates` and the publication have to change together.
* **Manager.** Every caller of `GetStatus` and the event loop change
  `pm.states`; one publishes under the lock, the other after it. The bus must show
  the manager's state, and no plug as on that never was.
* **HAP manager and web server.** Each keeps a copy that must follow the bus
  from whatever moment it subscribed; HomeKit moves its copy itself before a
  command has even been sent. A callback must not wait for ever on the channel.
* **Wiring.** Events are published before there is anyone to receive them; at
  shutdown the opposite. Nothing a server or a callback does may hold up the
  shutdown. A server's status is announced around the call that runs it, not by what
  becomes of the server.
* **Metrics and lifecycle table.** Each must end up with the status announced
  last, one label at a time, whatever moment it subscribed at, and count a command
  once, although it is announced after it was sent.
* **Configuration.** Whatever loads must be something the rest can work with.
* **SSE streams.** A client must not end up with an older state than the server,
  and channels are closed by two parties.
* **Monitor.** It alternates between locked and unlocked sections inside a loop
  over the plugs, and must retry a silent plug, but not too often.

The file `PROJECT.json` lists every such hazard at its line with the properties
that cover it.

## The modules

| Module | Models | Extends |
|---|---|---|
| `PlugState` | the data of a plug and the pure functions on it | |
| `Tasmota` | external: the formats plugs describe themselves in | `PlugState` |
| `StateMerge` | one plug, messages and replies in sequence | `Tasmota` |
| `EventBus` | `PublishStateUpdate` and delivery | `PlugState` |
| `StateLog` | abstract: what the bus promises, one log that all read in order | |
| `BusLog` | the bus with a history of what it published, and how it implements `StateLog` | `EventBus` |
| `PlugManager` | the manager's goroutines, the plugs, the bus | `EventBus`, `Tasmota` |
| `Bridge` | manager, bus, HAP manager, web server, start-up | `PlugManager` |
| `WebStream` | the web server's live pages: `processStateChanges`, SSE clients, `Close` | |
| `Monitor` | `MonitorConnections`, `ConfigureMQTT`, and `pm.mu` as the read-write lock it is | |
| `Config` | `config.Load`, `Validate` and `plugs.LoadConfig` as functions of environment and file | |
| `Lifecycle` | `Main` from start-up to shutdown, component statuses, metrics, lifecycle table, command events, `Bus.Close` | `Config` |
| `StateMergeProofs`, `EventBusProofs`, `BusLogProofs`, `PlugManagerProofs`, `WebStreamProofs`, `MonitorProofs`, `LifecycleProofs` | theorems | the module they are about |
| `BridgeProofs` | theorems about the whole bridge | `Bridge`, `EventBusProofs`, `PlugManagerProofs` |
| `MC*` | constants and bounds for TLC | |

`PlugState` has `State` (`plugs.State`), `OnPublish` (`mqtt.go`), `Merge` (the
field-by-field merge of `ProcessStateEvents`, with the legacy branch for events
without `UpdatedFields`), `ApplyStatus` (what `GetStatus` does with each shape of
reply) and `Equals` (`events/types.go`). A JSON document is a record of what the
program looks up in it. A reading is an integer and the tolerance of
`almostEqual` is `Eps` of them.

`StateMerge` composes them: the plug changes, sends a message in some format or
answers in some format, and the manager's state is compared with the last
reported value of each field.

`EventBus`: `PublishStateUpdate` is one action because all of it holds `stateMu`.
`newTimes` says whether `LastSeen`/`LastUpdated` differ from those last published;
those times are part of `Equals` in the code. The tailscale bus underneath is
external: one FIFO queue per client, and a publication is appended to the queues
of those who subscribed before.

`PlugManager`: a call of `SetPower` or `GetStatus` is a record that passes through
the phases `power`, `status` and `apply`. Between two phases the caller holds no
lock and anything may happen; all that is done under `pm.mu` is one action.
`Apply` is `manager.go:206-251`: the reply is stored and, if it has the full form,
published before the unlock. `MergeEvent` and `PublishCopy` are the two halves of
`ProcessStateEvents`, since the unlock at `manager.go:345` separates them; `copy`
is the local variable that bridges the gap. `PowerFailed` covers the refused
request and the executed one whose answer was lost. `RefreshAll` starts one call
per plug and the caller is busy until all are over.

`Bridge` adds the interfaces. `HomeKitWrite` is the library's part (the value
changes, then the callback runs), `HomeKitSend` is the send on the channel,
which waits for room; `HapReceive` and `WebReceive` are the subscriber loops.
`NewHAPManager` and `NewWebServer` are separate actions of the main goroutine
because the manager's goroutines run already, so updates published before them are
not delivered. `writer` lets as many HomeKit requests be in progress as there are
`Writers`.

`WebStream` goes behind `WebReceive` of `Bridge`, down to the open pages. An update
is only its plug and its number, since all that matters there is which of two is
newer. `Store` and `BroadcastSSE` are the two halves of `processStateChanges`; a
page goes through `Register`, `SnapshotState`, one `PushSnapshot` per plug in ID order,
any number of `WriteEvent`, `Return`, and the deferred `DeferDelete` and
`DeferClose`, between any two of which anything may happen; and it may open the
stream again. `Stop` is the cancelled context and `Close` the deferred call of
`Main`.

`Monitor` counts time in periods of the monitor's ticker. A plug heard of `age`
periods ago was heard of between one period less and one more, so at a limit
(30, 60 or 120 seconds) both outcomes are possible: `MayBeOverdue` and
`MustBeOverdue`, and the sets of `ConnectionStatus`. The goroutine waits for a tick,
enters one of its two loops (`round`), visits plugs under the read lock and leaves
the lock to configure one or to ask one and `ApplyStatus`. `RLock`, `RUnlock`, `Lock`
and `LockedAndUnlocked` are `sync.RWMutex`: a reader waits when a writer does. `Init`
is the moment after start-up, when the configuration of each plug that
`app.go:208-229` tries has succeeded or not. Here a message is merged and published
in one step, since the gap between the two is the business of `PlugManager`, and a
status reply has the full form.

`StateLog` is what those who show the plugs rely on: there is one log of updates,
a reader joins at its end, takes one entry after the other and shows the last it
took of each plug. `BusLog` maps the bus onto it: `subscribed` is `joined`, `view` is
`shown`, and a reader's position is the length of the log less that of its queue. A
publication that is skipped as a duplicate is a step that changes nothing.

`Config` has an environment as a record of what is set and to what, with a port
variable that may be any integer or no number at all, and an address as what
`netip.ParseAddrPort` makes of it. Variables that are only tested by themselves
(PIN, log level and format, paths) are one Boolean. `NamesInSync`, `PortsExist` and
`PlugsAreDistinct` say what a configuration that loads must be; the second covers
port 0, which is refused as a port variable and accepted in a whole address, and an
IPv6 bind address without brackets, which is refused.

`Lifecycle` is one action per step of `Main`, in the order of `stage`: loading (which may
exit), the collector, broker, HAP and web server (each of which may exit on an
error), the wait for the signal, the broker's end, and the deferred calls in reverse
order. `Launch` announces a server and starts its goroutine, which announces that the
server is connected (`Connected`), then calls it, and announces the end of it when the
call comes back (`Ends`). What happens in between is external: `Listen` and
`StopListening` say when the server really accepts connections (`up`), and `Returns`
what the call may return and when. `ListenAndServe` of HAP and web server comes back
once the server has ended; `Serve` of the broker, mochi-mqtt v2.7.9 (`src/go.mod:12`),
starts its listeners in goroutines and comes back at once, while the broker goes on until
`Main` closes it (`StopMQTT`).

One component status goes to the queues of the two who subscribed; `ConsumeStatus` takes
one and `SetGauge` sets one label of it, as `observeStatus` does. A HomeKit callback sends its
command, then publishes the event that is counted; between the two it may be overtaken by the
shutdown. A publication on a bus that is closed is dropped or panics, as the library
may do, and a panic in a goroutine ends the process (`PublishClosed`).

Left out: the HAP manager's activity counters and the web server's event log, which are
shown and read by nothing, the labels of a counted command, rendering, and
logging. An `ErrorEvent` has no subscriber in the program, so a failure changes nothing.

Some variables are history only and guard nothing: `offered` and `owed` on the
bus, `log` in `BusLog`, `wasOn` (the plugs that were on at some time) and `unpublished` in the
manager, `overwritten` in the bridge, `lagging` in the streams, `last`, `told` and `sent` in the
life cycle. They are what
the properties need to remember.

## What the runs show

Passing:

| Run | Properties | Shows |
|---|---|---|
| `state_merge` | `PowerIsLastReported`, `ReadingsAreLastReported`, `SeenOnlyThroughMQTT` | every mix of the message and reply formats leaves each field as last reported |
| `event_bus` | `DrainedViewIsLast`, `SkippedIsNear`, `ReadsTheLog`, `ReadsAllOfTheLog` | a subscriber that handled its queue holds the last update published; skipping never drifts; the bus implements the one log of `StateLog`, and each subscriber reads all of it |
| `plug_manager` | `BusFollowsManager`, `PublishedOnWasReal` | the bus shows the manager's state except in two named situations; a plug is published as on only if it was on at some time, not because that was asked for |
| `bridge` | `InterfacesFollow`, `ShownOnWasReal`, `Converges`, `CommandsAreServed` | end to end: once settled, dashboard and HomeKit show the manager's state, except in the named situations; at no time do they show a plug as on that never was, except what HomeKit wrote itself; under fairness everything ends up agreeing with the plug for good, and no callback or command waits for ever |
| `monitor` | `CallsAreUnlocked`, `LockIsShared`, `SilentIsReconfigured`, `SilenceIsShown` | no request to a plug is made under `pm.mu`, nobody waits for it for ever; a plug that was seen and lost its MQTT settings gets them back; one that fell silent but answers is shown as disconnected |
| `web_stream` | `StreamCatchesUp`, `RegisteredAreOpen`, `OnlyCloseInterrupts`, `ServerNeverWaits` | registering before reading the snapshot leaves no gap; no broadcast meets a closed channel; handlers panic only over `Close` at shutdown; a page that stops reading holds up nobody |
| `lifecycle` | `ConfigurationIsSound`, `MetricsFollow`, `TableFollows`, `CommandsAreCounted`, `CrashComesLast`, `ShutdownEnds` | from loading over every failure to the end of the process: what is announced reaches the metrics, and the table from the moment it subscribed, a command is counted once, a signal always ends the process, and a late publication can only cut short an end that is complete |

Each also checks the type invariant of its module. `BusFollowsManager`,
`InterfacesFollow` and `StreamCatchesUp` are the strong form of "synchronized": they do not say merely
that the interfaces agree in good cases but name every way in which they may not
(`unpublished`, `overwritten`, not yet `owed`, `lagging`).

`PublishedOnWasReal` and `ShownOnWasReal` are about *on* only. Off is what `NewManager` starts
every plug from and what `GetStatus` makes of a reply that lacks the power state, so a plug may be
shown as off that never was; neither property says anything of that, and an off that a refused
command left behind would pass them. That it does not stay so is part of `Converges`.

Violations, each a disagreement of the code with its own text:

| Run | Property | What happens |
|---|---|---|
| `power_reply` | `PowerIsLastReported` | The reply `{"POWER":"ON"}`, which the comment at `manager.go:213` names, unmarshals into the full form without error. The fallback is never reached and the plug is stored and published as off. |
| `bus_in_sync` | `BusInSync` | `ProcessStateEvents` copies the state and unlocks; a `GetStatus` applies and publishes a newer one; then the older copy is published, and stays the last one on the bus. |
| `manager_in_sync` | `ManagerInSync` | A status reply given before a change is applied after the MQTT message about the change, and the older state stays in the manager. |
| `pages_up_to_date` | `PagesUpToDate` | A page reads its snapshot; an update is stored and broadcast to it; then the older snapshot entry is pushed, and stays the last the page was sent. |
| `lifecycle_table` | `ServingIsShown` | The broker runs, yet the lifecycle table of `src/README.md:309` does not show it as connected. The web server subscribes last, so the rows of broker and HAP server are missing (`web.go:82`); and as `Serve` of the broker returns at once, its goroutine announces "disconnected" for the running broker (`app.go:177`), which is what a row would say. |

A HomeKit command that fails is another such disagreement. The characteristic keeps the value
HomeKit wrote before its callback ran, the dashboard shows the real one, and nothing corrects
HomeKit until the next update: `SetPower` only publishes an `ErrorEvent` (`manager.go:160`). It has no
run of its own; `InterfacesFollow` and `ShownOnWasReal` name it (`overwritten`).

`Converges` puts these and the runs `bus_in_sync` and `manager_in_sync` in
proportion: what they show is repaired by the next telemetry of the plug. It depends
on `LastSeen` being part of the duplicate test: with the mutant `DuplicateButTimes` telemetry
that repeats the real state is skipped, and HomeKit stays wrong for ever.

The repository has a skipped test on the same subject, `TestReproduceFourLampsBug`
(`src/state_sync_test.go:285`), which says that it "currently FAILS and reproduces the bug": four
lamps are on, and HomeKit shows two of them as off. It speaks of a delay of two seconds in
`GetStatus` that the code no longer has, so no run reproduces it; what can still leave HomeKit behind are
the situations `InterfacesFollow` names.

Two things `monitor` does not show, because the code does not do them. A plug that
was never seen is tried in the initial check only (`manager.go:376`; the loop for
silent plugs passes over it), where `src/README.md:251` promises reconfiguration
of any plug that is "reachable via HTTP but not MQTT". And the connection state
is computed when an update is published (`manager.go:517`), so a plug that answers
neither over MQTT nor HTTP publishes nothing and keeps its last indicator, where
`src/README.md:305-308` describes one that follows the time since the plug was seen.

What `lifecycle` allows, because the code does it: `TableFollows` is about the components
announced since the web server subscribed (`told`), so the table may lack the rows of broker and HAP
server; the run `lifecycle_table` states the full claim and shows it violated. A scrape in the middle
of `observeStatus` sees two labels of a component at 1, or none; `MetricsFollow` is about
the gauge between events. It follows what is announced, which for the broker is that it is disconnected.
`Main` waits for the collector's two loops only: servers and callbacks may publish on a bus that is
closed, and commands still in the channel are dropped. A command of the dashboard does not pass
the channel and is never counted.

Two restrictions of a passing run should be known. `state_merge` sends complete
ENERGY objects. With a message whose ENERGY entry lacks a reading, `OnPublish`
announces all four readings as updated (`mqtt.go:191-198`) and the missing ones
become zero; the format `PARTIAL` of `Tasmota` shows it when added to `Formats`. And it leaves
out the replies without a power state, `POWER` and `mistyped`, which count as off
(`manager.go:217-219`, `229-234`); `plug_manager` has the latter.

## Bounds

| Bound | Value | Why it is enough |
|---|---|---|
| plugs | 2 in `event_bus`, `plug_manager` and `web_stream`, 1 elsewhere | plugs share only the bus queues, the channel and the worker; two are needed to see one's event handled as the other's |
| `MaxInputs` | 2 or 3 | a race needs one input that changes the plug and one that reads it; the third makes room for a second racing reader |
| `MaxEvents` | 1 or 2 | two let one message wait while another is merged |
| `MaxQueue` | 1 or 2 | two updates queued is the least for an overtaking |
| `CommandCap` | 1 instead of 10 | the channel is full after one command, so `HomeKitSend` really waits |
| pages | 2, of `ChanCap` 1 instead of 10 | one can be stuck while the other is served; a full channel comes with the second update |
| `MaxUpdates` | 2 or 3 | one in the snapshot, one that overtakes it, one that is dropped |
| `MaxLog` | 3 | one update before a subscriber joins, one it reads and one that overtakes or is skipped |
| components of `lifecycle` | broker and web server | the broker is the one `Main` stops itself, the web server the one that fills the table; HAP is like the web server but for the table, and all three are covered by the proofs |
| `MaxWaiting` | 1 in `lifecycle`, 6 in `lifecycle_table` | a goroutine of a server announces only when fewer statuses than that are queued or being observed; `Main` is not bound, so a status of a server can still wait behind, or come during the observation of, one that `Main` announced |
| `Callbacks`, `MaxCommands` | 1 | one command against start-up, shutdown and collector; the proof is for any number |
| environments, plug files | 629 and 2354 | each listener's port, address and bind address in all combinations, one listener at a time, names in all combinations, and all files of up to two entries |
| plugs of `monitor` | 1 | with two the liveness properties are out of reach; `CallsAreUnlocked` is proved for every number |
| `MaxAge` | 5 periods | beyond the last limit of the code, 120 seconds, whatever the rounding |
| readings | one with three values, or none | all four are treated alike; `Eps = 2` on 0..2 has a step inside the tolerance and two that add up to one outside |

`MaxInputs`, `MaxEvents`, `MaxQueue`, `MaxUpdates`, `MaxLog`, `MaxCommands` and `MaxWaiting` bound
what is unbounded in the program; they are guards on outside inputs, periodic
messages and the moments at which an external server connects or ends, never on a step
of the program itself, with two exceptions. `MaxLog` bounds the publications of the bus,
whoever makes them. And a command that reports its result over MQTT
(`Switch`) waits for room among the messages under way, or, where `LossyMQTT`
holds, loses the message. `DistinctTimes = TRUE` says the clock advances between
two updates, which holds for a nanosecond clock except by accident; `plug_manager`
is checked with `FALSE`.

## Fairness

`FairSpec` of `Bridge` has weak fairness for each goroutine: the main one until
both interfaces exist, the two subscriber loops, `ProcessCommands` (one condition
for taking a command and for all its phases, since it is one goroutine),
`ProcessStateEvents`, each waiting HomeKit callback, and each request to a plug.
The Go scheduler runs what is runnable; HTTP requests end because the client has a
timeout, and the model lets them end in failure. Each plug keeps sending
periodic messages, as a Tasmota device does every `TelePeriod`.
`FairSpec` of `WebStream` has weak fairness for `processStateChanges` alone: of the
pages nothing is assumed, they may stop reading for ever.
`FairSpec` of `Monitor` has weak fairness for the clock, the end of a page view and
the monitor, and strong fairness for the two writers: `sync.Mutex`, which orders the
writers of a `RWMutex`, hands itself to the one that has waited longest, so none is
passed over for ever. A plug need not report.
`FairSpec` of `Lifecycle` has weak fairness for `Main` and the two loops of the collector it
waits for, and for nothing else: not for servers, callbacks or the table's loop,
so that `ShutdownEnds` holds whatever they do. In `BusLog` each subscriber's
goroutine is fair, for `ReadsAllOfTheLog`.
Nothing is assumed of inputs: nobody has to press a button, and nothing says a
request ever succeeds.

## What is proved

TLC checks the instances above; these hold for every value of the constants:

| Theorem | Module | States |
|---|---|---|
| `BusTyping` | `EventBusProofs` | `BusSpec => []BusTypeOK` |
| `DrainedView` | `EventBusProofs` | `BusSpec => []DrainedViewIsLast` |
| `NoDrift` | `EventBusProofs` | `BusSpec => []SkippedIsNear` |
| `BusImplementsLog` | `BusLogProofs` | `LogSpec => ReadsTheLog`, that is `Log!Spec` |
| `ManagerTyping` | `PlugManagerProofs` | `ManagerSpec => []ManagerTypeOK` |
| `BusFollows` | `PlugManagerProofs` | `ManagerSpec => []BusFollowsManager` |
| `OnlyRealOnIsPublished` | `PlugManagerProofs` | `ManagerSpec => []PublishedOnWasReal` |
| `BridgeTyping` | `BridgeProofs` | `Spec => []BridgeTypeOK` |
| `BridgeKeepsToBus` | `BridgeProofs` | `Spec => [][BusNext]_busVars` |
| `InterfacesShowManager` | `BridgeProofs` | `Spec => []InterfacesFollow` |
| `OnlyRealOnIsShown` | `BridgeProofs` | `Spec => []ShownOnWasReal` |
| `MergeTyping` | `StateMergeProofs` | `Spec => []TypeOK` |
| `SeenThroughMQTT` | `StateMergeProofs` | `Spec => []SeenOnlyThroughMQTT` |
| `PowerFollowsReports` | `StateMergeProofs` | `Spec => []PowerIsLastReported`, unless the plug answers with the simple `POWER` response or a mistyped reply without the power state |
| `ReadingsFollowReports` | `StateMergeProofs` | `Spec => []ReadingsAreLastReported`, unless the plug answers with the simple `POWER` response or sends incomplete ENERGY objects |
| `WebTyping` | `WebStreamProofs` | `Spec => []WebTypeOK` |
| `PagesCatchUp` | `WebStreamProofs` | `Spec => []StreamCatchesUp` |
| `BroadcastIsSafe` | `WebStreamProofs` | `Spec => []RegisteredAreOpen` |
| `PanicsOnlyAtShutdown` | `WebStreamProofs` | `Spec => []OnlyCloseInterrupts` |
| `MonitorTyping` | `MonitorProofs` | `Spec => []MonitorTypeOK` |
| `CallsUnlocked` | `MonitorProofs` | `Spec => []CallsAreUnlocked` |
| `LifecycleTyping` | `LifecycleProofs` | `Spec => []LifecycleTypeOK` |
| `CrashIsLast` | `LifecycleProofs` | `Spec => []CrashComesLast` |
| `MetricsFollowStatuses` | `LifecycleProofs` | `Spec => []MetricsFollow` |
| `TableFollowsStatuses` | `LifecycleProofs` | `Spec => []TableFollows` |
| `CommandsCounted` | `LifecycleProofs` | `Spec => []CommandsAreCounted` |
| `ConfigurationSound` | `LifecycleProofs` | `Spec => []ConfigurationIsSound` |

Assumptions are those of the modules: `ReadingAssumption` (values are integers,
zero is one, the tolerance is positive), `FieldAssumption` (the names of readings are not
those of the other fields of a state), `FormatAssumption` (the formats are among those of
`Tasmota`), `NoneAssumption` (the "nothing" value is
neither a state nor an update), `ManagerAssumption` (the parameters have their
types, the worker is no web request, foreign IDs are foreign), `BridgeAssumption` (HAP
manager and web server are the two subscribers, accessories belong to plugs), `WebAssumption` (plugs
are numbered, a channel has room for at least one message), `MonitorAssumption`
(the goroutines are different, "no plug" is no plug), `ConfigAssumption` (environments
and plug files have the form they are described by, and what is not set is no
value) and `LifecycleAssumption` (the components are the program's, callbacks are
finitely many, "nothing" is no status).

*`DrainedView`.* The invariant is not inductive: a subscriber that is owed a plug
must itself be subscribed, or the next publication would pass it by. The
strengthening is type correctness, `OwedAreSubscribed` and `DrainedViewIsLast`.
`PublishReaches` says a publication becomes the last pending one of its plug and
disturbs no other; `DeliverKeeps` says that taking the head of a queue moves what
is due from queue to view. Both rest on how `Append` and `Tail` shift the
positions of pending updates.

*`NoDrift`.* Skipping compares with the last update *published*, so the state
offered is always either that one or within the tolerance of it.

*`BusImplementsLog`.* `QueueIsRest` says of each subscriber that its queue is the end of the
log, entry by entry, and that there is none before it joined. With it a
subscription maps to `Join` (the queue is empty, the position the length of the log), a
publication to `Add` (every queue and the log grow by the same entry, so no
position moves), a delivery to `Read` (the head of the queue is the entry after the
position), and a duplicate to a stutter. `ReadsAllOfTheLog` adds fairness and is left
to TLC.

*`ManagerTyping`.* The type invariant is split into parts (`Parts`) so that each
action proves only what it touches: calls, merge, copy, inputs.

*`BusFollows`.* `PublishEffect` reduces a publication to its effect on
`lastStates`: the entry of its plug becomes the state offered, or already equals
it up to the tolerance, and no other changes. Each step then either keeps manager
and bus of a plug in agreement, makes the copy that will restore it, or puts the
plug in `unpublished`.

*`OnlyRealOnIsPublished`.* What is published was in `states`, in the copy of `ProcessStateEvents`, in a
message or in a reply before, so `RealInv` says of all of these that where they say on, the
plug was on by then (`PlugsWereReal`, `EventsWereReal`, `RepliesWereReal`,
`CopyWasReal`). The set `wasOn` only grows (`WasOnGrows`), which is why nothing becomes
unreal by being late. `EventOn` and `ReplyOn` say of each format that it says on only of a plug that
is. Of off the theorem says nothing: it is what every plug starts from in the manager.

*`BridgeTyping`* and the two theorems after it reuse the steps of bus and manager instead of
proving them again. `BridgeSteps` sorts the steps of the bridge into steps of the
manager, of a subscriber and writes of HomeKit. `ManagerUsesBus` says that the manager
touches the bus only by publishing states of its plugs, so that every step of the
bridge is one of the bus (`BridgeKeepsToBus`), and the lemmas about a step of the bus
(`BusStepTyping`, `DrainedStep`) and of the manager (`StepTyping`, `FollowsStep`, `RealStep`) apply.

*`InterfacesShowManager`.* Once settled, the manager's state equals the last one on the bus
(`BusFollowsManager`, as no copy is on its way), the last one on the bus is what a
subscriber with an empty queue holds (`DrainedViewIsLast`), and HomeKit shows what its
manager holds unless it wrote since (`HomeKitShowsView`). None of the three is enough,
and none is inductive without types and `OwedAreSubscribed`. `PublishedAreStates` is needed because
the bus compares with what was published before: `NewManager` publishes every plug
first, so there always is something.

*`OnlyRealOnIsShown`.* `ShownInv` carries `RealInv` on through the queues (`QueuesWereReal`) to what the
subscribers hold and HomeKit shows. A HomeKit write is the one way an unreal on
gets in, and it ends with the next update handled (`overwritten`).

*`MergeTyping`* to *`ReadingsFollowReports`.* `MessageContents` says what `OnPublish` finds in a message of
each format, `MergedMessage` and `ReplyApplied` what becomes of the state: a field is
replaced exactly when the format has it. Three formats are different, and the theorems name
them as hypotheses, since the code does not keep the properties with them: the reply
`POWER` is the one the run `power_reply` shows, `mistyped` is a reply of the wrong types that lacks
the power state and counts as off, and `PARTIAL` is an ENERGY object that lacks
readings, which become zero. `PowerFollowsReports` excludes the first two, `ReadingsFollowReports`
the first and the last; the other two theorems allow all three.

*`PagesCatchUp`.* `StreamInv` has the property in a form without `CHOOSE` (`PagesCaughtUp`, equal by
`DueIsShown`) and three facts it leans on. An update in the broadcaster's hands is the current
state of its plug (`BroadcastIsCurrent`): without it a broadcast could bring back an older
one. A handler that uses its channel is registered until `Close` (`AliveAreRegistered`), so the
broadcast passes none by. A plug without a state is on no channel, page or snapshot (`UnknownAreUnseen`), since
the snapshot has nothing to push of it. `SendShows` and `WriteKeeps` say that a
message sent is the last one due of its plug, and that writing one to the page
changes nothing of what is due.

*`BroadcastIsSafe`* and *`PanicsOnlyAtShutdown`.* A channel is closed by `Close` or by the
deferred call of its handler, and sent on by the broadcast or the handler.
`ChannelInv` says together who may still use one: a registered client's handler is
alive (`RegisteredAreAlive`), its channel is open, a channel in use is open as long as
`Close` has not run (`UsedAreOpen`), and a handler that panicked did so after it.
`HandlerStep` has one case per step of a handler, `ChannelStep` adds the server's.

*`CallsUnlocked`.* `CallsAreUnlocked` is inductive together with `NobodyWaitsTwice`: when a
writer is done, those who waited to read hold the lock, and the monitor must not be
among them while it makes a call.

*`CrashIsLast`.* `StageInv` says how far the shutdown has come at each stage. A panic needs
a closed bus, the bus closes after `Main` has waited for the loops, and a loop that has
ended is at no event; without the subscriptions and loops of each stage none of
this is inductive.

*`MetricsFollowStatuses`.* The gauge is wrong between two labels, so `LabelsSet` says that
those `observeStatus` has passed are right already; when the last is set the gauge is
exactly the status of the event. `QuietAtFirst` says nothing was published
before the collector subscribed. The queue lemmas `AppendStatus`, `TakeStatus` and
`PublicationReaches` say that a status published becomes the last one pending of its
component and that taking the head leaves the others as they were.
*`TableFollowsStatuses`* uses the same lemmas with `EmptyAtFirst`, *`CommandsCounted`* counts the
callbacks between channel and bus, a finite set that gains or loses one.

*`ConfigurationSound`.* Each of its three parts follows from what `Loads` and `PlugsLoad` test,
for any environment and file that `ConfigAssumption` allows.

Model-checked only: the liveness properties, `ReadsAllOfTheLog` among them, which are
outside the prover's reach because they need fairness and `ENABLED`. Every safety property the passing
runs check is also a theorem, for `StateMerge` under the hypotheses named above.

## Not modelled, and the plan

Debug pages and logging change no state, the Nix files describe build and
deployment. Of the web server the event log is left out: a list of texts for
display, written by requests without a lock (`web.go:95`), of which the repository
promises nothing. What remains is planned in this order:

1. Theorems: what a message with incomplete ENERGY objects does to each reading
   (`MergedMessage` leaves that of `PARTIAL` open); that the bridge, whose bus starts with the
   publications of `NewManager`, implements `StateLog` as `BusImplementsLog` shows of the bus alone.
2. The two gaps of the monitor named above as runs of their own: the plug that was
   never seen and the indicator that stands still.
