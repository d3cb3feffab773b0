-------------------------------- MODULE Monitor --------------------------------
(***************************************************************************)
(* plugs/manager.go, MonitorConnections: the goroutine that looks every 30    *)
(* seconds for plugs that were never or not lately heard of over MQTT, asks    *)
(* them over HTTP and configures their MQTT anew.                            *)
(*                                                                         *)
(* It shares pm.mu with ProcessStateEvents, which takes it to write, and with *)
(* page views, which take it to read.  The lock is a sync.RWMutex: a reader    *)
(* waits while a writer waits, and the readers that wait go first when a       *)
(* writer is done.  What a writer does under the lock is one step, together    *)
(* with the unlocking.                                                      *)
(*                                                                         *)
(* Time is counted in periods of the ticker.  A plug last heard of `age`      *)
(* periods ago was heard of between age - 1 and age + 1 times 30 seconds ago. *)
(***************************************************************************)
EXTENDS Integers

CONSTANTS
  Plugs,
  Monitor, Events, Page,  \* the goroutines: monitor, event loop, a page view
  None                    \* no plug

ASSUME MonitorAssumption ==
  /\ None \notin Plugs
  /\ Monitor # Events /\ Monitor # Page /\ Events # Page

VARIABLES
  reachable,    \* external: does the plug answer over HTTP
  configured,   \* external: does it report to the broker
  seen,         \* is LastSeen not zero
  age,          \* how many periods ago LastSeen is, if seen; counted up to MaxAge
  indicator,    \* the connection state last published
  merging,      \* the plug whose message ProcessStateEvents holds, or None
  ticked,       \* is there a tick in the ticker's channel
  elapsed,      \* periods since the monitor started, up to the initial check
  initialDone,  \* initialCheckDone
  phase,        \* what the monitor does: wait for a tick, enter a loop, visit
                \* plugs, configure one, ask one for its status, apply the reply
  round,        \* which of its two loops it is in
  todo,         \* the plugs left in the loop
  at,           \* the plug it is busy with
  readers,      \* pm.mu: who holds it to read,
  blocked,      \* who waits to read,
  pending       \* who waits to write

plugVars == <<reachable, configured>>
loopVars == <<initialDone, phase, round, todo, at>>
muVars == <<readers, blocked, pending>>
vars == <<plugVars, seen, age, indicator, merging, ticked, elapsed, loopVars, muVars>>

MaxAge == 5

(* connectionStatus: what a plug may be shown as, 30 and 60 seconds after     *)
(* LastSeen being the limits.                                               *)
ConnectionStatus(p) ==
  {s \in {"connected", "stale", "disconnected"} :
     \/ s = "connected" /\ seen[p] /\ age[p] <= 1
     \/ s = "stale" /\ seen[p] /\ age[p] \in {1, 2}
     \/ s = "disconnected" /\ (~seen[p] \/ age[p] >= 2)}

(* More than 120 seconds after LastSeen.                                    *)
MayBeOverdue(p)  == seen[p] /\ age[p] >= 4
MustBeOverdue(p) == seen[p] /\ age[p] = MaxAge

------------------------------------------------------------------------------
(* pm.mu.                                                                   *)
RLock(g) == IF pending = {}
            THEN readers' = readers \cup {g} /\ UNCHANGED <<blocked, pending>>
            ELSE blocked' = blocked \cup {g} /\ UNCHANGED <<readers, pending>>

RUnlock(g) == readers' = readers \ {g} /\ UNCHANGED <<blocked, pending>>

Lock(g) == pending' = pending \cup {g} /\ UNCHANGED <<readers, blocked>>

(* g has the lock to write, and gives it back.                              *)
LockedAndUnlocked(g) == /\ g \in pending /\ readers = {}
                        /\ pending' = pending \ {g}
                        /\ readers' = blocked
                        /\ blocked' = {}

------------------------------------------------------------------------------
(* A moment after start-up, before the first tick: the program has tried to    *)
(* configure every plug, and some have reported by now.                      *)
Init ==
  /\ reachable \in [Plugs -> BOOLEAN]
  /\ configured \in [Plugs -> BOOLEAN]
  /\ seen = [p \in Plugs |-> FALSE]
  /\ age = [p \in Plugs |-> 0]
  /\ indicator = [p \in Plugs |-> "disconnected"]
  /\ merging = None
  /\ ticked = FALSE /\ elapsed = 0
  /\ initialDone = FALSE /\ phase = "ticker" /\ round = "initial"
  /\ todo = {} /\ at = None
  /\ readers = {} /\ blocked = {} /\ pending = {}

(* Another 30 seconds pass; a tick that nobody fetched is dropped.           *)
Elapse ==
  /\ ticked' = TRUE
  /\ elapsed' = IF elapsed < 3 THEN elapsed + 1 ELSE elapsed
  /\ age' = [p \in Plugs |-> IF seen[p] /\ age[p] < MaxAge THEN age[p] + 1 ELSE age[p]]
  /\ UNCHANGED <<plugVars, seen, indicator, merging, loopVars, muVars>>

(* A plug leaves the network or comes back, or loses its MQTT settings.      *)
PlugChanges(p) ==
  /\ \/ reachable' = [reachable EXCEPT ![p] = ~@] /\ UNCHANGED configured
     \/ configured' = [configured EXCEPT ![p] = FALSE] /\ UNCHANGED reachable
  /\ UNCHANGED <<seen, age, indicator, merging, ticked, elapsed, loopVars, muVars>>

(* ProcessStateEvents receives a message of plug p and wants the lock ...     *)
MessageArrives(p) ==
  /\ reachable[p] /\ configured[p] /\ merging = None
  /\ merging' = p
  /\ Lock(Events)
  /\ UNCHANGED <<plugVars, seen, age, indicator, ticked, elapsed, loopVars>>

(* ... merges it, and publishes the state with the connection state.         *)
MergeMessage ==
  /\ LockedAndUnlocked(Events)
  /\ seen' = [seen EXCEPT ![merging] = TRUE]
  /\ age' = [age EXCEPT ![merging] = 0]
  /\ indicator' = [indicator EXCEPT ![merging] = "connected"]
  /\ merging' = None
  /\ UNCHANGED <<plugVars, ticked, elapsed, loopVars>>

(* A page view takes a Snapshot.                                            *)
ViewPage == /\ Page \notin readers \cup blocked
            /\ RLock(Page)
            /\ UNCHANGED <<plugVars, seen, age, indicator, merging, ticked, elapsed, loopVars>>
PageDone == /\ Page \in readers
            /\ RUnlock(Page)
            /\ UNCHANGED <<plugVars, seen, age, indicator, merging, ticked, elapsed, loopVars>>

------------------------------------------------------------------------------
(* MonitorConnections.                                                      *)
ClockAndPlugs == <<seen, age, merging, ticked, elapsed>>

(* Mutant: the monitor is over after the initial check.                     *)
TickReturning ==
  /\ phase = "ticker" /\ ticked
  /\ ticked' = FALSE
  /\ initialDone' = TRUE
  /\ phase' = IF initialDone THEN "returned" ELSE "enter"
  /\ UNCHANGED <<plugVars, seen, age, indicator, merging, elapsed, muVars, round, todo, at>>

(* A tick.  The initial check is due more than 60 seconds after the start;   *)
(* from then on there is the check for silent plugs.                        *)
Tick ==
  /\ phase = "ticker" /\ ticked
  /\ ticked' = FALSE
  /\ \/ /\ ~initialDone /\ elapsed <= 2
        /\ UNCHANGED loopVars
     \/ /\ ~initialDone => elapsed >= 2
        /\ round' = IF initialDone THEN "silent" ELSE "initial"
        /\ initialDone' = TRUE
        /\ phase' = "enter"
        /\ UNCHANGED <<todo, at>>
  /\ UNCHANGED <<plugVars, seen, age, indicator, merging, elapsed, muVars>>

(* The lock is taken, before the loop and after each call in it.             *)
EnterLoop ==
  /\ phase = "enter"
  /\ RLock(Monitor)
  /\ phase' = "loop"
  /\ todo' = IF at = None THEN Plugs ELSE todo
  /\ at' = None
  /\ UNCHANGED <<plugVars, indicator, ClockAndPlugs, initialDone, round>>

(* What the loop asks for: never seen, or not seen for 120 seconds.          *)
MayNeedCall(p)  == IF round = "initial" THEN ~seen[p] ELSE MayBeOverdue(p)
MustNeedCall(p) == IF round = "initial" THEN ~seen[p] ELSE MustBeOverdue(p)

(* Mutant: the lock is kept during the calls.                               *)
VisitPlugLocked(p) ==
  /\ phase = "loop" /\ Monitor \in readers /\ p \in todo
  /\ todo' = todo \ {p}
  /\ \/ /\ MayNeedCall(p)
        /\ at' = p
        /\ phase' = IF round = "initial" THEN "configure" ELSE "status"
     \/ ~MustNeedCall(p) /\ UNCHANGED <<phase, at>>
  /\ UNCHANGED <<plugVars, indicator, ClockAndPlugs, initialDone, round, muVars>>

(* The next plug of the loop.  The lock is released for the calls about it.   *)
VisitPlug(p) ==
  /\ phase = "loop" /\ Monitor \in readers /\ p \in todo
  /\ todo' = todo \ {p}
  /\ \/ /\ MayNeedCall(p)
        /\ at' = p
        /\ phase' = IF round = "initial" THEN "configure" ELSE "status"
        /\ RUnlock(Monitor)
     \/ ~MustNeedCall(p) /\ UNCHANGED <<phase, at, muVars>>
  /\ UNCHANGED <<plugVars, indicator, ClockAndPlugs, initialDone, round>>

(* Mutant: the lock is not released after a loop that made no call.          *)
LeaveLoopLocked ==
  /\ phase = "loop" /\ Monitor \in readers /\ todo = {}
  /\ IF round = "initial" THEN round' = "silent" /\ phase' = "enter"
                          ELSE phase' = "ticker" /\ UNCHANGED round
  /\ UNCHANGED <<plugVars, indicator, ClockAndPlugs, initialDone, todo, at, muVars>>

(* The loop is over; the one for silent plugs follows the initial one.       *)
LeaveLoop ==
  /\ phase = "loop" /\ Monitor \in readers /\ todo = {}
  /\ RUnlock(Monitor)
  /\ IF round = "initial" THEN round' = "silent" /\ phase' = "enter"
                          ELSE phase' = "ticker" /\ UNCHANGED round
  /\ UNCHANGED <<plugVars, indicator, ClockAndPlugs, initialDone, todo, at>>

(* ConfigureMQTT.  In the initial check a plug that took it is asked for its  *)
(* status; otherwise the loop goes on.                                      *)
ConfigureMQTT ==
  /\ phase = "configure"
  /\ configured' = [configured EXCEPT ![at] = @ \/ reachable[at]]
  /\ phase' = IF reachable[at] /\ round = "initial" THEN "status" ELSE "enter"
  /\ UNCHANGED <<reachable, indicator, ClockAndPlugs, initialDone, round, todo, at, muVars>>

(* GetStatus: the request, which fails for a plug that is not reachable; the   *)
(* replies are taken to be of the full form ...                             *)
AskStatus ==
  /\ phase = "status"
  /\ IF reachable[at] THEN phase' = "apply" /\ Lock(Monitor)
                      ELSE phase' = "enter" /\ UNCHANGED muVars
  /\ UNCHANGED <<plugVars, indicator, ClockAndPlugs, initialDone, round, todo, at>>

(* Mutant: the monitor only asks.                                           *)
ApplyStatusOnly ==
  /\ phase = "apply"
  /\ LockedAndUnlocked(Monitor)
  /\ \E status \in ConnectionStatus(at) : indicator' = [indicator EXCEPT ![at] = status]
  /\ phase' = "enter"
  /\ UNCHANGED <<plugVars, ClockAndPlugs, initialDone, round, todo, at>>

(* Mutant: the reply is applied and not published.                          *)
ApplySilently ==
  /\ phase = "apply"
  /\ LockedAndUnlocked(Monitor)
  /\ phase' = IF round = "silent" THEN "configure" ELSE "enter"
  /\ UNCHANGED <<plugVars, indicator, ClockAndPlugs, initialDone, round, todo, at>>

(* ... and the reply, published with the connection state.  A silent plug     *)
(* that answered is configured.                                             *)
ApplyStatus ==
  /\ phase = "apply"
  /\ LockedAndUnlocked(Monitor)
  /\ \E status \in ConnectionStatus(at) : indicator' = [indicator EXCEPT ![at] = status]
  /\ phase' = IF round = "silent" THEN "configure" ELSE "enter"
  /\ UNCHANGED <<plugVars, ClockAndPlugs, initialDone, round, todo, at>>

MonitorStep ==
  \/ Tick \/ EnterLoop \/ \E p \in Plugs : VisitPlug(p)
  \/ LeaveLoop \/ ConfigureMQTT \/ AskStatus \/ ApplyStatus

Next ==
  \/ Elapse \/ MergeMessage \/ ViewPage \/ PageDone \/ MonitorStep
  \/ \E p \in Plugs : PlugChanges(p) \/ MessageArrives(p)

Spec == Init /\ [][Next]_vars

(* The ticker ticks, the goroutines are scheduled, and HTTP requests end.  A   *)
(* plug need not report at all.  Where several wait to write, the strong      *)
(* conditions say that none is passed over for ever: sync.Mutex, which orders *)
(* the writers, hands itself to the one that has waited longest.              *)
FairSpec == /\ Spec
            /\ WF_vars(Elapse) /\ WF_vars(PageDone) /\ WF_vars(MonitorStep)
            /\ SF_vars(MergeMessage) /\ SF_vars(ApplyStatus)

------------------------------------------------------------------------------
MonitorTypeOK ==
  /\ reachable \in [Plugs -> BOOLEAN] /\ configured \in [Plugs -> BOOLEAN]
  /\ seen \in [Plugs -> BOOLEAN] /\ age \in [Plugs -> 0 .. MaxAge]
  /\ indicator \in [Plugs -> {"connected", "stale", "disconnected"}]
  /\ merging \in Plugs \cup {None}
  /\ ticked \in BOOLEAN /\ elapsed \in 0 .. 3 /\ initialDone \in BOOLEAN
  /\ phase \in {"ticker", "enter", "loop", "configure", "status", "apply"}
  /\ round \in {"initial", "silent"}
  /\ todo \in SUBSET Plugs /\ at \in Plugs \cup {None}
  /\ readers \in SUBSET {Monitor, Page} /\ blocked \in SUBSET {Monitor, Page}
  /\ pending \in SUBSET {Monitor, Events}

(* No request to a plug is made under pm.mu, where it would hold up every     *)
(* message and page, and end in the monitor waiting for itself in GetStatus    *)
(* (manager.go:381, 421); and between the loops the lock is free.             *)
CallsAreUnlocked ==
  phase # "loop" => Monitor \notin readers \cup blocked

(* Whoever waits for pm.mu gets it: messages are merged and pages shown       *)
(* whatever the monitor finds, and it is never stuck itself.                  *)
LockIsShared ==
  /\ Events \in pending ~> Events \notin pending
  /\ Monitor \in pending ~> Monitor \notin pending
  /\ Page \in blocked ~> Page \notin blocked
  /\ Monitor \in blocked ~> Monitor \notin blocked

(* "Automatically reconfigures MQTT if plug is reachable via HTTP but not      *)
(* MQTT" (README.md:251), for a plug that was seen once, whatever happens at   *)
(* the same time.  (One never seen is tried once only, manager.go:376-380.)    *)
SilentIsReconfigured ==
  \A p \in Plugs : (seen[p] /\ reachable[p] /\ ~configured[p]) ~>
                      (configured[p] \/ ~reachable[p])

(* A plug that has fallen silent but still answers over HTTP does not keep an  *)
(* old connection state for ever: the monitor's question has it published     *)
(* anew (connectionStatus is evaluated then only, manager.go:517).            *)
SilenceIsShown ==
  \A p \in Plugs : (age[p] = MaxAge /\ reachable[p]) ~>
                      (indicator[p] = "disconnected" \/ ~reachable[p] \/ age[p] < MaxAge)
==============================================================================
