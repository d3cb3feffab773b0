------------------------------- MODULE EventBus -------------------------------
(***************************************************************************)
(* events/bus.go: the publication of plug state updates, deduplicated        *)
(* against the last one published, and their delivery to the subscribers    *)
(* (HAP manager and web server).                                            *)
(*                                                                         *)
(* The tailscale event bus under it is external: a client has one queue     *)
(* without limit, a publication is appended to the queue of every client     *)
(* subscribed at that moment, in the same order for all, and the owner of    *)
(* the client takes events off its queue one at a time.                     *)
(***************************************************************************)
EXTENDS PlugState

CONSTANTS
  Subscribers,  \* the clients that subscribe to state updates
  None          \* no state yet

Update == [plug : Plugs, state : State]

ASSUME NoneAssumption == None \notin State /\ None \notin Update

VARIABLES
  lastStates,  \* Bus.lastStates: the last update published, per plug
  subscribed,  \* the clients that have subscribed so far
  queue,       \* external: the updates each client has yet to receive
  view,        \* the update of each plug that a subscriber handled last
  offered,     \* history: the state last handed to PublishStateUpdate
  owed         \* history: plugs published since the client subscribed

busVars == <<lastStates, subscribed, queue, view, offered, owed>>

BusInit ==
  /\ lastStates = [p \in Plugs |-> None]
  /\ subscribed = {}
  /\ queue = [s \in Subscribers |-> <<>>]
  /\ view = [s \in Subscribers |-> [p \in Plugs |-> None]]
  /\ offered = [p \in Plugs |-> None]
  /\ owed = [s \in Subscribers |-> {}]

(* eventbus.Subscribe[StateUpdateEvent](client): done once by NewHAPManager  *)
(* and once by NewWebServer (web.go:81).                                    *)
Subscribe(s) ==
  /\ s \notin subscribed
  /\ subscribed' = subscribed \cup {s}
  /\ UNCHANGED <<lastStates, queue, view, offered, owed>>

(* Mutant: an update is compared with the last one offered.                 *)
DuplicateOfOffered(p, state, newTimes) ==
  lastStates[p] # None /\ ~newTimes /\ Equals(state, offered[p])

(* Mutant: the recorded times are no part of the comparison.                *)
DuplicateButTimes(p, state, newTimes) ==
  lastStates[p] # None /\ Equals(state, lastStates[p])

(* event.Equals(last): the recorded times LastSeen and LastUpdated (and the  *)
(* note made from the former) are part of the comparison; newTimes says      *)
(* whether they differ from those of the last update published.             *)
Duplicate(p, state, newTimes) ==
  lastStates[p] # None /\ ~newTimes /\ Equals(state, lastStates[p])

(* Mutant: the last state is stored before it is known to be published.      *)
PublishStoringFirst(p, state, newTimes) ==
  /\ offered' = [offered EXCEPT ![p] = state]
  /\ lastStates' = [lastStates EXCEPT ![p] = state]
  /\ IF Duplicate(p, state, newTimes)
     THEN UNCHANGED <<queue, owed>>
     ELSE /\ queue' = [s \in Subscribers |->
                         IF s \in subscribed
                         THEN Append(queue[s], [plug |-> p, state |-> state])
                         ELSE queue[s]]
          /\ owed' = [s \in Subscribers |->
                        IF s \in subscribed THEN owed[s] \cup {p} ELSE owed[s]]
  /\ UNCHANGED <<subscribed, view>>

(* PublishStateUpdate, all of it under stateMu.                             *)
PublishStateUpdate(p, state, newTimes) ==
  /\ offered' = [offered EXCEPT ![p] = state]
  /\ IF Duplicate(p, state, newTimes)
     THEN UNCHANGED <<lastStates, queue, owed>>
     ELSE /\ queue' = [s \in Subscribers |->
                         IF s \in subscribed
                         THEN Append(queue[s], [plug |-> p, state |-> state])
                         ELSE queue[s]]
          /\ lastStates' = [lastStates EXCEPT ![p] = state]
          /\ owed' = [s \in Subscribers |->
                        IF s \in subscribed THEN owed[s] \cup {p} ELSE owed[s]]
  /\ UNCHANGED <<subscribed, view>>

(* Mutant: the subscriber keeps the whole update where the state belongs.    *)
DeliverWhole(s) ==
  /\ queue[s] # <<>>
  /\ view' = [view EXCEPT ![s][Head(queue[s]).plug] = Head(queue[s])]
  /\ queue' = [queue EXCEPT ![s] = Tail(queue[s])]
  /\ UNCHANGED <<lastStates, subscribed, offered, owed>>

(* Mutant: the newest update is received first.                             *)
DeliverNewest(s) ==
  /\ queue[s] # <<>>
  /\ LET newest == queue[s][Len(queue[s])]
     IN view' = [view EXCEPT ![s][newest.plug] = newest.state]
  /\ queue' = [queue EXCEPT ![s] = SubSeq(@, 1, Len(@) - 1)]
  /\ UNCHANGED <<lastStates, subscribed, offered, owed>>

(* Mutant: updates are received in pairs.                                  *)
DeliverInPairs(s) ==
  /\ Len(queue[s]) >= 2
  /\ LET second == queue[s][2]
     IN view' = [view EXCEPT ![s][second.plug] = second.state]
  /\ queue' = [queue EXCEPT ![s] = Tail(Tail(@))]
  /\ UNCHANGED <<lastStates, subscribed, offered, owed>>

(* Mutant: an update is received once another one waits behind it.           *)
DeliverBehind(s) ==
  /\ Len(queue[s]) >= 2
  /\ view' = [view EXCEPT ![s][Head(queue[s]).plug] = Head(queue[s]).state]
  /\ queue' = [queue EXCEPT ![s] = Tail(queue[s])]
  /\ UNCHANGED <<lastStates, subscribed, offered, owed>>

(* A subscriber's loop receives the next update and stores it.              *)
Deliver(s) ==
  /\ queue[s] # <<>>
  /\ view' = [view EXCEPT ![s][Head(queue[s]).plug] = Head(queue[s]).state]
  /\ queue' = [queue EXCEPT ![s] = Tail(queue[s])]
  /\ UNCHANGED <<lastStates, subscribed, offered, owed>>

BusNext ==
  \/ \E s \in Subscribers : Subscribe(s) \/ Deliver(s)
  \/ \E p \in Plugs, state \in State, newTimes \in BOOLEAN :
        PublishStateUpdate(p, state, newTimes)

BusSpec == BusInit /\ [][BusNext]_busVars

------------------------------------------------------------------------------
MaybeState == State \cup {None}

BusTypeOK ==
  /\ lastStates \in [Plugs -> MaybeState]
  /\ subscribed \in SUBSET Subscribers
  /\ queue \in [Subscribers -> Seq(Update)]
  /\ view \in [Subscribers -> [Plugs -> MaybeState]]
  /\ offered \in [Plugs -> MaybeState]
  /\ owed \in [Subscribers -> SUBSET Plugs]

(* The positions of plug p in the queue of s.                               *)
Pending(s, p) == {i \in DOMAIN queue[s] : queue[s][i].plug = p}

(* Once s has handled all that is queued for it, it holds st for plug p.    *)
WillHold(s, p, st) ==
  \/ Pending(s, p) = {} /\ view[s][p] = st
  \/ \E i \in Pending(s, p) : /\ \A j \in Pending(s, p) : j <= i
                              /\ queue[s][i].state = st

(* No update is lost and none is overtaken: whatever a subscriber was sent   *)
(* since it subscribed, it ends up with the last update published of every   *)
(* plug, the one later publications are compared with (bus.go:85-111).       *)
DrainedViewIsLast ==
  \A s \in Subscribers : \A p \in owed[s] : WillHold(s, p, lastStates[p])

(* Deduplication does not let small changes add up: the last update published *)
(* stays within the tolerance of the last state that was offered, however    *)
(* many were skipped in between (bus.go:89-97, almostEqual in types.go:58).  *)
SkippedIsNear ==
  \A p \in Plugs : offered[p] # None =>
     /\ lastStates[p] # None
     /\ \/ offered[p] = lastStates[p]
        \/ Equals(offered[p], lastStates[p])
==============================================================================
