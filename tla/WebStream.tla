------------------------------- MODULE WebStream -------------------------------
(***************************************************************************)
(* web.go: the live dashboard.  processStateChanges takes updates off the    *)
(* bus, stores each in currentState and offers it to every SSE client;       *)
(* HandleSSE, one goroutine per open page, registers a channel of its own,   *)
(* pushes a snapshot onto it, and writes what comes out of it to the page.   *)
(*                                                                         *)
(* An update is its plug and its number in the order of publication: all that *)
(* is asked here is which of two is newer.  0 stands for none.               *)
(*                                                                         *)
(* The goroutines meet at stateMu (currentState) and sseClientsMu            *)
(* (sseClients); what is done under one of them in one go is one step.  A     *)
(* broadcast is one step although it sends to one channel after another:      *)
(* each send touches one client only, and nobody is added or removed          *)
(* meanwhile.                                                               *)
(***************************************************************************)
EXTENDS Integers, Sequences

CONSTANTS
  Plugs,       \* plugs, as numbers in the order of their IDs
  Clients,     \* pages that can be open at a time
  ChanCap,     \* capacity of a client's channel
  MaxUpdates,  \* bound on the updates published
  None         \* no update

ASSUME WebAssumption == /\ Plugs \subseteq Nat
                        /\ ChanCap \in Nat \ {0}
                        /\ MaxUpdates \in Nat
                        /\ None \notin [plug : Plugs, number : Nat]

VARIABLES
  published,     \* external: the number of updates published so far
  inbox,         \* external: the bus queue of stateSubscriber
  currentState,  \* WebServer.currentState
  broadcast,     \* the update stored and not broadcast yet, or None
  sseClients,    \* WebServer.sseClients
  handler,       \* where the HandleSSE of each client is
  snapshot,      \* the updates it has yet to push of its snapshot
  channel,       \* its channel
  closed,        \* whether that is closed
  shown,         \* what the page was sent of each plug last
  stage,         \* of the program: running, context cancelled, Close called
  lagging        \* history: the plugs of which an update was dropped, or was
                 \* followed by an older one, and none sent since

vars == <<published, inbox, currentState, broadcast, sseClients, handler,
          snapshot, channel, closed, shown, stage, lagging>>

Update == [plug : Plugs, number : 1 .. MaxUpdates]
Numbers == [Plugs -> 0 .. MaxUpdates]
Nothing == [p \in Plugs |-> 0]

Init ==
  /\ published = 0
  /\ inbox = <<>>
  /\ currentState = Nothing
  /\ broadcast = None
  /\ sseClients = {}
  /\ handler = [c \in Clients |-> "away"]
  /\ snapshot = [c \in Clients |-> Nothing]
  /\ channel = [c \in Clients |-> <<>>]
  /\ closed = [c \in Clients |-> FALSE]
  /\ shown = [c \in Clients |-> Nothing]
  /\ stage = "running"
  /\ lagging = [c \in Clients |-> {}]

------------------------------------------------------------------------------
(* The manager publishes an update of plug p.                               *)
Publish(p) ==
  /\ published < MaxUpdates
  /\ published' = published + 1
  /\ inbox' = Append(inbox, [plug |-> p, number |-> published'])
  /\ UNCHANGED <<currentState, broadcast, sseClients, handler, snapshot, channel,
                 closed, shown, stage, lagging>>

(* processStateChanges: the next update is stored under stateMu ...          *)
Store ==
  /\ broadcast = None /\ inbox # <<>>
  /\ currentState' = [currentState EXCEPT ![Head(inbox).plug] = Head(inbox).number]
  /\ broadcast' = Head(inbox)
  /\ inbox' = Tail(inbox)
  /\ UNCHANGED <<published, sseClients, handler, snapshot, channel, closed, shown,
                 stage, lagging>>

(* Mutant: the send waits until there is room.                              *)
BroadcastWaiting ==
  /\ broadcast # None
  /\ \A c \in sseClients : Len(channel[c]) < ChanCap
  /\ channel' = [c \in Clients |-> IF c \in sseClients THEN Append(channel[c], broadcast)
                                                       ELSE channel[c]]
  /\ lagging' = [c \in Clients |-> IF c \in sseClients THEN lagging[c] \ {broadcast.plug}
                                                       ELSE lagging[c]]
  /\ broadcast' = None
  /\ UNCHANGED <<published, inbox, currentState, sseClients, handler, snapshot, closed,
                 shown, stage>>

(* Mutant: a client that is still busy with its snapshot is passed over.     *)
BroadcastToIdle ==
  /\ broadcast # None
  /\ LET idle == {c \in sseClients : handler[c] = "streaming" /\ \A p \in Plugs : snapshot[c][p] = 0}
         room == {c \in idle : Len(channel[c]) < ChanCap}
     IN /\ channel' = [c \in Clients |-> IF c \in room THEN Append(channel[c], broadcast)
                                                       ELSE channel[c]]
        /\ lagging' = [c \in Clients |->
                         IF c \in room THEN lagging[c] \ {broadcast.plug}
                         ELSE IF c \in idle THEN lagging[c] \cup {broadcast.plug}
                         ELSE lagging[c]]
  /\ broadcast' = None
  /\ UNCHANGED <<published, inbox, currentState, sseClients, handler, snapshot, closed,
                 shown, stage>>

(* Mutant: the channels have no limit.                                      *)
BroadcastUnbounded ==
  /\ broadcast # None
  /\ channel' = [c \in Clients |-> IF c \in sseClients THEN Append(channel[c], broadcast)
                                                       ELSE channel[c]]
  /\ broadcast' = None
  /\ UNCHANGED <<published, inbox, currentState, sseClients, handler, snapshot, closed,
                 shown, stage, lagging>>

(* ... and broadcastSSE sends it to every client that has room for it.       *)
BroadcastSSE ==
  /\ broadcast # None
  /\ LET room == {c \in sseClients : Len(channel[c]) < ChanCap}
     IN /\ channel' = [c \in Clients |-> IF c \in room THEN Append(channel[c], broadcast)
                                                       ELSE channel[c]]
        /\ lagging' = [c \in Clients |->
                         IF c \in room THEN lagging[c] \ {broadcast.plug}
                         ELSE IF c \in sseClients THEN lagging[c] \cup {broadcast.plug}
                         ELSE lagging[c]]
  /\ broadcast' = None
  /\ UNCHANGED <<published, inbox, currentState, sseClients, handler, snapshot, closed,
                 shown, stage>>

------------------------------------------------------------------------------
(* HandleSSE: a page opens the stream, or opens it again, and a new channel  *)
(* is registered for it.                                                    *)
Register(c) ==
  /\ handler[c] = "away"
  /\ handler' = [handler EXCEPT ![c] = "registered"]
  /\ sseClients' = sseClients \cup {c}
  /\ closed' = [closed EXCEPT ![c] = FALSE]
  /\ UNCHANGED <<published, inbox, currentState, broadcast, snapshot, channel, shown,
                 stage, lagging>>

(* snapshotState, under stateMu.                                            *)
SnapshotState(c) ==
  /\ handler[c] = "registered"
  /\ handler' = [handler EXCEPT ![c] = "streaming"]
  /\ snapshot' = [snapshot EXCEPT ![c] = currentState]
  /\ UNCHANGED <<published, inbox, currentState, broadcast, sseClients, channel, closed,
                 shown, stage, lagging>>

(* The plugs of the snapshot that are still to be pushed, in ID order.       *)
Unpushed(c) == {p \in Plugs : snapshot[c][p] # 0}

Announced(p) == broadcast # None /\ broadcast.plug = p

(* An entry is pushed, or dropped when the channel is full; on a channel     *)
(* that Close has closed meanwhile the send panics, and so does the deferred *)
(* close.  net/http recovers, and the handler is over.                      *)
PushSnapshot(c) ==
  /\ handler[c] = "streaming"
  /\ \E p \in Unpushed(c) :
       /\ \A q \in Unpushed(c) : p <= q
       /\ IF closed[c]
          THEN /\ handler' = [handler EXCEPT ![c] = "panicked"]
               /\ UNCHANGED <<snapshot, channel, lagging>>
          ELSE LET room  == Len(channel[c]) < ChanCap
                   stale == snapshot[c][p] # currentState[p] /\ ~Announced(p)
               IN /\ channel' = IF room
                                THEN [channel EXCEPT ![c] =
                                        Append(@, [plug |-> p, number |-> snapshot[c][p]])]
                                ELSE channel
                  /\ snapshot' = [snapshot EXCEPT ![c][p] = 0]
                  /\ lagging' = [lagging EXCEPT ![c] =
                                   IF room /\ ~stale THEN @ \ {p} ELSE @ \cup {p}]
                  /\ UNCHANGED handler
  /\ UNCHANGED <<published, inbox, currentState, broadcast, sseClients, closed, shown, stage>>

(* The loop takes an update off the channel and writes it to the page, or    *)
(* fails to and returns.  (The zero values that come out of a closed channel *)
(* name no plug, and script.js ignores them.)                               *)
WriteEvent(c) ==
  /\ handler[c] = "streaming" /\ Unpushed(c) = {} /\ channel[c] # <<>>
  /\ LET update == Head(channel[c])
     IN \/ /\ shown' = [shown EXCEPT ![c][update.plug] = update.number]
           /\ UNCHANGED handler
        \/ /\ handler' = [handler EXCEPT ![c] = "returned"]
           /\ UNCHANGED shown
  /\ channel' = [channel EXCEPT ![c] = Tail(@)]
  /\ UNCHANGED <<published, inbox, currentState, broadcast, sseClients, snapshot, closed,
                 stage, lagging>>

(* The page is closed, or the context cancelled.                            *)
Return(c) ==
  /\ handler[c] = "streaming" /\ Unpushed(c) = {}
  /\ handler' = [handler EXCEPT ![c] = "returned"]
  /\ UNCHANGED <<published, inbox, currentState, broadcast, sseClients, snapshot, channel,
                 closed, shown, stage, lagging>>

(* Mutant: the deferred function closes the channel first.                  *)
DeferDeleteClosing(c) ==
  /\ handler[c] = "returned"
  /\ handler' = [handler EXCEPT ![c] = "deleted"]
  /\ closed' = [closed EXCEPT ![c] = TRUE]
  /\ UNCHANGED <<published, inbox, currentState, broadcast, sseClients, snapshot, channel,
                 shown, stage, lagging>>

(* The deferred function takes the client out under sseClientsMu ...         *)
DeferDelete(c) ==
  /\ handler[c] = "returned"
  /\ handler' = [handler EXCEPT ![c] = "deleted"]
  /\ sseClients' = sseClients \ {c}
  /\ UNCHANGED <<published, inbox, currentState, broadcast, snapshot, channel, closed,
                 shown, stage, lagging>>

(* ... and closes the channel after it, which panics if Close did it before. *)
(* Either way the channel is gone, and so is what the page was sent.         *)
DeferClose(c) ==
  /\ handler[c] = "deleted"
  /\ handler' = [handler EXCEPT ![c] = IF closed[c] THEN "panicked" ELSE "away"]
  /\ closed' = [closed EXCEPT ![c] = TRUE]
  /\ channel' = [channel EXCEPT ![c] = <<>>]
  /\ shown' = [shown EXCEPT ![c] = Nothing]
  /\ lagging' = [lagging EXCEPT ![c] = {}]
  /\ UNCHANGED <<published, inbox, currentState, broadcast, sseClients, snapshot, stage>>

------------------------------------------------------------------------------
(* The program is told to stop.                                             *)
Stop ==
  /\ stage = "running"
  /\ stage' = "stopping"
  /\ UNCHANGED <<published, inbox, currentState, broadcast, sseClients, handler, snapshot,
                 channel, closed, shown, lagging>>

(* Close, deferred by Main: every channel still registered is closed, and    *)
(* the map emptied, under one lock.                                         *)
Close ==
  /\ stage = "stopping"
  /\ stage' = "closed"
  /\ closed' = [c \in Clients |-> closed[c] \/ c \in sseClients]
  /\ sseClients' = {}
  /\ UNCHANGED <<published, inbox, currentState, broadcast, handler, snapshot, channel,
                 shown, lagging>>

HandleSSE(c) ==
  \/ Register(c) \/ SnapshotState(c) \/ PushSnapshot(c) \/ WriteEvent(c)
  \/ Return(c) \/ DeferDelete(c) \/ DeferClose(c)

Next ==
  \/ \E p \in Plugs : Publish(p)
  \/ Store \/ BroadcastSSE
  \/ \E c \in Clients : HandleSSE(c)
  \/ Stop \/ Close

Spec == Init /\ [][Next]_vars

(* processStateChanges is scheduled.  Of the handlers nothing is assumed: a  *)
(* page may stop reading for ever.                                          *)
FairSpec == Spec /\ WF_vars(Store \/ BroadcastSSE)

------------------------------------------------------------------------------
WebTypeOK ==
  /\ published \in 0 .. MaxUpdates
  /\ inbox \in Seq(Update)
  /\ currentState \in Numbers
  /\ broadcast \in Update \cup {None}
  /\ sseClients \subseteq Clients
  /\ handler \in [Clients -> {"away", "registered", "streaming", "returned",
                              "deleted", "panicked"}]
  /\ snapshot \in [Clients -> Numbers]
  /\ channel \in [Clients -> Seq(Update)]
  /\ \A c \in Clients : Len(channel[c]) <= ChanCap
  /\ closed \in [Clients -> BOOLEAN]
  /\ shown \in [Clients -> Numbers]
  /\ stage \in {"running", "stopping", "closed"}
  /\ lagging \in [Clients -> SUBSET Plugs]

(* What the page of c shows of plug p once its channel is empty.            *)
Due(c, p) ==
  LET pending == {i \in DOMAIN channel[c] : channel[c][i].plug = p}
  IN IF pending = {} THEN shown[c][p]
     ELSE channel[c][CHOOSE i \in pending : \A j \in pending : j <= i].number

(* Registering before the snapshot is read leaves no gap: a page that has     *)
(* been sent its snapshot is due the current state of every plug, or the       *)
(* broadcast of it is yet to come.  The exceptions are the plugs of which an   *)
(* update was dropped from a full channel, or a newer update overtook the      *)
(* snapshot, and nothing was sent since (web.go:155-159, 186, 622-639).       *)
StreamCatchesUp ==
  \A c \in Clients : (handler[c] = "streaming" /\ stage # "closed") =>
     \A p \in Plugs \ (Unpushed(c) \cup lagging[c]) :
        Due(c, p) = currentState[p] \/ Announced(p)

(* broadcastSSE never sends on a closed channel, which would panic in a       *)
(* goroutine of the program's own and end it: whoever closes a channel has     *)
(* taken it out of the map first, or does so under the same lock.             *)
RegisteredAreOpen == \A c \in sseClients : ~closed[c]

(* No handler panics over its channel but through Close at shutdown, which    *)
(* closes channels that handlers go on to use and close (web.go:132, 630).    *)
OnlyCloseInterrupts ==
  \A c \in Clients : handler[c] = "panicked" => stage = "closed"

(* A page that stops reading holds up nobody: while the program runs every     *)
(* update that reaches the web server is stored and broadcast.                *)
ServerNeverWaits ==
  (inbox # <<>> \/ broadcast # None) ~>
     ((inbox = <<>> /\ broadcast = None) \/ stage # "running")

(* "No manual fan-out, no missed updates" (README.md:399): when all is         *)
(* delivered, an open page shows the current state of every plug.             *)
PagesUpToDate ==
  (inbox = <<>> /\ broadcast = None /\ stage = "running") =>
     \A c \in Clients :
        (handler[c] = "streaming" /\ Unpushed(c) = {} /\ channel[c] = <<>>) =>
           shown[c] = currentState
==============================================================================
