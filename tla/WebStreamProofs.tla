---------------------------- MODULE WebStreamProofs ----------------------------
(***************************************************************************)
(* Theorems about the live pages: for any number of pages, plugs and updates  *)
(* no broadcast meets a closed channel, no handler panics before Close, and a  *)
(* page is due the current state of every plug but for the named exceptions.  *)
(***************************************************************************)
EXTENDS WebStream, SequenceTheorems, TLAPS

Phases == {"away", "registered", "streaming", "returned", "deleted", "panicked"}

(* What the theorems need of the types.                                     *)
ClientTypeOK == /\ sseClients \subseteq Clients
                /\ handler \in [Clients -> Phases]
                /\ closed \in [Clients -> BOOLEAN]

(* A client is in the map only while its handler has not taken it out.       *)
RegisteredAreAlive ==
  \A c \in sseClients : handler[c] \in {"registered", "streaming", "returned"}

(* A channel that is still to be used or closed is open, but for Close.      *)
UsedAreOpen ==
  \A c \in Clients :
     (handler[c] \in {"registered", "streaming", "returned", "deleted"} /\ closed[c])
        => stage = "closed"

ChannelInv == /\ ClientTypeOK /\ RegisteredAreAlive /\ RegisteredAreOpen
              /\ UsedAreOpen /\ OnlyCloseInterrupts

LEMMA ChannelInit == Init => ChannelInv
  BY DEF Init, ChannelInv, ClientTypeOK, Phases, RegisteredAreAlive, RegisteredAreOpen,
         UsedAreOpen, OnlyCloseInterrupts

(* Each step of a handler.                                                  *)
LEMMA HandlerStep ==
  ASSUME ChannelInv, NEW c \in Clients, HandleSSE(c)
  PROVE  ChannelInv'
<1> USE DEF ChannelInv, ClientTypeOK, Phases, RegisteredAreAlive, RegisteredAreOpen,
            UsedAreOpen, OnlyCloseInterrupts
<1>1. CASE Register(c)
  BY <1>1 DEF Register
<1>2. CASE SnapshotState(c)
  BY <1>2 DEF SnapshotState
<1>3. CASE PushSnapshot(c)
  <2>1. /\ UNCHANGED <<sseClients, closed, stage>>
        /\ \/ closed[c] /\ handler' = [handler EXCEPT ![c] = "panicked"]
           \/ UNCHANGED handler
    BY <1>3 DEF PushSnapshot
  <2>2. handler[c] = "streaming"
    BY <1>3 DEF PushSnapshot
  <2>3. QED
    BY <2>1, <2>2
<1>4. CASE WriteEvent(c) \/ Return(c)
  <2>1. /\ UNCHANGED <<sseClients, closed, stage>>
        /\ \/ handler' = [handler EXCEPT ![c] = "returned"]
           \/ UNCHANGED handler
    BY <1>4 DEF WriteEvent, Return
  <2>2. handler[c] = "streaming"
    BY <1>4 DEF WriteEvent, Return
  <2>3. QED
    BY <2>1, <2>2
<1>5. CASE DeferDelete(c)
  BY <1>5 DEF DeferDelete
<1>6. CASE DeferClose(c)
  BY <1>6 DEF DeferClose
<1>7. QED
  BY <1>1, <1>2, <1>3, <1>4, <1>5, <1>6 DEF HandleSSE

LEMMA ChannelStep == ChannelInv /\ [Next]_vars => ChannelInv'
<1> SUFFICES ASSUME ChannelInv, [Next]_vars PROVE ChannelInv'
  OBVIOUS
<1>1. ASSUME NEW c \in Clients, HandleSSE(c) PROVE ChannelInv'
  BY <1>1, HandlerStep
<1>2. CASE Close
  BY <1>2 DEF Close, ChannelInv, ClientTypeOK, RegisteredAreAlive, RegisteredAreOpen,
              UsedAreOpen, OnlyCloseInterrupts
<1>3. CASE Stop
  BY <1>3 DEF Stop, ChannelInv, ClientTypeOK, RegisteredAreAlive, RegisteredAreOpen,
              UsedAreOpen, OnlyCloseInterrupts
<1>4. CASE UNCHANGED <<sseClients, handler, closed, stage>>
  BY <1>4 DEF ChannelInv, ClientTypeOK, RegisteredAreAlive, RegisteredAreOpen,
              UsedAreOpen, OnlyCloseInterrupts
<1>5. QED
  BY <1>1, <1>2, <1>3, <1>4 DEF Next, Publish, Store, BroadcastSSE, vars

(* processStateChanges never sends on a closed channel: DeferDelete takes a   *)
(* client out before DeferClose closes its channel, and Close does both under *)
(* one lock (web.go:130-135, 626-631).                                      *)
THEOREM BroadcastIsSafe == Spec => []RegisteredAreOpen
<1>1. ChannelInv => RegisteredAreOpen
  BY DEF ChannelInv
<1>2. QED
  BY ChannelInit, ChannelStep, <1>1, PTL DEF Spec

(* A handler panics over its channel only once Close has run.               *)
THEOREM PanicsOnlyAtShutdown == Spec => []OnlyCloseInterrupts
<1>1. ChannelInv => OnlyCloseInterrupts
  BY DEF ChannelInv
<1>2. QED
  BY ChannelInit, ChannelStep, <1>1, PTL DEF Spec

------------------------------------------------------------------------------
(* The queue after an update was put at its end.                            *)
LEMMA PutUpdate ==
  ASSUME NEW Q \in Seq(Update), NEW u \in Update
  PROVE  LET R == Append(Q, u)
         IN /\ R \in Seq(Update) /\ Len(Q) \in Nat /\ Len(R) = Len(Q) + 1
            /\ DOMAIN Q = 1 .. Len(Q) /\ DOMAIN R = DOMAIN Q \cup {Len(Q) + 1}
            /\ \A i \in DOMAIN Q : i <= Len(Q) /\ R[i] = Q[i]
            /\ R[Len(Q) + 1] = u
<1>1. Len(Q) \in Nat /\ DOMAIN Q = 1 .. Len(Q)
  BY LenProperties
<1>2. QED
  BY <1>1, AppendProperties

(* The queue after its head was taken: position i was i + 1.                *)
LEMMA TakeUpdate ==
  ASSUME NEW Q \in Seq(Update), Q # <<>>
  PROVE  /\ Head(Q) = Q[1] /\ Head(Q) \in Update
         /\ Tail(Q) \in Seq(Update) /\ Len(Tail(Q)) = Len(Q) - 1
         /\ Len(Q) \in Nat \ {0} /\ DOMAIN Q = 1 .. Len(Q)
         /\ DOMAIN Tail(Q) = 1 .. (Len(Q) - 1)
         /\ \A i \in 1 .. (Len(Q) - 1) : Tail(Q)[i] = Q[i + 1]
<1>1. Len(Q) \in Nat \ {0} /\ DOMAIN Q = 1 .. Len(Q)
  BY EmptySeq, LenProperties
<1>2. Head(Q) = Q[1] /\ Tail(Q) \in Seq(Update) /\ Len(Tail(Q)) = Len(Q) - 1
      /\ \A i \in 1 .. Len(Tail(Q)) : Tail(Q)[i] = Q[i + 1]
  BY HeadTailProperties
<1>3. Head(Q) \in Update
  BY <1>1, <1>2, ElementOfSeq
<1>4. DOMAIN Tail(Q) = 1 .. (Len(Q) - 1)
  BY <1>2, LenProperties
<1>5. QED
  BY <1>1, <1>2, <1>3, <1>4

(* What the update that is about to be broadcast is.                         *)
LEMMA BroadcastType ==
  ASSUME WebTypeOK, broadcast # None
  PROVE  /\ broadcast \in Update /\ broadcast.plug \in Plugs
         /\ broadcast.number \in 1 .. MaxUpdates
BY DEF WebTypeOK, Update

(* An entry of a snapshot that is pushed is an update.                       *)
LEMMA EntryType ==
  ASSUME WebTypeOK, NEW c \in Clients, NEW p \in Unpushed(c)
  PROVE  [plug |-> p, number |-> snapshot[c][p]] \in Update
<1>1. p \in Plugs /\ snapshot[c][p] \in 0 .. MaxUpdates /\ snapshot[c][p] # 0
  BY DEF WebTypeOK, Unpushed, Numbers
<1>2. snapshot[c][p] \in 1 .. MaxUpdates
  BY <1>1, WebAssumption
<1>3. QED
  BY <1>1, <1>2 DEF Update

(* Each step of a handler keeps the types, and its channel within capacity.   *)
LEMMA HandlerTyping ==
  ASSUME WebTypeOK, NEW c \in Clients, HandleSSE(c)
  PROVE  WebTypeOK'
<1> USE DEF WebTypeOK
<1>1. CASE Register(c)
  BY <1>1 DEF Register
<1>2. CASE SnapshotState(c)
  BY <1>2 DEF SnapshotState
<1>3. CASE PushSnapshot(c)
  <2> DEFINE entry(p) == [plug |-> p, number |-> snapshot[c][p]]
  <2>1. UNCHANGED <<published, inbox, currentState, broadcast, sseClients, closed, shown, stage>>
    BY <1>3 DEF PushSnapshot
  <2>2. PICK p \in Unpushed(c) :
          IF closed[c]
          THEN /\ handler' = [handler EXCEPT ![c] = "panicked"]
               /\ UNCHANGED <<snapshot, channel, lagging>>
          ELSE /\ channel' = IF Len(channel[c]) < ChanCap
                             THEN [channel EXCEPT ![c] = Append(channel[c], entry(p))]
                             ELSE channel
               /\ snapshot' = [snapshot EXCEPT ![c][p] = 0]
               /\ \/ lagging' = [lagging EXCEPT ![c] = lagging[c] \ {p}]
                  \/ lagging' = [lagging EXCEPT ![c] = lagging[c] \cup {p}]
               /\ UNCHANGED handler
    BY <1>3 DEF PushSnapshot
  <2>3. entry(p) \in Update /\ p \in Plugs
    BY EntryType DEF Unpushed
  <2>4. CASE closed[c]
    BY <2>1, <2>2, <2>4
  <2>5. CASE ~closed[c]
    <3>1. /\ channel' \in [Clients -> Seq(Update)]
          /\ \A d \in Clients : Len(channel'[d]) <= ChanCap
      <4>1. CASE Len(channel[c]) < ChanCap
        <5>1. channel' = [channel EXCEPT ![c] = Append(channel[c], entry(p))]
          BY <2>2, <2>5, <4>1
        <5>2. /\ Append(channel[c], entry(p)) \in Seq(Update)
              /\ Len(channel[c]) \in Nat
              /\ Len(Append(channel[c], entry(p))) = Len(channel[c]) + 1
          BY <2>3, PutUpdate
        <5>3. QED
          BY <4>1, <5>1, <5>2, WebAssumption
      <4>2. CASE ~(Len(channel[c]) < ChanCap)
        BY <2>2, <2>5, <4>2
      <4>3. QED
        BY <4>1, <4>2
    <3>2. snapshot' \in [Clients -> Numbers]
      <4>1. [snapshot[c] EXCEPT ![p] = 0] \in Numbers
        <5>1. snapshot[c] \in [Plugs -> 0 .. MaxUpdates] /\ 0 \in 0 .. MaxUpdates
          BY WebAssumption DEF Numbers
        <5>2. QED
          BY <2>3, <5>1 DEF Numbers
      <4>2. snapshot' = [snapshot EXCEPT ![c] = [snapshot[c] EXCEPT ![p] = 0]]
        BY <2>2, <2>5
      <4>3. QED
        BY <4>1, <4>2
    <3>3. lagging' \in [Clients -> SUBSET Plugs] /\ handler' = handler
      BY <2>2, <2>3, <2>5
    <3>4. QED
      BY <2>1, <3>1, <3>2, <3>3
  <2>6. QED
    BY <2>4, <2>5
<1>4. CASE WriteEvent(c)
  <2>1. /\ Head(channel[c]) \in Update /\ Tail(channel[c]) \in Seq(Update)
        /\ Len(channel[c]) \in Nat /\ Len(Tail(channel[c])) = Len(channel[c]) - 1
    BY <1>4, TakeUpdate DEF WriteEvent
  <2>2. channel' = [channel EXCEPT ![c] = Tail(channel[c])]
    BY <1>4 DEF WriteEvent
  <2>3. /\ channel' \in [Clients -> Seq(Update)]
        /\ \A d \in Clients : Len(channel'[d]) <= ChanCap
    BY <2>1, <2>2, WebAssumption
  <2>4. shown' \in [Clients -> Numbers] /\ handler' \in [Clients -> Phases]
    <3>1. Head(channel[c]).plug \in Plugs /\ Head(channel[c]).number \in 0 .. MaxUpdates
      BY <2>1 DEF Update
    <3>2. [shown[c] EXCEPT ![Head(channel[c]).plug] = Head(channel[c]).number] \in Numbers
      BY <3>1 DEF Numbers
    <3>3. \/ /\ shown' = [shown EXCEPT ![c][Head(channel[c]).plug] = Head(channel[c]).number]
             /\ handler' = handler
          \/ handler' = [handler EXCEPT ![c] = "returned"] /\ shown' = shown
      BY <1>4 DEF WriteEvent
    <3>4. QED
      BY <3>2, <3>3 DEF Phases
  <2>5. QED
    BY <1>4, <2>3, <2>4 DEF WriteEvent, Phases
<1>5. CASE Return(c)
  BY <1>5 DEF Return
<1>6. CASE DeferDelete(c)
  BY <1>6 DEF DeferDelete
<1>7. CASE DeferClose(c)
  <2>1. <<>> \in Seq(Update) /\ Len(<<>>) = 0
    BY EmptySeq
  <2>2. Nothing \in Numbers
    BY WebAssumption DEF Nothing, Numbers
  <2>3. /\ channel' \in [Clients -> Seq(Update)]
        /\ \A d \in Clients : Len(channel'[d]) <= ChanCap
    BY <1>7, <2>1, WebAssumption DEF DeferClose
  <2>4. QED
    BY <1>7, <2>2, <2>3 DEF DeferClose
<1>8. QED
  BY <1>1, <1>2, <1>3, <1>4, <1>5, <1>6, <1>7 DEF HandleSSE

(* A broadcast leaves a channel as it is or puts one update at its end, where  *)
(* there is room for it.                                                    *)
LEMMA BroadcastEffect ==
  ASSUME WebTypeOK, BroadcastSSE, NEW c \in Clients
  PROVE  IF c \in sseClients /\ Len(channel[c]) < ChanCap
         THEN /\ channel'[c] = Append(channel[c], broadcast)
              /\ lagging'[c] = lagging[c] \ {broadcast.plug}
         ELSE /\ channel'[c] = channel[c]
              /\ lagging'[c] = IF c \in sseClients THEN lagging[c] \cup {broadcast.plug}
                               ELSE lagging[c]
BY DEF BroadcastSSE, WebTypeOK

LEMMA BroadcastTyping ==
  ASSUME WebTypeOK, BroadcastSSE
  PROVE  WebTypeOK'
<1>1. broadcast # None
  BY DEF BroadcastSSE
<1>2. broadcast \in Update /\ broadcast.plug \in Plugs
  BY <1>1, BroadcastType
<1>3. ASSUME NEW c \in Clients
      PROVE  /\ channel'[c] \in Seq(Update) /\ Len(channel'[c]) <= ChanCap
             /\ lagging'[c] \in SUBSET Plugs
  <2>1. channel[c] \in Seq(Update) /\ Len(channel[c]) <= ChanCap /\ lagging[c] \in SUBSET Plugs
    BY DEF WebTypeOK
  <2>2. /\ Append(channel[c], broadcast) \in Seq(Update) /\ Len(channel[c]) \in Nat
        /\ Len(Append(channel[c], broadcast)) = Len(channel[c]) + 1
    BY <1>2, <2>1, PutUpdate
  <2>3. CASE c \in sseClients /\ Len(channel[c]) < ChanCap
    <3>1. /\ channel'[c] = Append(channel[c], broadcast)
          /\ lagging'[c] = lagging[c] \ {broadcast.plug}
      BY <2>3, BroadcastEffect
    <3>2. Len(channel'[c]) <= ChanCap
      BY <2>2, <2>3, <3>1, WebAssumption
    <3>3. QED
      BY <2>1, <2>2, <3>1, <3>2
  <2>4. CASE ~(c \in sseClients /\ Len(channel[c]) < ChanCap)
    <3>1. channel'[c] = channel[c]
      BY <2>4, BroadcastEffect
    <3>2. lagging'[c] = lagging[c] \/ lagging'[c] = lagging[c] \cup {broadcast.plug}
      BY <2>4, BroadcastEffect
    <3>3. QED
      BY <1>2, <2>1, <3>1, <3>2
  <2>5. QED
    BY <2>3, <2>4
<1>4. DOMAIN channel' = Clients /\ DOMAIN lagging' = Clients
      /\ channel' = [c \in Clients |-> channel'[c]] /\ lagging' = [c \in Clients |-> lagging'[c]]
  BY DEF BroadcastSSE
<1>5. channel' \in [Clients -> Seq(Update)] /\ lagging' \in [Clients -> SUBSET Plugs]
  BY <1>3, <1>4
<1>6. QED
  BY <1>3, <1>5 DEF BroadcastSSE, WebTypeOK

LEMMA StoreTyping ==
  ASSUME WebTypeOK, Store
  PROVE  WebTypeOK'
<1>1. Head(inbox) \in Update /\ Tail(inbox) \in Seq(Update)
  BY TakeUpdate DEF Store, WebTypeOK
<1>2. Head(inbox).plug \in Plugs /\ Head(inbox).number \in 0 .. MaxUpdates
  BY <1>1 DEF Update
<1>3. currentState' \in Numbers
  BY <1>2 DEF Store, WebTypeOK, Numbers
<1>4. QED
  BY <1>1, <1>3 DEF Store, WebTypeOK

(* Every variable keeps its type, and no channel is ever over its capacity    *)
(* although broadcast and handler both send on it (web.go:186, 636).         *)
THEOREM WebTyping == Spec => []WebTypeOK
<1>1. Init => WebTypeOK
  <2> SUFFICES ASSUME Init PROVE WebTypeOK
    OBVIOUS
  <2>1. <<>> \in Seq(Update) /\ Len(<<>>) = 0
    BY EmptySeq
  <2>2. Nothing \in Numbers
    BY WebAssumption DEF Nothing, Numbers
  <2>3. QED
    BY <2>1, <2>2, WebAssumption DEF Init, WebTypeOK
<1>2. WebTypeOK /\ [Next]_vars => WebTypeOK'
  <2> SUFFICES ASSUME WebTypeOK, [Next]_vars PROVE WebTypeOK'
    OBVIOUS
  <2>1. ASSUME NEW p \in Plugs, Publish(p) PROVE WebTypeOK'
    <3>1. published' \in 1 .. MaxUpdates
      BY <2>1, WebAssumption DEF Publish, WebTypeOK
    <3>2. [plug |-> p, number |-> published'] \in Update
      BY <2>1, <3>1 DEF Update
    <3>3. inbox' \in Seq(Update)
      BY <2>1, <3>2, PutUpdate DEF Publish, WebTypeOK
    <3>4. QED
      BY <2>1, <3>1, <3>3 DEF Publish, WebTypeOK
  <2>2. ASSUME NEW c \in Clients, HandleSSE(c) PROVE WebTypeOK'
    BY <2>2, HandlerTyping
  <2>3. CASE Stop
    BY <2>3 DEF Stop, WebTypeOK
  <2>4. CASE Close
    BY <2>4 DEF Close, WebTypeOK
  <2>5. CASE UNCHANGED vars
    BY <2>5 DEF vars, WebTypeOK
  <2>6. QED
    BY <2>1, <2>2, <2>3, <2>4, <2>5, StoreTyping, BroadcastTyping DEF Next
<1>3. QED
  BY <1>1, <1>2, PTL DEF Spec

------------------------------------------------------------------------------
(* What the page of c will show of plug p once its channel is empty is number  *)
(* n: Due(c, p) = n, without the choice of a last position.                 *)
Pending(c, p) == {i \in DOMAIN channel[c] : channel[c][i].plug = p}

WillShow(c, p, n) ==
  \/ Pending(c, p) = {} /\ shown[c][p] = n
  \/ \E i \in Pending(c, p) : /\ \A j \in Pending(c, p) : j <= i
                              /\ channel[c][i].number = n

(* The update that is about to be broadcast is the current state of its plug.  *)
BroadcastIsCurrent ==
  broadcast # None => currentState[broadcast.plug] = broadcast.number

(* Until Close, the handlers that still use their channel are registered, so    *)
(* that no broadcast passes them by.                                        *)
AliveAreRegistered ==
  stage # "closed" =>
     \A c \in Clients : handler[c] \in {"registered", "streaming", "returned"} => c \in sseClients

(* Of a plug without a state nothing is on any channel, page or snapshot.      *)
UnknownAreUnseen ==
  \A p \in Plugs : currentState[p] = 0 =>
     \A c \in Clients : /\ snapshot[c][p] = 0 /\ shown[c][p] = 0
                       /\ Pending(c, p) = {}

(* StreamCatchesUp, of one page and one plug.                               *)
CaughtUp(c, p) == WillShow(c, p, currentState[p]) \/ Announced(p)

PagesCaughtUp ==
  \A c \in Clients : (handler[c] = "streaming" /\ stage # "closed") =>
     \A p \in Plugs \ (Unpushed(c) \cup lagging[c]) : CaughtUp(c, p)

StreamInv == /\ BroadcastIsCurrent /\ AliveAreRegistered /\ UnknownAreUnseen
             /\ PagesCaughtUp
------------------------------------------------------------------------------
(* The choice in Due is no choice: the last position is the only one.        *)
LEMMA DueIsShown ==
  ASSUME WebTypeOK, NEW c \in Clients, NEW p \in Plugs, NEW n, WillShow(c, p, n)
  PROVE  Due(c, p) = n
<1>1. channel[c] \in Seq(Update)
  BY DEF WebTypeOK
<1>2. \A i \in Pending(c, p) : i \in Nat
  BY <1>1, LenProperties DEF Pending
<1>3. CASE Pending(c, p) = {} /\ shown[c][p] = n
  BY <1>3 DEF Due, Pending
<1>4. ASSUME NEW i \in Pending(c, p), \A j \in Pending(c, p) : j <= i,
             channel[c][i].number = n
      PROVE  Due(c, p) = n
  <2> DEFINE k == CHOOSE j \in Pending(c, p) : \A m \in Pending(c, p) : m <= j
  <2>1. Due(c, p) = channel[c][k].number
    BY <1>4 DEF Due, Pending
  <2>2. k \in Pending(c, p) /\ \A m \in Pending(c, p) : m <= k
    BY <1>4
  <2> HIDE DEF k
  <2>3. k <= i /\ i <= k /\ k \in Nat /\ i \in Nat
    BY <1>2, <1>4, <2>2
  <2>4. k = i
    BY <2>3
  <2>5. QED
    BY <1>4, <2>1, <2>4
<1>5. QED
  BY <1>3, <1>4 DEF WillShow

(* Where neither the channel nor the page changes, nothing else is shown.     *)
LEMMA QuietKeeps ==
  ASSUME NEW c \in Clients, channel'[c] = channel[c], shown'[c] = shown[c]
  PROVE  /\ \A p \in Plugs : Pending(c, p)' = Pending(c, p)
         /\ \A p \in Plugs : \A n : WillShow(c, p, n) => WillShow(c, p, n)'
BY DEF WillShow, Pending

(* An update that is put on the channel is what will be shown of its plug;   *)
(* of the other plugs nothing changes.                                      *)
LEMMA SendShows ==
  ASSUME WebTypeOK, NEW c \in Clients, NEW u \in Update,
         channel'[c] = Append(channel[c], u), shown'[c] = shown[c]
  PROVE  /\ \A n : n = u.number => WillShow(c, u.plug, n)'
         /\ \A p \in Plugs \ {u.plug} :
               /\ Pending(c, p)' = Pending(c, p)
               /\ \A n : WillShow(c, p, n) => WillShow(c, p, n)'
<1> DEFINE Q == channel[c]
           R == Append(Q, u)
<1>1. /\ Len(Q) \in Nat /\ DOMAIN Q = 1 .. Len(Q) /\ DOMAIN R = DOMAIN Q \cup {Len(Q) + 1}
      /\ \A i \in DOMAIN Q : i <= Len(Q) /\ R[i] = Q[i]
      /\ R[Len(Q) + 1] = u
  BY PutUpdate DEF WebTypeOK
<1>2. channel'[c] = R
  OBVIOUS
<1> HIDE DEF R
<1>3. ASSUME NEW n, n = u.number
      PROVE  WillShow(c, u.plug, n)'
  <2>1. Len(Q) + 1 \in Pending(c, u.plug)'
    BY <1>1, <1>2 DEF Pending
  <2>2. \A j \in Pending(c, u.plug)' : j <= Len(Q) + 1
    BY <1>1, <1>2 DEF Pending
  <2>3. channel'[c][Len(Q) + 1].number = n
    BY <1>1, <1>2, <1>3
  <2>4. QED
    BY <2>1, <2>2, <2>3 DEF WillShow
<1>4. ASSUME NEW p \in Plugs \ {u.plug}
      PROVE  /\ Pending(c, p)' = Pending(c, p)
             /\ \A n : WillShow(c, p, n) => WillShow(c, p, n)'
  <2>1. Pending(c, p)' = Pending(c, p)
    BY <1>1, <1>2 DEF Pending
  <2>2. \A i \in Pending(c, p) : channel'[c][i] = Q[i]
    BY <1>1, <1>2 DEF Pending
  <2>3. QED
    BY <2>1, <2>2 DEF WillShow
<1>5. QED
  BY <1>3, <1>4

(* An update that is written to the page was due there, or a later one still   *)
(* is: what will be shown of a plug stays what it was.                       *)
LEMMA WriteKeeps ==
  ASSUME WebTypeOK, NEW c \in Clients, channel[c] # <<>>, channel'[c] = Tail(channel[c]),
         NEW p \in Plugs,
         shown'[c][p] = IF Head(channel[c]).plug = p THEN Head(channel[c]).number
                        ELSE shown[c][p],
         NEW n, WillShow(c, p, n)
  PROVE  WillShow(c, p, n)'
<1> DEFINE Q == channel[c]
<1>1. /\ Head(Q) = Q[1] /\ Len(Q) \in Nat \ {0} /\ DOMAIN Q = 1 .. Len(Q)
      /\ DOMAIN Tail(Q) = 1 .. (Len(Q) - 1)
      /\ \A i \in 1 .. (Len(Q) - 1) : Tail(Q)[i] = Q[i + 1]
  BY TakeUpdate DEF WebTypeOK
<1>2. \A j \in Pending(c, p)' : j \in 1 .. (Len(Q) - 1) /\ j + 1 \in Pending(c, p)
  BY <1>1 DEF Pending
<1>3. CASE Pending(c, p) = {} /\ shown[c][p] = n
  <2>1. Q[1].plug # p
    BY <1>1, <1>3 DEF Pending
  <2>2. Pending(c, p)' = {}
    BY <1>2, <1>3
  <2>3. QED
    BY <1>1, <1>3, <2>1, <2>2 DEF WillShow
<1>4. ASSUME NEW i \in Pending(c, p), \A j \in Pending(c, p) : j <= i, Q[i].number = n
      PROVE  WillShow(c, p, n)'
  <2>1. i \in 1 .. Len(Q) /\ Q[i].plug = p
    BY <1>1, <1>4 DEF Pending
  <2>2. CASE i = 1
    <3>1. Pending(c, p)' = {}
      <4> SUFFICES ASSUME NEW j \in Pending(c, p)' PROVE FALSE
        OBVIOUS
      <4>1. j \in Nat \ {0} /\ j + 1 <= i
        BY <1>1, <1>2, <1>4
      <4>2. QED
        BY <2>2, <4>1
    <3>2. shown'[c][p] = n
      BY <1>1, <1>4, <2>1, <2>2
    <3>3. QED
      BY <3>1, <3>2 DEF WillShow
  <2>3. CASE i # 1
    <3>1. i - 1 \in 1 .. (Len(Q) - 1) /\ Tail(Q)[i - 1] = Q[i]
      BY <1>1, <2>1, <2>3
    <3>2. i - 1 \in Pending(c, p)'
      BY <1>1, <2>1, <3>1 DEF Pending
    <3>3. \A j \in Pending(c, p)' : j <= i - 1
      BY <1>2, <1>4, <2>1
    <3>4. QED
      BY <1>4, <3>1, <3>2, <3>3 DEF WillShow
  <2>4. QED
    BY <2>2, <2>3
<1>5. QED
  BY <1>3, <1>4 DEF WillShow
(* What will be shown is the new current state.                             *)
LEMMA ShowsCurrent ==
  ASSUME NEW c \in Clients, NEW p \in Plugs, NEW n, n = currentState'[p], WillShow(c, p, n)'
  PROVE  CaughtUp(c, p)'
BY DEF CaughtUp, WillShow, Pending

(* A page whose channel and sending are as they were stays caught up with a   *)
(* plug whose state and broadcast are.                                      *)
LEMMA QuietCaughtUp ==
  ASSUME NEW c \in Clients, NEW p \in Plugs, CaughtUp(c, p),
         channel'[c] = channel[c], shown'[c] = shown[c],
         currentState'[p] = currentState[p], Announced(p) => Announced(p)'
  PROVE  CaughtUp(c, p)'
<1>1. CASE Announced(p)
  BY <1>1 DEF CaughtUp
<1>2. CASE WillShow(c, p, currentState[p])
  <2>1. PICK n : WillShow(c, p, n) /\ n = currentState'[p]
    BY <1>2
  <2>2. WillShow(c, p, n)'
    BY <2>1 DEF WillShow, Pending
  <2>3. QED
    BY <2>1, <2>2, ShowsCurrent
<1>3. QED
  BY <1>1, <1>2 DEF CaughtUp

LEMMA StreamInit == Init => StreamInv
<1> SUFFICES ASSUME Init PROVE StreamInv
  OBVIOUS
<1>1. \A c \in Clients, p \in Plugs : Pending(c, p) = {}
  BY EmptySeq DEF Init, Pending
<1>2. QED
  BY <1>1 DEF Init, StreamInv, BroadcastIsCurrent, AliveAreRegistered, UnknownAreUnseen,
              PagesCaughtUp, Nothing

(* Steps that touch neither the states nor what any page is sent.            *)
LEMMA StreamFrame ==
  ASSUME StreamInv,
         UNCHANGED <<currentState, broadcast, sseClients, handler, snapshot, channel, shown,
                     lagging>>,
         stage' # "closed" => stage # "closed"
  PROVE  StreamInv'
<1>1. \A c \in Clients, p \in Plugs : /\ Pending(c, p)' = Pending(c, p)
                                      /\ CaughtUp(c, p) => CaughtUp(c, p)'
  BY QuietKeeps, QuietCaughtUp DEF Announced
<1>2. QED
  BY <1>1 DEF StreamInv, BroadcastIsCurrent, AliveAreRegistered, UnknownAreUnseen,
              PagesCaughtUp, Unpushed

(* An update that is stored is announced to all pages.                       *)
LEMMA StoreStreams ==
  ASSUME WebTypeOK, StreamInv, Store
  PROVE  StreamInv'
<1> DEFINE u == Head(inbox)
<1>1. u \in Update
  BY TakeUpdate DEF Store, WebTypeOK
<1>2. u.plug \in Plugs /\ u.number \in 1 .. MaxUpdates /\ u.number # 0 /\ u # None
  BY <1>1, WebAssumption DEF Update
<1>3. /\ broadcast = None /\ broadcast' = u
      /\ UNCHANGED <<sseClients, handler, snapshot, channel, shown, stage, lagging>>
  BY DEF Store
<1>4. \A p \in Plugs : currentState'[p] = IF p = u.plug THEN u.number ELSE currentState[p]
  BY <1>2 DEF Store, WebTypeOK, Numbers
<1> HIDE DEF u
<1>5. BroadcastIsCurrent'
  BY <1>2, <1>3, <1>4 DEF BroadcastIsCurrent
<1>6. AliveAreRegistered'
  BY <1>3 DEF StreamInv, AliveAreRegistered
<1>7. UnknownAreUnseen'
  <2>1. \A c \in Clients, p \in Plugs : Pending(c, p)' = Pending(c, p)
    BY <1>3, QuietKeeps
  <2>2. QED
    BY <1>2, <1>3, <1>4, <2>1 DEF StreamInv, UnknownAreUnseen
<1>8. ASSUME NEW c \in Clients, handler'[c] = "streaming", stage' # "closed",
             NEW p \in Plugs \ (Unpushed(c)' \cup lagging'[c])
      PROVE  CaughtUp(c, p)'
  <2>1. CASE p = u.plug
    BY <1>2, <1>3, <2>1 DEF CaughtUp, Announced
  <2>2. CASE p # u.plug
    <3>1. CaughtUp(c, p)
      BY <1>3, <1>8 DEF StreamInv, PagesCaughtUp, Unpushed
    <3>2. ~Announced(p) /\ currentState'[p] = currentState[p]
      BY <1>3, <1>4, <2>2 DEF Announced
    <3>3. QED
      BY <1>3, <3>1, <3>2, QuietCaughtUp
  <2>3. QED
    BY <2>1, <2>2
<1>9. QED
  BY <1>5, <1>6, <1>7, <1>8 DEF StreamInv, PagesCaughtUp

(* A broadcast reaches every page that still streams, or it lags.            *)
LEMMA BroadcastStreams ==
  ASSUME WebTypeOK, StreamInv, BroadcastSSE
  PROVE  StreamInv'
<1>0. PICK u \in Update : u = broadcast
  BY BroadcastType DEF BroadcastSSE
<1>1. /\ u.plug \in Plugs /\ u.number # 0 /\ currentState[u.plug] = u.number
      /\ broadcast # None /\ broadcast' = None
  BY <1>0, WebAssumption DEF Update, StreamInv, BroadcastIsCurrent, BroadcastSSE
<1>2. UNCHANGED <<currentState, sseClients, handler, snapshot, shown, stage>>
  BY DEF BroadcastSSE
<1>3. ASSUME NEW c \in Clients
      PROVE  \/ /\ c \in sseClients /\ channel'[c] = Append(channel[c], u)
                /\ lagging'[c] = lagging[c] \ {u.plug}
             \/ /\ c \in sseClients /\ channel'[c] = channel[c]
                /\ lagging'[c] = lagging[c] \cup {u.plug}
             \/ /\ c \notin sseClients /\ channel'[c] = channel[c]
                /\ lagging'[c] = lagging[c]
  BY <1>0, BroadcastEffect
<1>4. BroadcastIsCurrent' /\ AliveAreRegistered'
  BY <1>1, <1>2 DEF StreamInv, BroadcastIsCurrent, AliveAreRegistered
<1>5. ASSUME NEW c \in Clients, NEW p \in Plugs, p # u.plug
      PROVE  /\ Pending(c, p)' = Pending(c, p)
             /\ \A n : WillShow(c, p, n) => WillShow(c, p, n)'
  <2>1. CASE channel'[c] = Append(channel[c], u)
    BY <1>2, <1>5, <2>1, SendShows
  <2>2. CASE channel'[c] = channel[c]
    BY <1>2, <2>2, QuietKeeps
  <2>3. QED
    BY <1>3, <2>1, <2>2
<1>6. UnknownAreUnseen'
  BY <1>1, <1>2, <1>5 DEF StreamInv, UnknownAreUnseen
<1>7. ASSUME NEW c \in Clients, handler'[c] = "streaming", stage' # "closed",
             NEW p \in Plugs \ (Unpushed(c)' \cup lagging'[c])
      PROVE  CaughtUp(c, p)'
  <2>1. c \in sseClients
    BY <1>2, <1>7 DEF StreamInv, AliveAreRegistered
  <2>2. CASE p = u.plug
    <3>1. channel'[c] = Append(channel[c], u)
      BY <1>3, <1>7, <2>1, <2>2
    <3>2. \A n : n = u.number => WillShow(c, p, n)'
      BY <1>2, <2>2, <3>1, SendShows
    <3>3. QED
      BY <1>1, <1>2, <2>2, <3>2, ShowsCurrent
  <2>3. CASE p # u.plug
    <3>1. CaughtUp(c, p) /\ ~Announced(p)
      <4>1. p \notin lagging[c]
        BY <1>3, <1>7, <2>1, <2>3
      <4>2. QED
        BY <1>0, <1>2, <1>7, <2>3, <4>1 DEF StreamInv, PagesCaughtUp, Unpushed, Announced
    <3>2. PICK m : WillShow(c, p, m) /\ m = currentState'[p]
      BY <1>2, <3>1 DEF CaughtUp
    <3>3. WillShow(c, p, m)'
      BY <1>5, <2>3, <3>2
    <3>4. QED
      BY <3>2, <3>3, ShowsCurrent
  <2>4. QED
    BY <2>2, <2>3
<1>8. QED
  BY <1>4, <1>6, <1>7 DEF StreamInv, PagesCaughtUp
(* A step of c's handler concerns no page but its own: it keeps StreamInv if  *)
(* it does for c.                                                          *)
LEMMA HandlerStreams ==
  ASSUME WebTypeOK, StreamInv, NEW c \in Clients, HandleSSE(c),
         UNCHANGED <<currentState, broadcast, stage>>,
         stage # "closed" /\ handler'[c] \in {"registered", "streaming", "returned"}
            => c \in sseClients',
         \A p \in Plugs : currentState[p] = 0 =>
            snapshot'[c][p] = 0 /\ shown'[c][p] = 0 /\ Pending(c, p)' = {},
         handler'[c] = "streaming" /\ stage # "closed" =>
            \A p \in Plugs \ (Unpushed(c)' \cup lagging'[c]) : CaughtUp(c, p)'
  PROVE  StreamInv'
<1>1. ASSUME NEW d \in Clients, d # c
      PROVE  /\ channel'[d] = channel[d] /\ shown'[d] = shown[d] /\ snapshot'[d] = snapshot[d]
             /\ lagging'[d] = lagging[d] /\ handler'[d] = handler[d]
             /\ d \in sseClients' <=> d \in sseClients
  <2> USE DEF WebTypeOK
  <2>1. CASE Register(c) \/ SnapshotState(c)
    BY <1>1, <2>1 DEF Register, SnapshotState
  <2>2. CASE PushSnapshot(c)
    BY <1>1, <2>2 DEF PushSnapshot
  <2>3. CASE WriteEvent(c) \/ Return(c)
    BY <1>1, <2>3 DEF WriteEvent, Return
  <2>4. CASE DeferDelete(c) \/ DeferClose(c)
    BY <1>1, <2>4 DEF DeferDelete, DeferClose
  <2>5. QED
    BY <2>1, <2>2, <2>3, <2>4 DEF HandleSSE
<1>2. ASSUME NEW d \in Clients, d # c, NEW p \in Plugs
      PROVE  /\ Pending(d, p)' = Pending(d, p)
             /\ CaughtUp(d, p) => CaughtUp(d, p)'
  BY <1>1, <1>2, QuietKeeps, QuietCaughtUp DEF Announced
<1>3. BroadcastIsCurrent' /\ AliveAreRegistered'
  BY <1>1 DEF StreamInv, BroadcastIsCurrent, AliveAreRegistered
<1>4. UnknownAreUnseen'
  BY <1>1, <1>2 DEF StreamInv, UnknownAreUnseen
<1>5. PagesCaughtUp'
  BY <1>1, <1>2 DEF StreamInv, PagesCaughtUp, Unpushed
<1>6. QED
  BY <1>3, <1>4, <1>5 DEF StreamInv

(* The snapshot is of the current state, taken after the channel was           *)
(* registered: what is not in it has no state, and nothing is shown of it.    *)
LEMMA SnapshotStreams ==
  ASSUME WebTypeOK, StreamInv, NEW c \in Clients, SnapshotState(c)
  PROVE  StreamInv'
<1>1. /\ UNCHANGED <<currentState, broadcast, sseClients, channel, shown, stage, lagging>>
      /\ snapshot'[c] = currentState /\ handler[c] = "registered"
  BY DEF SnapshotState, WebTypeOK
<1>2. \A p \in Plugs : currentState[p] = 0 =>
         snapshot'[c][p] = 0 /\ shown'[c][p] = 0 /\ Pending(c, p)' = {}
  BY <1>1, QuietKeeps DEF StreamInv, UnknownAreUnseen
<1>3. ASSUME NEW p \in Plugs \ (Unpushed(c)' \cup lagging'[c])
      PROVE  CaughtUp(c, p)'
  <2>1. currentState[p] = 0
    BY <1>1, <1>3 DEF Unpushed
  <2>2. Pending(c, p)' = {} /\ shown'[c][p] = 0
    BY <1>2, <2>1
  <2>3. WillShow(c, p, 0)'
    BY <2>2 DEF WillShow
  <2>4. QED
    BY <1>1, <2>1, <2>3, ShowsCurrent
<1>4. stage # "closed" => c \in sseClients'
  BY <1>1 DEF StreamInv, AliveAreRegistered
<1>5. QED
  BY <1>1, <1>2, <1>3, <1>4, HandlerStreams DEF HandleSSE

(* An entry of the snapshot is the current state of its plug or about to be    *)
(* followed by it, or the plug lags.                                        *)
LEMMA PushStreams ==
  ASSUME WebTypeOK, StreamInv, NEW c \in Clients, PushSnapshot(c)
  PROVE  StreamInv'
<1>1. /\ UNCHANGED <<currentState, broadcast, sseClients, shown, stage>>
      /\ handler[c] = "streaming"
  BY DEF PushSnapshot
<1>2. stage # "closed" => c \in sseClients'
  BY <1>1 DEF StreamInv, AliveAreRegistered
<1>3. CASE closed[c]
  <2>1. UNCHANGED <<snapshot, channel, lagging>> /\ handler'[c] = "panicked"
    BY <1>3 DEF PushSnapshot, WebTypeOK
  <2>2. \A p \in Plugs : currentState[p] = 0 =>
           snapshot'[c][p] = 0 /\ shown'[c][p] = 0 /\ Pending(c, p)' = {}
    BY <1>1, <2>1, QuietKeeps DEF StreamInv, UnknownAreUnseen
  <2>3. QED
    BY <1>1, <2>1, <2>2, HandlerStreams DEF HandleSSE
<1>4. CASE ~closed[c]
  <2> DEFINE room     == Len(channel[c]) < ChanCap
             stale(p) == snapshot[c][p] # currentState[p] /\ ~Announced(p)
             entry(p) == [plug |-> p, number |-> snapshot[c][p]]
  <2>1. PICK p \in Unpushed(c) :
          /\ channel' = IF room THEN [channel EXCEPT ![c] = Append(channel[c], entry(p))]
                        ELSE channel
          /\ snapshot' = [snapshot EXCEPT ![c][p] = 0]
          /\ lagging' = [lagging EXCEPT ![c] =
                           IF room /\ ~stale(p) THEN lagging[c] \ {p} ELSE lagging[c] \cup {p}]
          /\ handler' = handler
    BY <1>4 DEF PushSnapshot
  <2>2. PICK u \in Update : u = entry(p)
    BY EntryType
  <2>3. p \in Plugs /\ u.plug = p /\ u.number = snapshot[c][p] /\ snapshot[c][p] # 0
    BY <2>1, <2>2 DEF Unpushed
  <2>4. \/ room /\ channel'[c] = Append(channel[c], u)
        \/ ~room /\ channel'[c] = channel[c]
    BY <2>1, <2>2 DEF WebTypeOK
  <2>5. /\ \A q \in Plugs : snapshot'[c][q] = IF q = p THEN 0 ELSE snapshot[c][q]
        /\ lagging'[c] = IF room /\ ~stale(p) THEN lagging[c] \ {p} ELSE lagging[c] \cup {p}
        /\ handler'[c] = "streaming"
    BY <1>1, <2>1, <2>3 DEF WebTypeOK, Numbers
  <2>6. ASSUME NEW q \in Plugs, q # p
        PROVE  /\ Pending(c, q)' = Pending(c, q)
               /\ \A n : WillShow(c, q, n) => WillShow(c, q, n)'
    <3>1. CASE channel'[c] = Append(channel[c], u)
      BY <1>1, <2>3, <2>6, <3>1, SendShows
    <3>2. CASE channel'[c] = channel[c]
      BY <1>1, <3>2, QuietKeeps
    <3>3. QED
      BY <2>4, <3>1, <3>2
  <2>7. \A q \in Plugs : currentState[q] = 0 =>
           snapshot'[c][q] = 0 /\ shown'[c][q] = 0 /\ Pending(c, q)' = {}
    <3>1. currentState[p] # 0
      BY <2>3 DEF StreamInv, UnknownAreUnseen
    <3>2. QED
      BY <1>1, <2>5, <2>6, <3>1 DEF StreamInv, UnknownAreUnseen
  <2>8. ASSUME stage # "closed", NEW q \in Plugs \ (Unpushed(c)' \cup lagging'[c])
        PROVE  CaughtUp(c, q)'
    <3>1. CASE q = p
      <4>1. room /\ ~stale(p)
        BY <2>3, <2>5, <2>8, <3>1
      <4>2. \A n : n = u.number => WillShow(c, p, n)'
        BY <1>1, <2>3, <2>4, <4>1, SendShows
      <4>3. CASE snapshot[c][p] = currentState[p]
        BY <1>1, <2>3, <3>1, <4>2, <4>3, ShowsCurrent
      <4>4. CASE Announced(p)
        BY <1>1, <3>1, <4>4 DEF CaughtUp, Announced
      <4>5. QED
        BY <4>1, <4>3, <4>4
    <3>2. CASE q # p
      <4>1. CaughtUp(c, q)
        BY <1>1, <2>3, <2>5, <2>8, <3>2 DEF StreamInv, PagesCaughtUp, Unpushed
      <4>2. CASE Announced(q)
        BY <1>1, <4>2 DEF CaughtUp, Announced
      <4>3. CASE WillShow(c, q, currentState[q])
        <5>1. PICK n : WillShow(c, q, n) /\ n = currentState'[q]
          BY <1>1, <4>3
        <5>2. WillShow(c, q, n)'
          BY <2>6, <3>2, <5>1
        <5>3. QED
          BY <5>1, <5>2, ShowsCurrent
      <4>4. QED
        BY <4>1, <4>2, <4>3 DEF CaughtUp
    <3>3. QED
      BY <3>1, <3>2
  <2>9. QED
    BY <1>1, <1>2, <2>7, <2>8, HandlerStreams DEF HandleSSE
<1>5. QED
  BY <1>3, <1>4

(* Writing an update to the page, or failing to, takes it off the channel.    *)
LEMMA WriteStreams ==
  ASSUME WebTypeOK, StreamInv, NEW c \in Clients, WriteEvent(c)
  PROVE  StreamInv'
<1> DEFINE Q == channel[c]
           u == Head(channel[c])
<1>1. /\ UNCHANGED <<currentState, broadcast, sseClients, snapshot, stage, lagging>>
      /\ handler[c] = "streaming" /\ Q # <<>> /\ channel'[c] = Tail(Q)
  BY DEF WriteEvent, WebTypeOK
<1>2. /\ u = Q[1] /\ u \in Update /\ Len(Q) \in Nat \ {0} /\ DOMAIN Q = 1 .. Len(Q)
      /\ DOMAIN Tail(Q) = 1 .. (Len(Q) - 1)
      /\ \A i \in 1 .. (Len(Q) - 1) : Tail(Q)[i] = Q[i + 1]
  BY <1>1, TakeUpdate DEF WebTypeOK
<1>3. \/ /\ \A p \in Plugs : shown'[c][p] = IF u.plug = p THEN u.number ELSE shown[c][p]
         /\ handler'[c] = "streaming"
      \/ shown'[c] = shown[c] /\ handler'[c] = "returned"
  BY <1>1, <1>2 DEF WriteEvent, WebTypeOK, Update, Numbers
<1>4. \A p \in Plugs : Pending(c, p) = {} => Pending(c, p)' = {} /\ u.plug # p
  BY <1>1, <1>2 DEF Pending
<1>5. \A p \in Plugs : currentState[p] = 0 =>
         snapshot'[c][p] = 0 /\ shown'[c][p] = 0 /\ Pending(c, p)' = {}
  BY <1>1, <1>3, <1>4 DEF StreamInv, UnknownAreUnseen
<1>6. ASSUME handler'[c] = "streaming", stage # "closed",
             NEW p \in Plugs \ (Unpushed(c)' \cup lagging'[c])
      PROVE  CaughtUp(c, p)'
  <2>1. CaughtUp(c, p)
    BY <1>1, <1>6 DEF StreamInv, PagesCaughtUp, Unpushed
  <2>2. CASE Announced(p)
    BY <1>1, <2>2 DEF CaughtUp, Announced
  <2>3. CASE WillShow(c, p, currentState[p])
    <3>1. PICK n : WillShow(c, p, n) /\ n = currentState'[p]
      BY <1>1, <2>3
    <3>2. shown'[c][p] = IF u.plug = p THEN u.number ELSE shown[c][p]
      BY <1>3, <1>6
    <3>3. WillShow(c, p, n)'
      BY <1>1, <3>1, <3>2, WriteKeeps
    <3>4. QED
      BY <3>1, <3>3, ShowsCurrent
  <2>4. QED
    BY <2>1, <2>2, <2>3 DEF CaughtUp
<1>7. stage # "closed" => c \in sseClients'
  BY <1>1 DEF StreamInv, AliveAreRegistered
<1>8. QED
  BY <1>1, <1>5, <1>6, <1>7, HandlerStreams DEF HandleSSE

(* The beginning and the end of a handler.                                  *)
LEMMA EndsStream ==
  ASSUME WebTypeOK, StreamInv, NEW c \in Clients,
         Register(c) \/ Return(c) \/ DeferDelete(c) \/ DeferClose(c)
  PROVE  StreamInv'
<1>1. UNCHANGED <<currentState, broadcast, snapshot, stage>>
  BY DEF Register, Return, DeferDelete, DeferClose
<1>2. /\ handler'[c] # "streaming"
      /\ handler'[c] \in {"registered", "streaming", "returned"} =>
            c \in sseClients' \/ (handler[c] = "streaming" /\ sseClients' = sseClients)
  BY DEF Register, Return, DeferDelete, DeferClose, WebTypeOK
<1>3. stage # "closed" /\ handler'[c] \in {"registered", "streaming", "returned"}
         => c \in sseClients'
  BY <1>2 DEF StreamInv, AliveAreRegistered
<1>4. \/ channel'[c] = channel[c] /\ shown'[c] = shown[c]
      \/ channel'[c] = <<>> /\ shown'[c] = Nothing
  BY DEF Register, Return, DeferDelete, DeferClose, WebTypeOK
<1>5. \A p \in Plugs : currentState[p] = 0 =>
         snapshot'[c][p] = 0 /\ shown'[c][p] = 0 /\ Pending(c, p)' = {}
  <2>1. CASE channel'[c] = channel[c] /\ shown'[c] = shown[c]
    BY <1>1, <2>1, QuietKeeps DEF StreamInv, UnknownAreUnseen
  <2>2. CASE channel'[c] = <<>> /\ shown'[c] = Nothing
    <3>1. \A p \in Plugs : Pending(c, p)' = {} /\ shown'[c][p] = 0
      BY <2>2, EmptySeq DEF Pending, Nothing
    <3>2. QED
      BY <1>1, <3>1 DEF StreamInv, UnknownAreUnseen
  <2>3. QED
    BY <1>4, <2>1, <2>2
<1>6. QED
  BY <1>1, <1>2, <1>3, <1>5, HandlerStreams DEF HandleSSE

(* A page that has been sent its snapshot is due the current state of every    *)
(* plug, or a broadcast of it, but for the plugs that lag: registering before  *)
(* the snapshot is read leaves no gap (web.go:155-159, 186, 622-639).         *)
THEOREM PagesCatchUp == Spec => []StreamCatchesUp
<1>1. WebTypeOK /\ StreamInv /\ [Next]_vars => StreamInv'
  <2> SUFFICES ASSUME WebTypeOK, StreamInv, [Next]_vars PROVE StreamInv'
    OBVIOUS
  <2>1. ASSUME NEW p \in Plugs, Publish(p) PROVE StreamInv'
    BY <2>1, StreamFrame DEF Publish
  <2>2. ASSUME NEW c \in Clients, HandleSSE(c) PROVE StreamInv'
    BY <2>2, SnapshotStreams, PushStreams, WriteStreams, EndsStream DEF HandleSSE
  <2>3. CASE Stop
    BY <2>3, StreamFrame DEF Stop
  <2>4. CASE Close
    <3>1. stage' = "closed" /\ UNCHANGED <<currentState, broadcast, snapshot, channel, shown>>
      BY <2>4 DEF Close
    <3>2. \A c \in Clients, p \in Plugs : Pending(c, p)' = Pending(c, p)
      BY <3>1, QuietKeeps
    <3>3. QED
      BY <3>1, <3>2 DEF StreamInv, BroadcastIsCurrent, AliveAreRegistered, UnknownAreUnseen,
                        PagesCaughtUp
  <2>5. CASE UNCHANGED vars
    BY <2>5, StreamFrame DEF vars
  <2>6. QED
    BY <2>1, <2>2, <2>3, <2>4, <2>5, StoreStreams, BroadcastStreams DEF Next
<1>2. WebTypeOK /\ StreamInv => StreamCatchesUp
  BY DueIsShown DEF StreamInv, PagesCaughtUp, CaughtUp, StreamCatchesUp
<1>3. QED
  BY <1>1, <1>2, StreamInit, WebTyping, PTL DEF Spec
==============================================================================
