-------------------------------- MODULE BusLog --------------------------------
(***************************************************************************)
(* The event bus (EventBus) with a history of all it has published, and how    *)
(* it implements the log of updates (StateLog): a subscriber's queue is what    *)
(* it has yet to read of the log.                                           *)
(***************************************************************************)
EXTENDS EventBus

VARIABLE log  \* history: all updates published, in order

logVars == <<busVars, log>>

LogInit == BusInit /\ log = <<>>

(* PublishStateUpdate returns early for a duplicate.                        *)
Publish(p, state, newTimes) ==
  /\ PublishStateUpdate(p, state, newTimes)
  /\ log' = IF Duplicate(p, state, newTimes) THEN log
            ELSE Append(log, [plug |-> p, state |-> state])

Receive(s) == Deliver(s) /\ UNCHANGED log

LogNext ==
  \/ \E s \in Subscribers : (Subscribe(s) /\ UNCHANGED log) \/ Receive(s)
  \/ \E p \in Plugs, state \in State, newTimes \in BOOLEAN : Publish(p, state, newTimes)

LogSpec == LogInit /\ [][LogNext]_logVars

(* Every subscriber has a goroutine that receives.                          *)
FairLogSpec == LogSpec /\ \A s \in Subscribers : WF_logVars(Receive(s))

------------------------------------------------------------------------------
Position == [s \in Subscribers |->
               IF s \in subscribed THEN Len(log) - Len(queue[s]) ELSE 0]

Log == INSTANCE StateLog WITH
         Readers <- Subscribers, States <- State,
         joined <- subscribed, position <- Position, shown <- view

(* The bus keeps its promise (bus.go:85-111, hap.go:259, web.go:151): to every  *)
(* subscriber it is one log, read in order from where the subscriber joined,   *)
(* without gap or repetition, for all its queues and its deduplication.       *)
ReadsTheLog == Log!Spec

(* And no subscriber is left waiting for what is in the log.                *)
ReadsAllOfTheLog == Log!FairSpec
==============================================================================
