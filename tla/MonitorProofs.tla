----------------------------- MODULE MonitorProofs -----------------------------
(***************************************************************************)
(* Theorems about the connection monitor: its state keeps its type, and it    *)
(* never holds pm.mu, nor waits to read under it, outside its loops.          *)
(***************************************************************************)
EXTENDS Monitor, TLAPS

(* A goroutine does not wait for what it holds.                             *)
NobodyWaitsTwice == readers \cap blocked = {}

(* The program's variables stay well typed for every set of plugs, in         *)
(* whatever order ticks, messages, page views and the monitor's calls come.   *)
THEOREM MonitorTyping == Spec => []MonitorTypeOK
<1>1. Init => MonitorTypeOK
  <2> SUFFICES ASSUME Init PROVE MonitorTypeOK
    OBVIOUS
  <2>1. age \in [Plugs -> 0 .. MaxAge] /\ elapsed \in 0 .. 3
    BY DEF Init, MaxAge
  <2>2. seen \in [Plugs -> BOOLEAN] /\ indicator \in [Plugs -> {"connected", "stale", "disconnected"}]
    BY DEF Init
  <2>3. ticked \in BOOLEAN /\ initialDone \in BOOLEAN
    BY DEF Init
  <2>4. QED
    BY <2>1, <2>2, <2>3 DEF Init, MonitorTypeOK
<1>2. MonitorTypeOK /\ [Next]_vars => MonitorTypeOK'
  <2> SUFFICES ASSUME MonitorTypeOK, [Next]_vars PROVE MonitorTypeOK'
    OBVIOUS
  <2>1. CASE Elapse
    <3>1. age' \in [Plugs -> 0 .. MaxAge] /\ elapsed' \in 0 .. 3
      BY <2>1 DEF Elapse, MonitorTypeOK, MaxAge
    <3>2. QED
      BY <2>1, <3>1 DEF Elapse, MonitorTypeOK, plugVars, loopVars, muVars
  <2>2. CASE MergeMessage
    <3>1. age' \in [Plugs -> 0 .. MaxAge]
      <4>1. age' = [age EXCEPT ![merging] = 0] /\ age \in [Plugs -> 0 .. MaxAge]
        BY <2>2 DEF MergeMessage, MonitorTypeOK
      <4>2. 0 \in 0 .. MaxAge
        BY DEF MaxAge
      <4>3. QED
        BY <4>1, <4>2
    <3>2. seen' \in [Plugs -> BOOLEAN]
      BY <2>2 DEF MergeMessage, MonitorTypeOK
    <3>3. QED
      BY <2>2, <3>1, <3>2 DEF MergeMessage, MonitorTypeOK, plugVars, loopVars, LockedAndUnlocked
  <2>3. CASE ViewPage \/ PageDone
    BY <2>3 DEF ViewPage, PageDone, RLock, RUnlock, MonitorTypeOK, plugVars, loopVars
  <2>4. CASE Tick
    BY <2>4 DEF Tick, MonitorTypeOK, plugVars, loopVars, muVars
  <2>5. CASE EnterLoop
    BY <2>5 DEF EnterLoop, RLock, MonitorTypeOK, plugVars, ClockAndPlugs
  <2>6. ASSUME NEW p \in Plugs, VisitPlug(p) PROVE MonitorTypeOK'
    BY <2>6 DEF VisitPlug, RUnlock, MonitorTypeOK, plugVars, muVars, ClockAndPlugs
  <2>7. CASE LeaveLoop
    BY <2>7 DEF LeaveLoop, RUnlock, MonitorTypeOK, plugVars, ClockAndPlugs
  <2>8. CASE ConfigureMQTT
    <3>1. configured' \in [Plugs -> BOOLEAN]
      BY <2>8 DEF ConfigureMQTT, MonitorTypeOK
    <3>2. QED
      BY <2>8, <3>1 DEF ConfigureMQTT, MonitorTypeOK, muVars, ClockAndPlugs
  <2>9. CASE AskStatus
    BY <2>9 DEF AskStatus, Lock, MonitorTypeOK, plugVars, muVars, ClockAndPlugs
  <2>10. CASE ApplyStatus
    BY <2>10 DEF ApplyStatus, ConnectionStatus, LockedAndUnlocked, MonitorTypeOK, plugVars,
                 ClockAndPlugs
  <2>11. ASSUME NEW p \in Plugs, PlugChanges(p) PROVE MonitorTypeOK'
    BY <2>11 DEF PlugChanges, MonitorTypeOK, loopVars, muVars
  <2>12. ASSUME NEW p \in Plugs, MessageArrives(p) PROVE MonitorTypeOK'
    BY <2>12 DEF MessageArrives, Lock, MonitorTypeOK, plugVars, loopVars
  <2>13. CASE UNCHANGED vars
    BY <2>13 DEF vars, MonitorTypeOK, plugVars, loopVars, muVars
  <2>14. QED
    BY <2>1, <2>2, <2>3, <2>4, <2>5, <2>6, <2>7, <2>8, <2>9, <2>10, <2>11, <2>12, <2>13
       DEF Next, MonitorStep
<1>3. QED
  BY <1>1, <1>2, PTL DEF Spec

(* The monitor makes its requests without pm.mu, and is not queued for it     *)
(* either, whatever the plugs, messages and pages do meanwhile.  Inductive     *)
(* with the fact that no goroutine both holds the lock and waits for it.      *)
THEOREM CallsUnlocked == Spec => []CallsAreUnlocked
<1>1. Init => CallsAreUnlocked /\ NobodyWaitsTwice
  BY DEF Init, CallsAreUnlocked, NobodyWaitsTwice
<1>2. CallsAreUnlocked /\ NobodyWaitsTwice /\ [Next]_vars
        => (CallsAreUnlocked /\ NobodyWaitsTwice)'
  <2> SUFFICES ASSUME CallsAreUnlocked, NobodyWaitsTwice, [Next]_vars
               PROVE  (CallsAreUnlocked /\ NobodyWaitsTwice)'
    OBVIOUS
  <2> USE DEF CallsAreUnlocked, NobodyWaitsTwice
  <2>1. CASE UNCHANGED <<readers, blocked>> /\ (phase = "loop" => phase' = "loop")
    BY <2>1
  <2>2. CASE ViewPage \/ PageDone
    BY <2>2, MonitorAssumption DEF ViewPage, PageDone, RLock, RUnlock, loopVars
  <2>3. CASE MergeMessage \/ ApplyStatus
    BY <2>3 DEF MergeMessage, ApplyStatus, LockedAndUnlocked, loopVars
  <2>4. CASE EnterLoop
    BY <2>4 DEF EnterLoop, RLock
  <2>5. ASSUME NEW p \in Plugs, VisitPlug(p) PROVE (CallsAreUnlocked /\ NobodyWaitsTwice)'
    BY <2>5 DEF VisitPlug, RUnlock, muVars
  <2>6. CASE LeaveLoop
    BY <2>6 DEF LeaveLoop, RUnlock
  <2>7. QED
    BY <2>1, <2>2, <2>3, <2>4, <2>5, <2>6
       DEF Next, MonitorStep, Elapse, Tick, ConfigureMQTT, AskStatus, Lock, PlugChanges,
           MessageArrives, vars, loopVars, muVars
<1>3. QED
  BY <1>1, <1>2, PTL DEF Spec
==============================================================================
