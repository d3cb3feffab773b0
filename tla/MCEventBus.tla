------------------------------ MODULE MCEventBus ------------------------------
(* The event bus for TLC: two plugs, two subscribers that join at different    *)
(* times, one reading that moves in steps below the tolerance, and at most     *)
(* MaxLog publications.                                                    *)
EXTENDS BusLog

CONSTANT MaxLog  \* bound on the updates published

(* The states published: connected and seen play no part of their own here,   *)
(* and a plug that is on has one reading.                                   *)
MCState == {st \in State : /\ st.connected = TRUE /\ st.seen = TRUE
                           /\ st.on => \A r \in Readings : st.energy[r] = 0}

MCNext ==
  \/ \E s \in Subscribers : (Subscribe(s) /\ UNCHANGED log) \/ Receive(s)
  \/ \E p \in Plugs, state \in MCState, newTimes \in BOOLEAN :
        /\ Len(log) < MaxLog \/ Duplicate(p, state, newTimes)
        /\ Publish(p, state, newTimes)

MCSpec ==
  /\ LogInit /\ [][MCNext]_logVars
  /\ \A s \in Subscribers : WF_logVars(Receive(s))
==============================================================================
