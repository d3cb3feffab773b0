------------------------------- MODULE StateLog -------------------------------
(***************************************************************************)
(* What the event bus promises to those who show the plugs' states: there is   *)
(* one log of updates, the same for all readers.  A reader joins at the end of  *)
(* it, takes one update after the other in the log's order, none left out and   *)
(* none twice, and shows of each plug the update it took last.               *)
(***************************************************************************)
EXTENDS Naturals, Sequences

CONSTANTS Readers, Plugs, States, None

Entry == [plug : Plugs, state : States]

VARIABLES
  log,       \* the updates so far
  joined,    \* the readers
  position,  \* how many entries of the log a reader is past
  shown      \* the state of each plug a reader shows, or None

logVars == <<log, joined, position, shown>>

Init ==
  /\ log = <<>>
  /\ joined = {}
  /\ position = [r \in Readers |-> 0]
  /\ shown = [r \in Readers |-> [p \in Plugs |-> None]]

Add(entry) ==
  /\ log' = Append(log, entry)
  /\ UNCHANGED <<joined, position, shown>>

Join(r) ==
  /\ r \notin joined
  /\ joined' = joined \cup {r}
  /\ position' = [position EXCEPT ![r] = Len(log)]
  /\ UNCHANGED <<log, shown>>

Read(r) ==
  /\ r \in joined /\ position[r] < Len(log)
  /\ position' = [position EXCEPT ![r] = @ + 1]
  /\ LET entry == log[position[r] + 1]
     IN shown' = [shown EXCEPT ![r][entry.plug] = entry.state]
  /\ UNCHANGED <<log, joined>>

Next ==
  \/ \E entry \in Entry : Add(entry)
  \/ \E r \in Readers : Join(r) \/ Read(r)

Spec == Init /\ [][Next]_logVars

(* Whatever is in the log is read by everybody who has joined.               *)
FairSpec == Spec /\ \A r \in Readers : WF_logVars(Read(r))
==============================================================================
