------------------------- MODULE ReviewedDelivery -------------------------
(***************************************************************************)
(* What the task lifecycle promises whoever receives the work: developers  *)
(* write, QA reads, and only what QA has read lands on the base branch or  *)
(* is delivered.  What is delivered has landed; what is delivered or       *)
(* dropped is never written, read or landed again.                         *)
(***************************************************************************)
CONSTANT Tasks

VARIABLES
  outcome,   \* of each task: "open", "delivered" or "dropped"
  unread,    \* tasks with work QA has not read
  unmerged   \* tasks with work the base branch lacks

vars == <<outcome, unread, unmerged>>

Init == outcome = [t \in Tasks |-> "open"] /\ unread = {} /\ unmerged = {}

IsRead(t) == t \notin unread

Write(t) ==
  /\ unread' = unread \cup {t}
  /\ unmerged' = unmerged \cup {t}
  /\ UNCHANGED outcome

Read(t) == unread' = unread \ {t} /\ UNCHANGED <<outcome, unmerged>>

Land(t) ==
  /\ IsRead(t)
  /\ unmerged' = unmerged \ {t}
  /\ UNCHANGED <<outcome, unread>>

(* Delivery lands what is left to land.                                    *)
Deliver(t) ==
  /\ IsRead(t)
  /\ unmerged' = unmerged \ {t}
  /\ outcome' = [outcome EXCEPT ![t] = "delivered"]
  /\ UNCHANGED unread

Drop(t) == outcome' = [outcome EXCEPT ![t] = "dropped"] /\ UNCHANGED <<unread, unmerged>>

Next ==
  \E t \in Tasks :
    /\ outcome[t] = "open"
    /\ Write(t) \/ Read(t) \/ Land(t) \/ Deliver(t) \/ Drop(t)

Spec == Init /\ [][Next]_vars
=============================================================================
