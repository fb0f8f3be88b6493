---------------------------- MODULE AtLeastOnce ----------------------------
(***************************************************************************)
(* What the event bus promises its publishers: "at-least-once delivery"    *)
(* and "acknowledgment after successful processing".  Events are numbered  *)
(* as they are published.  Handlers handle them in any order, again and    *)
(* again if need be; an event is settled, never to be looked at again,     *)
(* only once every handler has handled it or nobody can decode it.         *)
(***************************************************************************)
EXTENDS Naturals

CONSTANTS Handlers, Undecodable

VARIABLES published, handled, settled

vars == <<published, handled, settled>>

Init == published = 0 /\ handled = {} /\ settled = {}

Publish ==
  /\ published' = published + 1
  /\ UNCHANGED <<handled, settled>>

Handle(e, h) ==
  /\ handled' = handled \cup {<<e, h>>}
  /\ UNCHANGED <<published, settled>>

Settle(e) ==
  /\ e \in Undecodable \/ \A h \in Handlers : <<e, h>> \in handled
  /\ settled' = settled \cup {e}
  /\ UNCHANGED <<published, handled>>

Next ==
  \/ Publish
  \/ \E e \in 1..published : Settle(e) \/ \E h \in Handlers : Handle(e, h)

Spec == Init /\ [][Next]_vars
=============================================================================
