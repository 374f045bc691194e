---------------------------- MODULE AtLeastOnce ----------------------------
(***************************************************************************)
(* What an outbox promises to the code that writes events into it: an      *)
(* event that was accepted is never forgotten, and it is only settled      *)
(* (marked, and later deleted) once somebody else has it.  Delivering an   *)
(* event twice is allowed; it is a step that changes nothing here.         *)
(***************************************************************************)
CONSTANT Events

VARIABLES
  accepted,  \* events whose transaction committed
  handed,    \* events the broker or the dead letter table has
  settled    \* events the outbox no longer cares for

vars == <<accepted, handed, settled>>

Init == accepted = {} /\ handed = {} /\ settled = {}

Accept(e) ==
  /\ accepted' = accepted \cup {e}
  /\ UNCHANGED <<handed, settled>>

HandOver(e) ==
  /\ e \in accepted
  /\ handed' = handed \cup {e}
  /\ UNCHANGED <<accepted, settled>>

Settle(S) ==
  /\ S \subseteq handed
  /\ settled' = settled \cup S
  /\ UNCHANGED <<accepted, handed>>

Next ==
  \/ \E e \in Events : Accept(e) \/ HandOver(e)
  \/ \E S \in SUBSET Events : Settle(S)

Spec == Init /\ [][Next]_vars

=============================================================================
