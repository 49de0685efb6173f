-------------------------- MODULE DeliveryContract --------------------------
(***************************************************************************)
(* What the worker's metric consumer promises to the rest of the pipeline: *)
(* at-least-once persistence of the messages RabbitMQ accepted.            *)
(*                                                                         *)
(* A message is settled once and for all, either by an acknowledgement,    *)
(* which the consumer may send only when every metric point of the message *)
(* is durable, or by being dead-lettered, which it may do only to a        *)
(* message that breaks the protocol.  Durable points are never taken back. *)
(***************************************************************************)
EXTENDS Naturals, Sequences

CONSTANTS Messages, Invalid, Points, PointsOf

VARIABLES published, stored, acked, dead

vars == <<published, stored, acked, dead>>

RangeOf(m) == {PointsOf[m][i] : i \in 1..Len(PointsOf[m])}

Init == /\ published = {}
        /\ stored = {}
        /\ acked = {}
        /\ dead = {}

\* RabbitMQ confirms a message.
Accept(m) == /\ m \notin published
             /\ published' = published \cup {m}
             /\ UNCHANGED <<stored, acked, dead>>

\* Some points of accepted, well-formed messages become durable.
Persist(new) == /\ \A p \in new : \E m \in published \ Invalid : p \in RangeOf(m)
                /\ stored' = stored \cup new
                /\ UNCHANGED <<published, acked, dead>>

\* A well-formed message leaves the broker: all of it is durable by then.
Acknowledge(m) == /\ m \in published \ (Invalid \cup acked \cup dead)
                  /\ RangeOf(m) \subseteq stored
                  /\ acked' = acked \cup {m}
                  /\ UNCHANGED <<published, stored, dead>>

\* A message that breaks the protocol leaves the broker for the dead-letter queue.
DeadLetter(m) == /\ m \in (published \cap Invalid) \ dead
                 /\ dead' = dead \cup {m}
                 /\ UNCHANGED <<published, stored, acked>>

Next == \/ \E m \in Messages : Accept(m) \/ Acknowledge(m) \/ DeadLetter(m)
        \/ \E new \in SUBSET Points : Persist(new)

Spec == Init /\ [][Next]_vars
=============================================================================
