--------------------------- MODULE BoundedChannel ---------------------------
(***************************************************************************)
(* What the async channel of runtime/src/async.c promises its clients: a   *)
(* FIFO of bounded capacity that is shared with send permits.  A permit    *)
(* holder can always send; an unused permit gives its slot back; closing   *)
(* the sending half refuses new sends and permits, closing the receiving   *)
(* half drops what was not received.                                       *)
(***************************************************************************)
EXTENDS Naturals, Sequences, FiniteSets

CONSTANTS Capacity, Clients

VARIABLES sent, received,                  \* every value, in order
          held,                            \* clients that hold a permit
          sender_closed, receiver_closed

vars == <<sent, received, held, sender_closed, receiver_closed>>

Init ==
    /\ sent = <<>> /\ received = <<>> /\ held = {}
    /\ sender_closed = FALSE /\ receiver_closed = FALSE

InFlight == Len(sent) - Len(received)
HasRoom == InFlight + Cardinality(held) < Capacity
Open == ~sender_closed /\ ~receiver_closed

Send(c) ==
    /\ Open /\ HasRoom
    /\ sent' = Append(sent, c)
    /\ UNCHANGED <<received, held, sender_closed, receiver_closed>>

Reserve(c) ==
    /\ Open /\ HasRoom
    /\ c \notin held
    /\ held' = held \cup {c}
    /\ UNCHANGED <<sent, received, sender_closed, receiver_closed>>

\* The send of a permit holder needs no room: the slot is its own.
SendReserved(c) ==
    /\ c \in held /\ ~receiver_closed
    /\ held' = held \ {c}
    /\ sent' = Append(sent, c)
    /\ UNCHANGED <<received, sender_closed, receiver_closed>>

Release(c) ==
    /\ c \in held
    /\ held' = held \ {c}
    /\ UNCHANGED <<sent, received, sender_closed, receiver_closed>>

\* Values already accepted can be received after the sender closed.
Receive ==
    /\ ~receiver_closed
    /\ InFlight > 0
    /\ received' = Append(received, sent[Len(received) + 1])
    /\ UNCHANGED <<sent, held, sender_closed, receiver_closed>>

CloseSender ==
    /\ ~sender_closed
    /\ sender_closed' = TRUE
    /\ UNCHANGED <<sent, received, held, receiver_closed>>

CloseReceiver ==
    /\ ~receiver_closed
    /\ receiver_closed' = TRUE
    /\ UNCHANGED <<sent, received, held, sender_closed>>

Next ==
    \/ \E c \in Clients : Send(c) \/ Reserve(c) \/ SendReserved(c) \/ Release(c)
    \/ Receive \/ CloseSender \/ CloseReceiver

Spec == Init /\ [][Next]_vars
=============================================================================
