---------------------------- MODULE SyncChannel ----------------------------
(***************************************************************************)
(* The blocking, unbounded channel of std/sync/native/sync.c, the runtime  *)
(* behind /std/channel.  Every operation runs under channel->mutex, so one *)
(* critical section is one action; pthread_cond_wait releases the mutex    *)
(* and therefore splits ciel_channel_recv in two: the call, and what runs  *)
(* after the wait returns.                                                 *)
(***************************************************************************)
EXTENDS Naturals, Sequences, FiniteSets

CONSTANTS Receivers,   \* threads that call ciel_channel_recv, again and again
          Values,      \* message payloads
          MaxSends     \* bound: how many sends the channel accepts

ASSUME SyncChannelAssumption ==
    /\ IsFiniteSet(Receivers)
    /\ MaxSends \in Nat

VARIABLES queue,       \* head .. tail of struct CielChannel
          closed,      \* channel->closed
          rstate,      \* where each receiver thread is
          accepted,    \* history: every value a send returned 0 for, in order
          delivered    \* history: every value a recv returned, in order

channelVars == <<queue, closed, rstate, accepted, delivered>>

\* "idle": outside recv;  "waiting": inside pthread_cond_wait;
\* "woken": pthread_cond_wait returned, about to test the loop condition;
\* "failed": recv returned NULL with EPIPE, the thread stops.
ReceiverStates == {"idle", "waiting", "woken", "failed"}

Waiting == {r \in Receivers : rstate[r] = "waiting"}
Woken == {r \in Receivers : rstate[r] = "woken"}

\* ciel_channel_make.
ChannelInit ==
    /\ queue = <<>>
    /\ closed = FALSE
    /\ rstate = [r \in Receivers |-> "idle"]
    /\ accepted = <<>>
    /\ delivered = <<>>

\* pthread_cond_signal: releases one waiter, if there is one.
Signal ==
    \/ /\ Waiting = {}
       /\ UNCHANGED rstate
    \/ \E r \in Waiting : rstate' = [rstate EXCEPT ![r] = "woken"]

\* pthread_cond_broadcast: releases every waiter.
Broadcast ==
    rstate' = [r \in Receivers |->
                 IF rstate[r] = "waiting" THEN "woken" ELSE rstate[r]]

\* Mutant: the new node becomes the head of the list.
SendAtHead(v) ==
    /\ ~closed
    /\ Len(accepted) < MaxSends
    /\ queue' = <<v>> \o queue
    /\ accepted' = Append(accepted, v)
    /\ Signal
    /\ UNCHANGED <<closed, delivered>>

\* Mutant: a send signals only when it finds the queue empty.
SendSignalsIfEmpty(v) ==
    /\ ~closed
    /\ Len(accepted) < MaxSends
    /\ queue' = Append(queue, v)
    /\ accepted' = Append(accepted, v)
    /\ IF queue = <<>> THEN Signal ELSE UNCHANGED rstate
    /\ UNCHANGED <<closed, delivered>>

\* ciel_channel_send, past the closed test (a send on a closed channel returns
\* EPIPE and changes nothing).
Send(v) ==
    /\ ~closed
    /\ Len(accepted) < MaxSends
    /\ queue' = Append(queue, v)
    /\ accepted' = Append(accepted, v)
    /\ Signal
    /\ UNCHANGED <<closed, delivered>>

\* The loop of ciel_channel_recv tests its condition: on the call, and again
\* each time pthread_cond_wait returns.
RecvBlock(r) ==
    /\ rstate[r] \in {"idle", "woken"}
    /\ queue = <<>>
    /\ ~closed
    /\ rstate' = [rstate EXCEPT ![r] = "waiting"]
    /\ UNCHANGED <<queue, closed, accepted, delivered>>

RecvClosed(r) ==
    /\ rstate[r] \in {"idle", "woken"}
    /\ queue = <<>>
    /\ closed
    /\ rstate' = [rstate EXCEPT ![r] = "failed"]
    /\ UNCHANGED <<queue, closed, accepted, delivered>>

RecvTake(r) ==
    /\ rstate[r] \in {"idle", "woken"}
    /\ queue # <<>>
    /\ queue' = Tail(queue)
    /\ delivered' = Append(delivered, Head(queue))
    /\ rstate' = [rstate EXCEPT ![r] = "idle"]
    /\ UNCHANGED <<closed, accepted>>

\* POSIX lets pthread_cond_wait return without a signal.
SpuriousWakeup(r) ==
    /\ rstate[r] = "waiting"
    /\ rstate' = [rstate EXCEPT ![r] = "woken"]
    /\ UNCHANGED <<queue, closed, accepted, delivered>>

\* ciel_channel_close.
Close ==
    /\ closed' = TRUE
    /\ Broadcast
    /\ UNCHANGED <<queue, accepted, delivered>>

Recv(r) == RecvBlock(r) \/ RecvClosed(r) \/ RecvTake(r)

ChannelNext ==
    \/ \E v \in Values : Send(v)
    \/ \E r \in Receivers : Recv(r) \/ SpuriousWakeup(r)
    \/ Close

\* A receiver thread that is not blocked keeps running; nobody has to send,
\* close, or wake spuriously.
ChannelFairness == \A r \in Receivers : WF_channelVars(Recv(r))

ChannelSpec == ChannelInit /\ [][ChannelNext]_channelVars /\ ChannelFairness
-----------------------------------------------------------------------------
ChannelTypeOK ==
    /\ queue \in Seq(Values)
    /\ closed \in BOOLEAN
    /\ rstate \in [Receivers -> ReceiverStates]
    /\ accepted \in Seq(Values)
    /\ delivered \in Seq(Values)

\* Every accepted value is delivered exactly once and in the order of the
\* sends, whichever receivers race for it (the linked list of sync.c).
DeliveredInOrder == delivered \o queue = accepted

\* No signal is lost: while a receiver sleeps there are at most as many queued
\* values as receivers already on their way to take one, although a receiver
\* that never slept may steal a value from the one that was signalled.
NoLostSignal == Waiting # {} => Len(queue) <= Cardinality(Woken)

\* close releases every receiver, also the ones inside pthread_cond_wait: each
\* of them goes on to fail with EPIPE once the queue is drained.
CloseStopsReceivers == closed ~> \A r \in Receivers : rstate[r] = "failed"

\* design.md:4856 on channel_close: it "releases every queued message clone
\* that was not received, and wakes blocked receivers with ChannelError".
CloseReleasesQueue == [][closed => delivered' = delivered]_channelVars
=============================================================================
