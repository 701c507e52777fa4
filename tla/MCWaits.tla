------------------------------- MODULE MCWaits -------------------------------
(***************************************************************************)
(* Two benches in one state graph: the channel of sync.c, and a select.    *)
(* A behaviour runs one of them; the variables of the other stay as its    *)
(* initial state left them.                                                *)
(***************************************************************************)
EXTENDS SyncChannel, Select

VARIABLE bench                 \* "channel" or "select"

\* An arm with two sources and an arm with one.
MCStages == <<2, 1>>

benchVars == <<bench, channelVars, vars>>

SelectRests ==
    Init /\ driver = (CHOOSE d \in Drivers : TRUE) /\ biased = (CHOOSE b \in Bias : TRUE)

BenchInit ==
    \/ bench = "channel" /\ ChannelInit /\ SelectRests
    \/ bench = "select" /\ ChannelInit /\ Init

BenchNext ==
    \/ bench = "channel" /\ ChannelNext /\ UNCHANGED <<bench, vars>>
    \/ bench = "select" /\ Next /\ UNCHANGED <<bench, channelVars>>

\* The fairness of each component, while it runs.
BenchFairness ==
    /\ \A r \in Receivers : WF_channelVars(bench = "channel" /\ Recv(r))
    /\ WF_vars(bench = "select" /\ Drive)
    /\ \A t \in Threads : SF_vars(bench = "select" /\ Step(t))
    /\ \A w \in Workers : WF_vars(bench = "select" /\ WakeArm(w))

BenchSpec == BenchInit /\ [][BenchNext]_benchVars /\ BenchFairness
-----------------------------------------------------------------------------
\* Nobody who waits is left behind: close releases every receiver of a channel
\* (SyncChannel), and a select with an arm that is ready returns (Select).
WaitersReturn == CloseStopsReceivers /\ SelectReturns
=============================================================================
