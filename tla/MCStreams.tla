------------------------------ MODULE MCStreams ------------------------------
(***************************************************************************)
(* Two benches in one state graph: a listener, and a buffered reader.  A   *)
(* behaviour runs one of them; the variables of the other stay as its      *)
(* initial state left them.                                                *)
(***************************************************************************)
EXTENDS TcpListener, BufferedReader

VARIABLE bench                 \* "listener" or "reader"

benchVars == <<bench, vars, readerVars>>

BenchInit == bench \in {"listener", "reader"} /\ Init /\ ReaderInit

BenchNext ==
    \/ bench = "reader" /\ ReaderNext /\ UNCHANGED <<bench, vars>>
    \/ bench = "listener" /\ Next /\ UNCHANGED <<bench, readerVars>>

\* The fairness of each component, while it runs.
BenchFairness ==
    /\ WF_readerVars(bench = "reader" /\ PeerCloses)
    /\ WF_readerVars(bench = "reader" /\ FinishRead)
    /\ WF_readerVars(bench = "reader" /\ CancelReader)
    /\ WF_readerVars(bench = "reader" /\ StopReadSource)
    /\ \A r \in Reads : WF_readerVars(bench = "reader" /\ Work(r))
    /\ WF_vars(bench = "listener" /\ Callback)
    /\ WF_vars(bench = "listener" /\ CloseRest)
    /\ \A t \in Threads : WF_vars(bench = "listener" /\ (Clear(t) \/ Store(t)))
    /\ \A o \in Ops : WF_vars(bench = "listener" /\ Run(o))
    /\ \A o \in Cancellers : WF_vars(bench = "listener" /\ CancelClear(o))

BenchSpec == BenchInit /\ [][BenchNext]_benchVars /\ BenchFairness
=============================================================================
