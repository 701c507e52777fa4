--------------------------- MODULE BufferedReader ---------------------------
(***************************************************************************)
(* The buffered TCP reader of runtime/src/async.c.  One task reads: it     *)
(* starts a read of at most or of exactly some bytes, and finishes or      *)
(* cancels it before the next, as a select in a loop does.  The callback   *)
(* of a cancelled read may still be under way.  Bytes are their positions  *)
(* in the stream, so that order and loss can be seen.                      *)
(***************************************************************************)
EXTENDS Naturals, Sequences, Functions, FiniteSets

CONSTANTS Modes,        \* "plain": read_buffered, "exact": read_exact_buffered
          Capacity,     \* of the reader
          Lengths,      \* asked for by the task
          MaxBytes,     \* bytes that arrive
          MaxReads      \* reads that are started

ASSUME ReaderAssumption ==
    /\ Modes \subseteq {"plain", "exact"} /\ Lengths \subseteq Nat
    /\ {Capacity, MaxBytes, MaxReads} \subseteq Nat

VARIABLES
    bytesIn, eof, next,        \* the kernel: bytes that came, end of stream, bytes read
    buffer, pendingRead,       \* the reader: its private buffer and the pending read
    read, at, fly,             \* per read: the operation, its thread, bytes in its hands
    count,                     \* reads started
    user,                      \* what the task does
    stash,                     \* bytes a cancel has taken from its operation
    out, lost,                 \* bytes the task got, and that were dropped with an error
    half                       \* into_read_half was called

readerVars == <<bytesIn, eof, next, buffer, pendingRead, read, at, fly, count, user, stash, out,
                lost, half>>
socketVars == <<bytesIn, eof>>
taskVars == <<count, stash, out, lost, half>>

Reads == 1..MaxReads
NoOp == 0

Least(a, b) == IF a < b THEN a ELSE b
Most(a, b) == IF a > b THEN a ELSE b
Available == bytesIn - next
Upto(s, n) == SubSeq(s, 1, Least(n, Len(s)))
Beyond(s, n) == SubSeq(s, n + 1, Len(s))

\* What read(2) with room for n bytes returns.
KernelBytes(n) == [i \in 1..Least(n, Available) |-> next + i]

NewRead(m, n) == [mode |-> m, len |-> n, complete |-> FALSE, canceled |-> FALSE,
                error |-> FALSE, bytes |-> <<>>]

ReaderInit ==
    /\ bytesIn = 0 /\ eof = FALSE /\ next = 0
    /\ buffer = <<>> /\ pendingRead = NoOp
    /\ read = [r \in Reads |-> NewRead("plain", 0)]
    /\ at = [r \in Reads |-> "none"] /\ fly = [r \in Reads |-> <<>>]
    /\ count = 0 /\ user = "idle" /\ stash = <<>> /\ out = <<>> /\ lost = {} /\ half = FALSE

\* Read r goes to l; when its start has armed the source, or completed it, the
\* task has its token.
ReadAt(r, l) ==
    /\ at' = [at EXCEPT ![r] = l]
    /\ user' = IF user = "starting" /\ r = count /\ l \in {"armed", "done"} THEN "wait" ELSE user

\* The peer sends a byte, or the connection ends: closed by the peer, or broken.
ByteArrives ==
    /\ bytesIn < MaxBytes /\ ~eof
    /\ bytesIn' = bytesIn + 1
    /\ UNCHANGED <<eof, next, buffer, pendingRead, read, at, fly, taskVars, user>>

PeerCloses ==
    /\ ~eof /\ eof' = TRUE
    /\ UNCHANGED <<bytesIn, next, buffer, pendingRead, read, at, fly, taskVars, user>>
-----------------------------------------------------------------------------
(* The task starts a read: under the reader's lock, from the buffer first.  *)

\* ciel_buffered_reader_take_locked and take_into_locked.
Taken(m, n) == Least(n, Len(buffer))

Start(m, n) ==
    LET r == count + 1
        k == Taken(m, n)
        full == IF m = "plain" THEN n = 0 \/ buffer # <<>> ELSE k = n
    IN  /\ user = "idle" /\ ~half /\ count < MaxReads /\ pendingRead = NoOp
        /\ count' = r /\ user' = IF full THEN "wait" ELSE "starting"
        /\ read' = [read EXCEPT ![r] = [NewRead(m, n) EXCEPT !.complete = full,
                                                           !.bytes = Upto(buffer, k)]]
        /\ buffer' = Beyond(buffer, k)
        /\ pendingRead' = IF full THEN NoOp ELSE r
        /\ at' = [at EXCEPT ![r] = IF full THEN "done" ELSE "first"]
        /\ UNCHANGED <<socketVars, next, fly, stash, out, lost, half>>
-----------------------------------------------------------------------------
(* The read at the start, by the task, and those of the source's callback.  *)

\* The source fires: there is something to read. The source of a cancelled read does
\* so until the cancel, which marks the read first, has stopped it.
SourceFires(r) ==
    /\ at[r] = "armed"
    /\ read[r].canceled => r = count /\ user \in {"cancel", "stop"}
    /\ Available > 0 \/ eof
    /\ ReadAt(r, "read")
    /\ UNCHANGED <<socketVars, next, buffer, pendingRead, read, fly, taskVars>>

\* read_cap of read_buffered: room for a whole buffer, at the least for one byte.
ReadCap(r) == Most(1, Most(Capacity, read[r].len))

\* Mutant: end of stream is taken for nothing to read.
PlainReadNoEof(r) ==
    LET got == KernelBytes(ReadCap(r)) IN
    /\ read[r].mode = "plain" /\ at[r] \in {"first", "read"}
    /\ next' = next + Len(got)
    /\ fly' = [fly EXCEPT ![r] = got]
    /\ ReadAt(r, IF got # <<>> THEN "complete" ELSE "armed")
    /\ UNCHANGED <<socketVars, buffer, pendingRead, read, taskVars>>

\* Where a read goes that found nothing: its source waits for more, unless the start
\* cannot create one.
Waiting(r) == IF at[r] = "first" THEN {"armed", "unarmed"} ELSE {"armed"}

\* read_buffered reads what there is, whether or not it was cancelled meanwhile; a
\* connection that ended gives no bytes or an error.
PlainRead(r) ==
    LET got == KernelBytes(ReadCap(r)) IN
    /\ read[r].mode = "plain" /\ at[r] \in {"first", "read"}
    /\ next' = next + Len(got)
    /\ fly' = [fly EXCEPT ![r] = got]
    /\ \E l \in IF got # <<>> THEN {"complete"}
               ELSE IF eof THEN {"complete", "failed"} ELSE Waiting(r) : ReadAt(r, l)
    /\ UNCHANGED <<socketVars, buffer, pendingRead, read, taskVars>>

\* The reader has no pending read any more, if r was it.
Free(r) == IF pendingRead = r THEN NoOp ELSE pendingRead

\* ciel_buffered_reader_append_locked.
Appended(s) == buffer \o s

\* Mutant: the bytes of a cancelled read are dropped.
PlainCompleteDrops(r) ==
    LET over == IF read[r].canceled THEN <<>> ELSE Beyond(fly[r], read[r].len) IN
    /\ read[r].mode = "plain" /\ at[r] \in {"complete", "failed"}
    /\ pendingRead' = Free(r)
    /\ buffer' = Appended(over)
    /\ read' = [read EXCEPT ![r].complete = TRUE,
                            ![r].error = at[r] = "failed" /\ ~read[r].canceled,
                            ![r].bytes = IF read[r].canceled THEN @ ELSE Upto(fly[r], read[r].len)]
    /\ fly' = [fly EXCEPT ![r] = <<>>]
    /\ ReadAt(r, "done")
    /\ UNCHANGED <<socketVars, next, taskVars>>

\* ciel_async_complete_buffered_read: surplus bytes, and all those of a cancelled
\* read, are appended to the buffer.
PlainComplete(r) ==
    LET over == IF read[r].canceled THEN fly[r] ELSE Beyond(fly[r], read[r].len) IN
    /\ read[r].mode = "plain" /\ at[r] \in {"complete", "failed"}
    /\ pendingRead' = Free(r)
    /\ buffer' = Appended(over)
    /\ read' = [read EXCEPT ![r].complete = TRUE,
                            ![r].error = at[r] = "failed" /\ ~read[r].canceled,
                            ![r].bytes = IF read[r].canceled THEN @ ELSE Upto(fly[r], read[r].len)]
    /\ fly' = [fly EXCEPT ![r] = <<>>]
    /\ ReadAt(r, "done")
    /\ UNCHANGED <<socketVars, next, taskVars>>

\* read_exact_buffered reads into the operation, under its lock, unless cancelled; it
\* fails when the connection ends before the last byte.
ExactRead(r) ==
    LET got == KernelBytes(read[r].len - Len(read[r].bytes))
        all == read[r].bytes \o got
        ended == Len(all) < read[r].len /\ eof
    IN  /\ read[r].mode = "exact" /\ at[r] \in {"first", "read"}
        /\ \/ /\ read[r].canceled
              /\ ReadAt(r, "armed")
              /\ UNCHANGED <<next, read>>
           \/ /\ ~read[r].canceled
              /\ next' = next + Len(got)
              /\ read' = [read EXCEPT ![r].bytes = all, ![r].error = ended]
              /\ \E l \in IF Len(all) = read[r].len \/ ended THEN {"complete"} ELSE Waiting(r) :
                     ReadAt(r, l)
        /\ UNCHANGED <<socketVars, buffer, pendingRead, fly, taskVars>>

\* ciel_async_complete_buffered_exact_read.
ExactComplete(r) ==
    /\ read[r].mode = "exact" /\ at[r] = "complete"
    /\ pendingRead' = Free(r)
    /\ read' = [read EXCEPT ![r].complete = TRUE]
    /\ ReadAt(r, "done")
    /\ UNCHANGED <<socketVars, next, buffer, fly, taskVars>>

\* ciel_buffered_reader_prepend_locked.
Prepended(s) == s \o buffer

\* A start that fails, because the stream is closed or there is no source, puts the
\* bytes it has taken back in front of the buffer; the task gets no token.
StartFails(r) ==
    /\ at[r] \in {"first", "unarmed"}
    /\ at' = [at EXCEPT ![r] = "done"] /\ user' = "idle"
    /\ pendingRead' = Free(r)
    /\ buffer' = Prepended(read[r].bytes)
    /\ read' = [read EXCEPT ![r].bytes = <<>>]
    /\ UNCHANGED <<socketVars, next, fly, taskVars>>
-----------------------------------------------------------------------------
(* The task ends the read.                                                  *)

\* ciel_async_finish_read: an error drops the bytes.
FinishRead ==
    /\ user = "wait" /\ read[count].complete
    /\ user' = "idle"
    /\ \/ /\ read[count].error
          /\ lost' = lost \cup Range(read[count].bytes)
          /\ UNCHANGED out
       \/ /\ ~read[count].error
          /\ out' = out \o read[count].bytes
          /\ UNCHANGED lost
    /\ read' = [read EXCEPT ![count].bytes = <<>>]
    /\ UNCHANGED <<socketVars, next, buffer, pendingRead, at, fly, count, stash, half>>

\* ciel_async_cancel: under the operation's lock its bytes are taken ...
CancelRead ==
    /\ user = "wait"
    /\ user' = "cancel"
    /\ stash' = read[count].bytes
    /\ read' = [read EXCEPT ![count].canceled = TRUE, ![count].bytes = <<>>]
    /\ UNCHANGED <<socketVars, next, buffer, pendingRead, at, fly, count, out, lost, half>>

\* ... under the reader's lock they are put back in front of the buffer ...
CancelReader ==
    /\ user = "cancel"
    /\ user' = "stop"
    /\ pendingRead' = Free(count)
    /\ buffer' = Prepended(stash) /\ stash' = <<>>
    /\ UNCHANGED <<socketVars, next, read, at, fly, count, out, lost, half>>

\* ... and then the source is stopped.
StopReadSource ==
    /\ user = "stop"
    /\ user' = "idle"
    /\ UNCHANGED <<socketVars, next, buffer, pendingRead, read, at, fly, taskVars>>

\* ciel_async_tcp_buffered_reader_into_read_half, and plain reads of the half.
IntoReadHalf ==
    /\ user = "idle" /\ ~half /\ pendingRead = NoOp /\ buffer = <<>>
    /\ half' = TRUE
    /\ UNCHANGED <<socketVars, next, buffer, pendingRead, read, at, fly, count, user, stash, out,
                   lost>>

HalfRead ==
    /\ half /\ Available > 0
    /\ next' = bytesIn
    /\ out' = out \o KernelBytes(Available)
    /\ UNCHANGED <<socketVars, buffer, pendingRead, read, at, fly, count, user, stash, lost, half>>
-----------------------------------------------------------------------------
Work(r) ==
    \/ SourceFires(r) \/ PlainRead(r) \/ PlainComplete(r) \/ ExactRead(r) \/ ExactComplete(r)
    \/ StartFails(r)

ReaderNext ==
    \/ ByteArrives \/ PeerCloses
    \/ \E m \in Modes, n \in Lengths : Start(m, n)
    \/ \E r \in Reads : Work(r)
    \/ FinishRead \/ CancelRead \/ CancelReader \/ StopReadSource
    \/ IntoReadHalf \/ HalfRead

\* Threads run on, and the peer closes in the end; it need not send anything.
ReaderFairness ==
    /\ WF_readerVars(PeerCloses) /\ WF_readerVars(FinishRead) /\ WF_readerVars(CancelReader)
    /\ WF_readerVars(StopReadSource)
    /\ \A r \in Reads : WF_readerVars(Work(r))

ReaderSpec == ReaderInit /\ [][ReaderNext]_readerVars /\ ReaderFairness
-----------------------------------------------------------------------------
(* Properties.                                                             *)

\* The variables have their types; a pending read is one the task waits for.
ReaderTypeOK ==
    /\ bytesIn \in 0..MaxBytes /\ next \in 0..bytesIn
    /\ buffer \in Seq(1..MaxBytes) /\ out \in Seq(1..MaxBytes) /\ stash \in Seq(1..MaxBytes)
    /\ pendingRead \in {NoOp, count} /\ count \in 0..MaxReads
    /\ pendingRead # NoOp => user # "idle"
    /\ user \in {"idle", "starting", "wait", "cancel", "stop"}

\* How often byte b is in s, and how often it is somewhere: in the buffer, with a
\* read, put aside by a cancel, given to the task, or dropped with an error.
Occurs(b, s) == Cardinality({i \in DOMAIN s : s[i] = b})

Times(b) ==
    Occurs(b, buffer) + Occurs(b, stash) + Occurs(b, out) + (IF b \in lost THEN 1 ELSE 0)
    + Cardinality({r \in Reads : b \in Range(read[r].bytes)})
    + Cardinality({r \in Reads : b \in Range(fly[r])})

\* "cancellation preserves already-read bytes inside that private buffer"
\* (design.md): every byte read from the socket is in one place. Checked together
\* with the type invariant.
BytesConserved ==
    /\ ReaderTypeOK
    /\ \A b \in 1..next : Times(b) = 1

\* "so cancellation cannot reorder stream bytes" (async-await.md): the task gets
\* the bytes in the order of the stream, however often it cancels.
StreamOrder == \A i \in DOMAIN out : out[i] = i

\* No read_buffered was cancelled: its callback might still have bytes in hand.
NoPlainCancelled == \A r \in Reads : read[r].mode = "plain" => ~read[r].canceled

\* Exact reads may be cancelled at any moment, and plain ones be finished in any mix
\* with them, without a byte overtaking another.
OrderKept == NoPlainCancelled => StreamOrder

\* No byte vanishes or is duplicated (ciel_async_cancel, the completion of a late
\* read), and order is kept unless a plain read is cancelled.
BytesKept == BytesConserved /\ OrderKept

\* Every read ends, by data, by the end of the stream or by a cancel.
ReadReturns == (user \in {"starting", "wait", "cancel", "stop"}) ~> (user = "idle")
=============================================================================
