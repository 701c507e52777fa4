------------------------ MODULE BufferedReaderProofs ------------------------
(***************************************************************************)
(* Proofs about BufferedReader for any capacity, any lengths that are      *)
(* asked for, any number of bytes and reads.                               *)
(***************************************************************************)
EXTENDS BufferedReader, FiniteSetTheorems, TLAPS

-----------------------------------------------------------------------------
(* The inductive invariant.                                                *)

ReadRecords ==
    [mode : {"plain", "exact"}, len : Nat, complete : BOOLEAN, canceled : BOOLEAN,
     error : BOOLEAN, bytes : Seq(1..MaxBytes)]
Stages == {"none", "first", "unarmed", "armed", "read", "complete", "failed", "done"}
Users == {"idle", "starting", "wait", "cancel", "stop"}

\* The variables have their types.
Types ==
    /\ bytesIn \in 0..MaxBytes /\ next \in 0..bytesIn /\ eof \in BOOLEAN /\ half \in BOOLEAN
    /\ buffer \in Seq(1..MaxBytes) /\ stash \in Seq(1..MaxBytes) /\ out \in Seq(1..MaxBytes)
    /\ lost \in SUBSET (1..MaxBytes)
    /\ count \in 0..MaxReads /\ pendingRead \in {NoOp, count} /\ user \in Users
    /\ read \in [Reads -> ReadRecords]
    /\ at \in [Reads -> Stages]
    /\ fly \in [Reads -> Seq(1..MaxBytes)]

Active == user \in {"starting", "wait"}

\* What the task does, and which read is pending.
TaskPhase ==
    /\ user # "idle" => count \in Reads
    /\ half => user = "idle"
    /\ user # "cancel" => stash = <<>>
    /\ Active => ~read[count].canceled
    /\ pendingRead # NoOp => user \notin {"idle", "stop"} /\ ~read[pendingRead].complete

\* Where read r is, and what it may hold there.
ReadPhase(r) ==
    /\ r > count => at[r] = "none" /\ ~read[r].canceled
    /\ read[r].complete => at[r] = "done"
    /\ read[r].canceled => read[r].bytes = <<>>
    /\ read[r].bytes # <<>> => r = count /\ Active
    /\ fly[r] # <<>> => read[r].mode = "plain" /\ at[r] = "complete"
    /\ read[r].mode = "plain" /\ ~read[r].complete => read[r].bytes = <<>>
    /\ at[r] \notin {"none", "done"} /\ ~read[r].canceled => r = count /\ pendingRead = r /\ Active
    /\ at[r] \in {"first", "unarmed"} => user = "starting" /\ ~read[r].canceled
    /\ at[r] = "failed" => read[r].mode = "plain" /\ eof /\ next = bytesIn
    /\ read[r].error => /\ at[r] = "done" \/ (at[r] = "complete" /\ read[r].mode = "exact")
                        /\ eof /\ next = bytesIn
    /\ read[r].mode = "exact" => Len(read[r].bytes) <= read[r].len

\* The holders of bytes, and the bytes they hold.
Holders == ({"read", "fly"} \X Reads) \cup ({"buffer", "stash", "out", "lost"} \X {0})
Held == [h \in Holders |->
    IF h[1] = "read" THEN Range(read[h[2]].bytes)
    ELSE IF h[1] = "fly" THEN Range(fly[h[2]])
    ELSE IF h[1] = "buffer" THEN Range(buffer)
    ELSE IF h[1] = "stash" THEN Range(stash)
    ELSE IF h[1] = "out" THEN Range(out)
    ELSE lost]

\* R distributes the bytes 1..n among the holders.
Partition(R, n) ==
    /\ \A g, h \in Holders : g # h => R[g] \cap R[h] = {}
    /\ \A h \in Holders : R[h] \subseteq 1..n
    /\ \A b \in 1..n : \E h \in Holders : b \in R[h]

\* No byte is twice in s.
Once(s) == \A i, j \in 1..Len(s) : s[i] = s[j] => i = j

Conserved ==
    /\ Partition(Held, next)
    /\ Once(buffer) /\ Once(stash) /\ Once(out)
    /\ \A r \in Reads : Once(read[r].bytes) /\ Once(fly[r])

\* s is a run of the stream that starts behind byte n.
RunFrom(s, n) == \A i \in 1..Len(s) : s[i] = n + i

Mine == IF count = 0 THEN <<>> ELSE read[count].bytes
InHand == IF count = 0 THEN <<>> ELSE fly[count]

\* The bytes that were read are, in this order, with the task, set aside, in the
\* operation, in the hands of its callback, and in the buffer.
InLine ==
    LET a == Len(out)
        b == a + Len(stash)
        c == b + Len(Mine)
        d == c + Len(InHand)
    IN  /\ RunFrom(stash, a) /\ RunFrom(Mine, b) /\ RunFrom(InHand, c) /\ RunFrom(buffer, d)
        /\ next = d + Len(buffer)

\* After a failed read has dropped bytes there are no others.
Drained ==
    /\ eof /\ next = bytesIn
    /\ stash = <<>> /\ Mine = <<>> /\ InHand = <<>> /\ buffer = <<>>

\* The read of the task goes to the socket, or has failed there; or the reader was
\* given up.
Expecting ==
    \/ half
    \/ pendingRead # NoOp /\ ~read[count].canceled
    \/ user = "wait" /\ read[count].error

Lined ==
    /\ RunFrom(out, 0)
    /\ (lost = {} /\ InLine) \/ (lost # {} /\ Drained)
    /\ \A r \in Reads : fly[r] # <<>> => r = count
    /\ Expecting => buffer = <<>>

\* While no plain read was cancelled the bytes stand in line.
Order == NoPlainCancelled => Lined

ReaderInv ==
    /\ Types /\ TaskPhase /\ (\A r \in Reads : ReadPhase(r)) /\ Conserved /\ Order
-----------------------------------------------------------------------------
(* Sequences of bytes.                                                     *)

LEMMA RangeConcat ==
    ASSUME NEW S, NEW s \in Seq(S), NEW t \in Seq(S)
    PROVE  Range(s \o t) = Range(s) \cup Range(t)
<1>1. \A i \in DOMAIN s : i \in DOMAIN (s \o t) /\ (s \o t)[i] = s[i]
  OBVIOUS
<1>2. \A i \in DOMAIN t : i + Len(s) \in DOMAIN (s \o t) /\ (s \o t)[i + Len(s)] = t[i]
  OBVIOUS
<1>3. \A i \in DOMAIN (s \o t) :
          \/ i \in DOMAIN s /\ (s \o t)[i] = s[i]
          \/ i - Len(s) \in DOMAIN t /\ (s \o t)[i] = t[i - Len(s)]
  OBVIOUS
<1>4. Range(s) \subseteq Range(s \o t) /\ Range(t) \subseteq Range(s \o t)
  BY <1>1, <1>2, Zenon DEF Range
<1>5. ASSUME NEW b \in Range(s \o t) PROVE b \in Range(s) \cup Range(t)
  <2>1. PICK i \in DOMAIN (s \o t) : b = (s \o t)[i]
    BY Zenon DEF Range
  <2> QED
    BY <1>3, <2>1, Zenon DEF Range
<1> QED
  BY <1>4, <1>5, Zenon

\* Two sequences without repetition that share nothing have none together.
LEMMA OnceConcat ==
    ASSUME NEW S, NEW s \in Seq(S), NEW t \in Seq(S), Once(s), Once(t),
           Range(s) \cap Range(t) = {}
    PROVE  Once(s \o t)
<1>1. \A i \in 1..Len(s), j \in 1..Len(t) : s[i] # t[j]
  BY DEF Range
<1>2. \A i \in 1..Len(s \o t) :
          \/ i \in 1..Len(s) /\ (s \o t)[i] = s[i]
          \/ i - Len(s) \in 1..Len(t) /\ (s \o t)[i] = t[i - Len(s)]
  OBVIOUS
<1>3. \A i, j \in 1..Len(s \o t) : i - Len(s) = j - Len(s) => i = j
  OBVIOUS
<1> SUFFICES ASSUME NEW i \in 1..Len(s \o t), NEW j \in 1..Len(s \o t),
                    (s \o t)[i] = (s \o t)[j]
             PROVE  i = j
  BY Zenon DEF Once
<1> QED
  BY <1>1, <1>2, <1>3, ZenonT(30) DEF Once

\* What is cut off the front of a sequence, and the rest.
LEMMA Cut ==
    ASSUME NEW S, NEW s \in Seq(S), NEW n \in Nat
    PROVE  /\ Upto(s, n) \in Seq(S) /\ Beyond(s, n) \in Seq(S)
           /\ Len(Upto(s, n)) = Least(n, Len(s))
           /\ Len(Upto(s, n)) + Len(Beyond(s, n)) = Len(s)
           /\ \A i \in 1..Len(Upto(s, n)) : i \in 1..Len(s) /\ Upto(s, n)[i] = s[i]
           /\ \A i \in 1..Len(Beyond(s, n)) :
                  /\ i + Len(Upto(s, n)) \in 1..Len(s)
                  /\ Beyond(s, n)[i] = s[i + Len(Upto(s, n))]
<1>1. CASE n <= Len(s)
  <2>1. Upto(s, n) = SubSeq(s, 1, n) /\ Least(n, Len(s)) = n
    BY <1>1 DEF Upto, Least
  <2>2. /\ SubSeq(s, 1, n) \in Seq(S) /\ Len(SubSeq(s, 1, n)) = n
        /\ \A i \in 1..n : i \in 1..Len(s) /\ SubSeq(s, 1, n)[i] = s[i]
    BY <1>1
  <2>3. /\ Beyond(s, n) \in Seq(S) /\ Len(Beyond(s, n)) = Len(s) - n
        /\ \A i \in 1..(Len(s) - n) : i + n \in 1..Len(s) /\ Beyond(s, n)[i] = s[i + n]
    BY <1>1 DEF Beyond
  <2>4. n + (Len(s) - n) = Len(s)
    OBVIOUS
  <2> QED
    BY <2>1, <2>2, <2>3, <2>4, Zenon
<1>2. CASE n > Len(s)
  <2>1. Upto(s, n) = SubSeq(s, 1, Len(s))
    BY <1>2 DEF Upto, Least
  <2>2. Beyond(s, n) = <<>>
    BY <1>2 DEF Beyond
  <2> QED
    BY <1>2, <2>1, <2>2 DEF Least
<1> QED
  BY <1>1, <1>2

LEMMA CutOnce ==
    ASSUME NEW S, NEW s \in Seq(S), NEW n \in Nat, Once(s)
    PROVE  /\ Once(Upto(s, n)) /\ Once(Beyond(s, n))
           /\ Range(Upto(s, n)) \cap Range(Beyond(s, n)) = {}
           /\ Range(Upto(s, n)) \cup Range(Beyond(s, n)) = Range(s)
<1> DEFINE u == Upto(s, n)
           v == Beyond(s, n)
<1>1. /\ u \in Seq(S) /\ v \in Seq(S) /\ Len(u) + Len(v) = Len(s)
      /\ \A i \in 1..Len(u) : i \in 1..Len(s) /\ u[i] = s[i]
      /\ \A i \in 1..Len(v) : i + Len(u) \in 1..Len(s) /\ v[i] = s[i + Len(u)]
  BY Cut, Zenon
<1> HIDE DEF u, v
<1>2. Once(u)
  BY <1>1, Zenon DEF Once
<1>9. Once(v)
  <2> SUFFICES ASSUME NEW i \in 1..Len(v), NEW j \in 1..Len(v), v[i] = v[j] PROVE i = j
    BY Zenon DEF Once
  <2>1. /\ i + Len(u) \in 1..Len(s) /\ j + Len(u) \in 1..Len(s)
        /\ s[i + Len(u)] = s[j + Len(u)]
    BY <1>1, Zenon
  <2>2. i + Len(u) = j + Len(u)
    BY <2>1, Zenon DEF Once
  <2>3. Len(u) \in Nat /\ i \in Nat /\ j \in Nat
    BY <1>1
  <2> QED
    BY <2>2, <2>3
<1>3. \A i \in 1..Len(u), j \in 1..Len(v) : u[i] # v[j]
  <2> SUFFICES ASSUME NEW i \in 1..Len(u), NEW j \in 1..Len(v), u[i] = v[j] PROVE FALSE
    BY Zenon
  <2>1. /\ i \in 1..Len(s) /\ j + Len(u) \in 1..Len(s) /\ s[i] = s[j + Len(u)]
    BY <1>1, Zenon
  <2>2. i = j + Len(u)
    BY <2>1, Zenon DEF Once
  <2>3. Len(u) \in Nat /\ Len(v) \in Nat
    BY <1>1
  <2> QED
    BY <2>2, <2>3
<1>4. \A i \in 1..Len(s) : i \in 1..Len(u) \/ i - Len(u) \in 1..Len(v)
  BY <1>1
<1>5. \A i \in 1..Len(s) : i - Len(u) \in 1..Len(v) => v[i - Len(u)] = s[i]
  BY <1>1
<1>6. DOMAIN u = 1..Len(u) /\ DOMAIN v = 1..Len(v) /\ DOMAIN s = 1..Len(s)
  BY <1>1
<1>7. Range(u) \cap Range(v) = {}
  BY <1>3, <1>6, Zenon DEF Range
<1>8. Range(u) \cup Range(v) = Range(s)
  <2>1. Range(u) \subseteq Range(s) /\ Range(v) \subseteq Range(s)
    BY <1>1, <1>6, ZenonT(30) DEF Range
  <2>2. ASSUME NEW b \in Range(s) PROVE b \in Range(u) \cup Range(v)
    <3>1. PICK i \in DOMAIN s : b = s[i]
      BY Zenon DEF Range
    <3> QED
      BY <1>1, <1>4, <1>5, <1>6, <3>1, Zenon DEF Range
  <2> QED
    BY <2>1, <2>2, Zenon
<1> QED
  BY <1>2, <1>7, <1>8, <1>9 DEF u, v

LEMMA RunConcat ==
    ASSUME NEW S, NEW s \in Seq(S), NEW t \in Seq(S), NEW n \in Nat,
           RunFrom(s, n), RunFrom(t, n + Len(s))
    PROVE  RunFrom(s \o t, n)
BY DEF RunFrom

LEMMA RunCut ==
    ASSUME NEW S, NEW s \in Seq(S), NEW n \in Nat, NEW a \in Nat, RunFrom(s, a)
    PROVE  RunFrom(Upto(s, n), a) /\ RunFrom(Beyond(s, n), a + Len(Upto(s, n)))
<1> DEFINE u == Upto(s, n)
           v == Beyond(s, n)
<1>1. /\ u \in Seq(S) /\ v \in Seq(S)
      /\ \A i \in 1..Len(u) : i \in 1..Len(s) /\ u[i] = s[i]
      /\ \A i \in 1..Len(v) : i + Len(u) \in 1..Len(s) /\ v[i] = s[i + Len(u)]
  BY Cut, Zenon
<1> HIDE DEF u, v
<1> QED
  <2>1. RunFrom(u, a) /\ RunFrom(v, a + Len(u))
    BY <1>1 DEF RunFrom
  <2> QED
    BY <2>1 DEF u, v

LEMMA Constants ==
    ReaderAssumption => Capacity \in Nat /\ MaxBytes \in Nat /\ MaxReads \in Nat
BY Zenon DEF ReaderAssumption

LEMMA EmptyRange == Range(<<>>) = {} /\ Once(<<>>) /\ \A n : RunFrom(<<>>, n)
BY DEF Range, Once, RunFrom

LEMMA NoBytes ==
    ASSUME NEW S, NEW s \in Seq(S), Range(s) = {}
    PROVE  s = <<>>
<1>1. s # <<>> => 1 \in DOMAIN s
  OBVIOUS
<1> QED
  BY <1>1, Zenon DEF Range

\* The bytes that the kernel gives are the next ones of the stream.
LEMMA Kernel ==
    ASSUME ReaderAssumption, Types, NEW n \in Nat, NEW got, got = KernelBytes(n)
    PROVE  /\ got \in Seq(1..MaxBytes) /\ Len(got) <= n /\ next + Len(got) \in 0..bytesIn
           /\ Range(got) = (next + 1)..(next + Len(got))
           /\ Once(got) /\ RunFrom(got, next)
           /\ Len(got) < n => next + Len(got) = bytesIn
           /\ next = bytesIn => got = <<>>
<1>0. next \in Nat /\ bytesIn \in Nat /\ next <= bytesIn /\ bytesIn <= MaxBytes /\ MaxBytes \in Nat
  BY Constants DEF Types
<1>a. Least(n, Available) \in Nat
  BY <1>0 DEF Least, Available
<1>1. PICK k \in Nat : k = Least(n, Available)
  BY <1>a, Zenon
<1>2. k <= n /\ next + k <= bytesIn /\ (k < n => next + k = bytesIn) /\ next \in Nat
      /\ bytesIn \in Nat /\ bytesIn <= MaxBytes /\ MaxBytes \in Nat
  BY <1>0, <1>1 DEF Least, Available
<1>3. got = [i \in 1..k |-> next + i]
  BY <1>1, Zenon DEF KernelBytes
<1>4. got \in Seq(1..MaxBytes) /\ Len(got) = k /\ \A i \in 1..k : got[i] = next + i
  BY <1>2, <1>3
<1>5. Once(got) /\ RunFrom(got, next)
  BY <1>2, <1>4 DEF Once, RunFrom
<1>6. Range(got) = (next + 1)..(next + k)
  <2>1. \A b \in (next + 1)..(next + k) : b - next \in 1..k /\ next + (b - next) = b
    BY <1>2
  <2>2. \A i \in 1..k : next + i \in (next + 1)..(next + k)
    BY <1>2
  <2>3. DOMAIN got = 1..k
    BY <1>3
  <2>4. Range(got) \subseteq (next + 1)..(next + k)
    BY <1>4, <2>2, <2>3, Zenon DEF Range
  <2>5. ASSUME NEW b \in (next + 1)..(next + k) PROVE b \in Range(got)
    <3>1. b - next \in DOMAIN got /\ got[b - next] = b
      BY <1>4, <2>1, <2>3
    <3> QED
      BY <3>1, Zenon DEF Range
  <2> QED
    BY <2>4, <2>5, Zenon
<1> QED
  BY <1>2, <1>4, <1>5, <1>6
-----------------------------------------------------------------------------
(* Bytes that move from one holder to another.                             *)

\* Some bytes go from one holder to another.
LEMMA Split ==
    ASSUME Partition(Held, next),
           NEW x \in Holders, NEW y \in Holders, x # y,
           Held'[x] \subseteq Held[x], Held'[y] = Held[y] \cup (Held[x] \ Held'[x]),
           \A h \in Holders \ {x, y} : Held'[h] = Held[h]
    PROVE  Partition(Held', next)
<1> DEFINE R == Held
           Q == Held'
<1>0. /\ R = Held /\ Q = Held'
      /\ \A b, h : h \in Holders => (b \in Q[h] <=>
             IF h = x THEN b \in Q[x] ELSE IF h = y THEN b \in R[y] \/ (b \in R[x] /\ b \notin Q[x])
             ELSE b \in R[h])
      /\ \A b : b \in Q[x] => b \in R[x]
  BY Zenon
<1> HIDE DEF R, Q
<1>1. \A b, h : h \in Holders /\ b \in Q[h] =>
          \E g \in Holders : b \in R[g] /\ (g = h \/ (g = x /\ h = y /\ b \notin Q[x]))
  BY <1>0, Zenon
<1>2. \A h \in Holders : Q[h] \subseteq 1..next
  BY <1>0, <1>1, Zenon DEF Partition
<1>3. \A b \in 1..next : \E h \in Holders : b \in Q[h]
  <2> SUFFICES ASSUME NEW b \in 1..next PROVE \E h \in Holders : b \in Q[h]
    BY Zenon
  <2>1. PICK g \in Holders : b \in R[g]
    BY <1>0, Zenon DEF Partition
  <2> QED
    BY <1>0, <2>1, Zenon
<1>4. ASSUME NEW g \in Holders, NEW h \in Holders, g # h, NEW b, b \in Q[g], b \in Q[h]
      PROVE  FALSE
  <2>1. \A p, q \in Holders : b \in R[p] /\ b \in R[q] => p = q
    BY <1>0, Zenon DEF Partition
  <2> QED
    BY <1>0, <1>1, <1>4, <2>1, ZenonT(30)
<1>5. \A g, h \in Holders : g # h => Q[g] \cap Q[h] = {}
  BY <1>4, Zenon
<1> QED
  BY <1>0, <1>2, <1>3, <1>5, Zenon DEF Partition

\* The bytes of one holder are shared out between two others.
LEMMA Spread ==
    ASSUME Partition(Held, next), NEW K,
           NEW x \in Holders, NEW y \in Holders, NEW z \in Holders, x # y, y # z, x # z,
           Held'[x] = {}, Held'[y] = Held[y] \cup K, K \subseteq Held[x],
           Held'[z] = Held[z] \cup (Held[x] \ K),
           \A h \in Holders \ {x, y, z} : Held'[h] = Held[h]
    PROVE  Partition(Held', next)
<1> DEFINE R == Held
           Q == Held'
<1>0. /\ R = Held /\ Q = Held'
      /\ \A b, h : h \in Holders => (b \in Q[h] <=>
             IF h = x THEN FALSE ELSE IF h = y THEN b \in R[y] \/ b \in K
             ELSE IF h = z THEN b \in R[z] \/ (b \in R[x] /\ b \notin K)
             ELSE b \in R[h])
      /\ \A b : b \in K => b \in R[x]
  BY Zenon
<1> HIDE DEF R, Q
<1>1. \A b, h : h \in Holders /\ b \in Q[h] =>
          \E g \in Holders :
              b \in R[g] /\ (g = h \/ (g = x /\ ((h = y /\ b \in K) \/ (h = z /\ b \notin K))))
  BY <1>0, Zenon
<1>2. \A h \in Holders : Q[h] \subseteq 1..next
  BY <1>0, <1>1, Zenon DEF Partition
<1>3. \A b \in 1..next : \E h \in Holders : b \in Q[h]
  <2> SUFFICES ASSUME NEW b \in 1..next PROVE \E h \in Holders : b \in Q[h]
    BY Zenon
  <2>1. PICK g \in Holders : b \in R[g]
    BY <1>0, Zenon DEF Partition
  <2> QED
    BY <1>0, <2>1, Zenon
<1>4. ASSUME NEW g \in Holders, NEW h \in Holders, g # h, NEW b, b \in Q[g], b \in Q[h]
      PROVE  FALSE
  <2>1. \A p, q \in Holders : b \in R[p] /\ b \in R[q] => p = q
    BY <1>0, Zenon DEF Partition
  <2>2. PICK p \in Holders :
            b \in R[p] /\ (p = g \/ (p = x /\ ((g = y /\ b \in K) \/ (g = z /\ b \notin K))))
    BY <1>1, <1>4, Zenon
  <2>3. PICK q \in Holders :
            b \in R[q] /\ (q = h \/ (q = x /\ ((h = y /\ b \in K) \/ (h = z /\ b \notin K))))
    BY <1>1, <1>4, Zenon
  <2>4. p = q /\ g # x /\ h # x
    BY <1>0, <1>4, <2>1, <2>2, <2>3, Zenon
  <2> QED
    BY <1>4, <2>2, <2>3, <2>4, Zenon
<1>5. \A g, h \in Holders : g # h => Q[g] \cap Q[h] = {}
  BY <1>4, Zenon
<1> QED
  BY <1>0, <1>2, <1>3, <1>5, Zenon DEF Partition

\* A holder gives all it has to another.
LEMMA Move ==
    ASSUME Partition(Held, next),
           NEW x \in Holders, NEW y \in Holders, x # y,
           Held'[x] = {}, Held'[y] = Held[y] \cup Held[x],
           \A h \in Holders \ {x, y} : Held'[h] = Held[h]
    PROVE  Partition(Held', next)
<1>1. Held'[x] \subseteq Held[x] /\ Held'[y] = Held[y] \cup (Held[x] \ Held'[x])
  OBVIOUS
<1> QED
  BY <1>1, Split, Zenon

\* A holder gets the next k bytes of the stream.
LEMMA Grow ==
    ASSUME Partition(Held, next), next \in Nat, NEW k \in Nat, next' = next + k,
           NEW y \in Holders, Held'[y] = Held[y] \cup (next + 1)..(next + k),
           \A h \in Holders \ {y} : Held'[h] = Held[h]
    PROVE  Partition(Held', next')
<1>1. PICK N : N = (next + 1)..(next + k)
  OBVIOUS
<1>2. (1..next) \cap N = {} /\ (1..next) \cup N = 1..next'
  BY <1>1
<1>3. \A h \in Holders : Held'[h] \subseteq 1..next'
  BY <1>1, <1>2, Zenon DEF Partition
<1>4. \A b \in 1..next' : \E h \in Holders : b \in Held'[h]
  BY <1>1, <1>2, Zenon DEF Partition
<1>5. \A g, h \in Holders : g # h => Held'[g] \cap Held'[h] = {}
  BY <1>1, <1>2, Zenon DEF Partition
<1> QED
  BY <1>3, <1>4, <1>5, Zenon DEF Partition

\* What each holder holds.
LEMMA HeldIs ==
    /\ \A r \in Reads : /\ <<"read", r>> \in Holders /\ Held[<<"read", r>>] = Range(read[r].bytes)
                        /\ <<"fly", r>> \in Holders /\ Held[<<"fly", r>>] = Range(fly[r])
    /\ <<"buffer", 0>> \in Holders /\ Held[<<"buffer", 0>>] = Range(buffer)
    /\ <<"stash", 0>> \in Holders /\ Held[<<"stash", 0>>] = Range(stash)
    /\ <<"out", 0>> \in Holders /\ Held[<<"out", 0>>] = Range(out)
    /\ <<"lost", 0>> \in Holders /\ Held[<<"lost", 0>>] = lost
BY DEF Held, Holders

LEMMA HeldNext ==
    /\ \A r \in Reads : /\ Held'[<<"read", r>>] = Range(read'[r].bytes)
                        /\ Held'[<<"fly", r>>] = Range(fly'[r])
    /\ Held'[<<"buffer", 0>>] = Range(buffer')
    /\ Held'[<<"stash", 0>>] = Range(stash')
    /\ Held'[<<"out", 0>>] = Range(out')
    /\ Held'[<<"lost", 0>>] = lost'
BY DEF Held, Holders

\* A holder that a step leaves alone.
LEMMA HeldSame ==
    ASSUME NEW h \in Holders,
           \A r \in Reads : /\ h = <<"read", r>> => read'[r].bytes = read[r].bytes
                            /\ h = <<"fly", r>> => fly'[r] = fly[r],
           h = <<"buffer", 0>> => buffer' = buffer,
           h = <<"stash", 0>> => stash' = stash,
           h = <<"out", 0>> => out' = out,
           h = <<"lost", 0>> => lost' = lost
    PROVE  Held'[h] = Held[h]
<1>1. CASE \E r \in Reads : h = <<"read", r>>
  BY <1>1, HeldIs, HeldNext, Zenon
<1>2. CASE \E r \in Reads : h = <<"fly", r>>
  BY <1>2, HeldIs, HeldNext, Zenon
<1>3. CASE h \in {<<"buffer", 0>>, <<"stash", 0>>, <<"out", 0>>, <<"lost", 0>>}
  BY <1>3, HeldIs, HeldNext, Zenon
<1> QED
  BY <1>1, <1>2, <1>3 DEF Holders
-----------------------------------------------------------------------------
(* What a step leaves alone.                                               *)

LEMMA ReadChange ==
    ASSUME Types, NEW r \in Reads, NEW v \in ReadRecords, read' = [read EXCEPT ![r] = v]
    PROVE  /\ read' \in [Reads -> ReadRecords] /\ read'[r] = v
           /\ \A x \in Reads \ {r} : read'[x] = read[x]
BY Zenon DEF Types

LEMMA ReadAtIs ==
    ASSUME Types, NEW r \in Reads, NEW l \in Stages, ReadAt(r, l)
    PROVE  /\ at' \in [Reads -> Stages] /\ at'[r] = l
           /\ \A x \in Reads \ {r} : at'[x] = at[x]
           /\ user' \in Users
           /\ \/ user' = user /\ ~(user = "starting" /\ r = count /\ l \in {"armed", "done"})
              \/ user = "starting" /\ user' = "wait" /\ r = count
<1>1. /\ at' \in [Reads -> Stages] /\ at'[r] = l
      /\ \A x \in Reads \ {r} : at'[x] = at[x]
  BY Zenon DEF Types, ReadAt
<1> QED
  BY <1>1 DEF Types, ReadAt, Users

LEMMA PhaseSame ==
    ASSUME NEW x \in Reads, ReadPhase(x), read'[x] = read[x], at'[x] = at[x], fly'[x] = fly[x],
           count' = count,
           x = count /\ Active => user' = user /\ (pendingRead = x => pendingRead' = x),
           eof /\ next = bytesIn => eof' /\ next' = bytesIn'
    PROVE  ReadPhase(x)'
BY ZenonT(30) DEF ReadPhase, Active

LEMMA ConservedSame ==
    ASSUME Conserved, UNCHANGED <<next, buffer, stash, out, lost>>,
           \A r \in Reads : read'[r].bytes = read[r].bytes /\ fly'[r] = fly[r]
    PROVE  Conserved'
<1>1. \A h \in Holders : Held'[h] = Held[h]
  BY HeldSame, Zenon
<1>2. Partition(Held', next')
  BY <1>1, Zenon DEF Conserved, Partition
<1> QED
  BY <1>2, ZenonT(30) DEF Conserved, Once, Partition

LEMMA OrderSame ==
    ASSUME Types, Order, NoPlainCancelled' => NoPlainCancelled,
           UNCHANGED <<next, buffer, stash, out, lost, count>>,
           eof => eof' /\ bytesIn' = bytesIn,
           \A r \in Reads : read'[r].bytes = read[r].bytes /\ fly'[r] = fly[r],
           Expecting' => Expecting \/ buffer = <<>>
    PROVE  Order'
<1>1. Mine' = Mine /\ InHand' = InHand
  BY DEF Mine, InHand, Types, Reads
<1>2. InLine => InLine'
  BY <1>1, Zenon DEF InLine, RunFrom
<1>3. Drained => Drained'
  BY <1>1, Zenon DEF Drained
<1> QED
  BY <1>2, <1>3, Zenon DEF Order, Lined, RunFrom

\* While the task has no read under way, and no plain read was cancelled, no
\* operation has bytes.
LEMMA NothingInHand ==
    ASSUME ReaderInv, ~Active
    PROVE  /\ Mine = <<>>
           /\ NoPlainCancelled => InHand = <<>> /\ \A r \in Reads : fly[r] = <<>>
<1>1. ASSUME NEW r \in Reads
      PROVE  read[r].bytes = <<>> /\ (NoPlainCancelled => fly[r] = <<>>)
  BY DEF ReaderInv, ReadPhase, NoPlainCancelled
<1>2. count # 0 => count \in Reads
  BY DEF ReaderInv, Types, Reads
<1> QED
  BY <1>1, <1>2, Zenon DEF Mine, InHand

\* The operation that works for the task is the pending one.
LEMMA AtWork ==
    ASSUME ReaderInv, NEW r \in Reads, at[r] \notin {"none", "done"}, ~read[r].canceled
    PROVE  /\ r = count /\ pendingRead = r /\ Active /\ stash = <<>> /\ count # 0
           /\ Mine = read[r].bytes /\ InHand = fly[r] /\ Expecting
           /\ ~read[r].complete
<1>1. r = count /\ pendingRead = r /\ Active /\ ~read[r].complete
  BY DEF ReaderInv, ReadPhase
<1>2. count # 0
  BY <1>1 DEF Reads
<1>3. stash = <<>>
  BY <1>1 DEF ReaderInv, TaskPhase, Active
<1> QED
  BY <1>1, <1>2, <1>3, Zenon DEF Mine, InHand, Expecting, NoOp
-----------------------------------------------------------------------------
(* Every step keeps the invariant.                                         *)

LEMMA EnvironmentKeeps ==
    ASSUME ReaderAssumption, ReaderInv, ByteArrives \/ PeerCloses \/ IntoReadHalf
    PROVE  ReaderInv'
<1>1. /\ UNCHANGED <<next, buffer, stash, out, lost, pendingRead, read, at, fly, count, user>>
      /\ eof => eof' /\ bytesIn' = bytesIn
  <2>1. CASE ByteArrives
    BY <2>1, Zenon DEF ByteArrives, taskVars
  <2>2. CASE PeerCloses
    BY <2>2, Zenon DEF PeerCloses, taskVars
  <2>3. CASE IntoReadHalf
    BY <2>3, Zenon DEF IntoReadHalf, socketVars
  <2> QED
    BY <2>1, <2>2, <2>3, Zenon
<1>2. Types'
  <2>1. bytesIn' \in 0..MaxBytes /\ next' \in 0..bytesIn' /\ eof' \in BOOLEAN /\ half' \in BOOLEAN
    <3>1. bytesIn \in 0..MaxBytes /\ next \in 0..bytesIn /\ eof \in BOOLEAN /\ half \in BOOLEAN
          /\ MaxBytes \in Nat
      BY Constants, Zenon DEF ReaderInv, Types
    <3>2. CASE ByteArrives
      BY <3>1, <3>2 DEF ByteArrives, taskVars
    <3>3. CASE PeerCloses
      BY <3>1, <3>3, Zenon DEF PeerCloses, taskVars
    <3>4. CASE IntoReadHalf
      BY <3>1, <3>4, Zenon DEF IntoReadHalf, socketVars
    <3> QED
      BY <3>2, <3>3, <3>4, Zenon
  <2> QED
    BY <1>1, <2>1, Zenon DEF ReaderInv, Types
<1>3. TaskPhase'
  <2>1. half' => half \/ user = "idle"
    BY Zenon DEF ByteArrives, PeerCloses, IntoReadHalf, taskVars
  <2> QED
    BY <1>1, <2>1, Zenon DEF TaskPhase, ReaderInv, Active
<1>4. \A r \in Reads : ReadPhase(r)'
  BY <1>1, PhaseSame, Zenon DEF ReaderInv, Active
<1>5. Conserved'
  BY <1>1, ConservedSame, Zenon DEF ReaderInv
<1>6. Order'
  <2>1. half' => half \/ buffer = <<>>
    BY Zenon DEF ByteArrives, PeerCloses, IntoReadHalf, taskVars
  <2> QED
    BY <1>1, <2>1, OrderSame, Zenon DEF ReaderInv, NoPlainCancelled, Expecting
<1> QED
  BY <1>2, <1>3, <1>4, <1>5, <1>6, Zenon DEF ReaderInv

LEMMA SourceFiresKeeps ==
    ASSUME ReaderAssumption, ReaderInv, NEW r \in Reads, SourceFires(r)
    PROVE  ReaderInv'
<1>1. /\ UNCHANGED <<bytesIn, eof, next, buffer, stash, out, lost, pendingRead, read, fly, count, half>>
      /\ at[r] = "armed"
  BY Zenon DEF SourceFires, taskVars, socketVars
<1>2. /\ at' \in [Reads -> Stages] /\ at'[r] = "read"
      /\ \A x \in Reads \ {r} : at'[x] = at[x]
      /\ user' = user
  BY ReadAtIs, Zenon DEF SourceFires, ReaderInv, Stages, ReadAt
<1>3. Types'
  BY <1>1, <1>2, Zenon DEF ReaderInv, Types
<1>4. TaskPhase'
  BY <1>1, <1>2, Zenon DEF TaskPhase, ReaderInv, Active
<1>5. ASSUME NEW x \in Reads PROVE ReadPhase(x)'
  <2>1. CASE x = r
    BY <1>1, <1>2, <2>1 DEF ReadPhase, ReaderInv, Active
  <2>2. CASE x # r
    BY <1>1, <1>2, <2>2, PhaseSame, Zenon DEF ReaderInv, Active
  <2> QED
    BY <2>1, <2>2
<1>6. Conserved'
  BY <1>1, ConservedSame, Zenon DEF ReaderInv
<1>7. Order'
  BY <1>1, <1>2, OrderSame, Zenon DEF ReaderInv, NoPlainCancelled, Expecting
<1> QED
  BY <1>3, <1>4, <1>5, <1>6, <1>7, Zenon DEF ReaderInv

LEMMA ExactCompleteKeeps ==
    ASSUME ReaderAssumption, ReaderInv, NEW r \in Reads, ExactComplete(r)
    PROVE  ReaderInv'
<1>1. /\ UNCHANGED <<bytesIn, eof, next, buffer, stash, out, lost, fly, count, half>>
      /\ read[r].mode = "exact" /\ at[r] = "complete" /\ pendingRead' = Free(r)
  BY Zenon DEF ExactComplete, taskVars, socketVars
<1>2. /\ at' \in [Reads -> Stages] /\ at'[r] = "done"
      /\ \A x \in Reads \ {r} : at'[x] = at[x]
      /\ user' \in Users
      /\ user' = user \/ (user = "starting" /\ user' = "wait" /\ r = count)
  BY ReadAtIs DEF ExactComplete, ReaderInv, Stages
<1>3. PICK v : v = [read[r] EXCEPT !.complete = TRUE]
  BY Zenon
<1>4. /\ v \in ReadRecords /\ v.complete /\ v.mode = read[r].mode /\ v.len = read[r].len
      /\ v.canceled = read[r].canceled /\ v.error = read[r].error /\ v.bytes = read[r].bytes
  BY <1>3, Zenon DEF ReadRecords, ReaderInv, Types
<1>5. read' = [read EXCEPT ![r] = v]
  BY <1>3 DEF ExactComplete
<1>6. /\ read' \in [Reads -> ReadRecords] /\ read'[r] = v
      /\ \A x \in Reads \ {r} : read'[x] = read[x]
  BY <1>4, <1>5, ReadChange, Zenon DEF ReaderInv
<1>7. /\ pendingRead' \in {NoOp, count} /\ (pendingRead' # NoOp => pendingRead' # r /\ pendingRead' = pendingRead)
      /\ \A x \in Reads \ {r} : pendingRead = x => pendingRead' = x
  BY <1>1, Zenon DEF Free, ReaderInv, Types
<1>8. Types'
  BY <1>1, <1>2, <1>6, <1>7, Zenon DEF ReaderInv, Types
<1>9. TaskPhase'
  <2>1. pendingRead' # NoOp => pendingRead' \in Reads \ {r}
    BY <1>7 DEF ReaderInv, Types, TaskPhase, NoOp, Reads
  <2>2. \A x \in Reads : read'[x].canceled = read[x].canceled
    BY <1>4, <1>6, Zenon
  <2> QED
    BY <1>1, <1>2, <1>6, <1>7, <2>1, <2>2 DEF TaskPhase, ReaderInv, Active
<1>10. ASSUME NEW x \in Reads PROVE ReadPhase(x)'
  <2>1. CASE x = r
    BY <1>1, <1>2, <1>4, <1>6, <2>1 DEF ReadPhase, ReaderInv, Active
  <2>2. CASE x # r
    <3>1. x = count => user' = user
      BY <1>2, <2>2, Zenon
    <3> QED
      BY <1>1, <1>2, <1>6, <1>7, <2>2, <3>1, PhaseSame, Zenon DEF ReaderInv
  <2> QED
    BY <2>1, <2>2
<1>11. \A x \in Reads : /\ read'[x].bytes = read[x].bytes /\ read'[x].mode = read[x].mode
                        /\ read'[x].canceled = read[x].canceled /\ read'[x].error = read[x].error
  BY <1>4, <1>6, Zenon
<1>12. Conserved'
  BY <1>1, <1>11, ConservedSame, Zenon DEF ReaderInv
<1>13. Order'
  <2>1. Expecting' => Expecting
    <3>1. CASE pendingRead' # NoOp
      BY <1>1, <1>2, <1>7, <1>11, <3>1, Zenon DEF Expecting, ReaderInv, Types, TaskPhase, Reads, NoOp
    <3>2. CASE user' = "wait" /\ read'[count].error /\ r = count
      <4>1. Active /\ ~read[r].canceled
        BY <1>2, <3>2 DEF ReaderInv, TaskPhase, Active
      <4> QED
        BY <1>1, <4>1, AtWork
    <3>3. CASE user' = "wait" /\ read'[count].error /\ r # count
      <4>1. user = "wait" /\ count \in Reads
        BY <1>2, <3>3 DEF ReaderInv, TaskPhase
      <4> QED
        BY <1>11, <3>3, <4>1 DEF Expecting
    <3> QED
      BY <1>1, <3>1, <3>2, <3>3 DEF Expecting
  <2>2. NoPlainCancelled' => NoPlainCancelled
    BY <1>11, Zenon DEF NoPlainCancelled
  <2> QED
    BY <1>1, <1>11, <2>1, <2>2, OrderSame, Zenon DEF ReaderInv
<1> QED
  BY <1>8, <1>9, <1>10, <1>12, <1>13, Zenon DEF ReaderInv

LEMMA PlainReadKeeps ==
    ASSUME ReaderAssumption, ReaderInv, NEW r \in Reads, PlainRead(r)
    PROVE  ReaderInv'
<1>1. /\ UNCHANGED <<bytesIn, eof, buffer, stash, out, lost, pendingRead, read, count, half>>
      /\ read[r].mode = "plain" /\ at[r] \in {"first", "read"}
  BY Zenon DEF PlainRead, taskVars, socketVars
<1>2. PICK n \in Nat : n = ReadCap(r) /\ n > 0
  BY DEF ReadCap, Most, ReaderInv, Types, ReadRecords, ReaderAssumption
<1>3. PICK got : got = KernelBytes(n)
  OBVIOUS
<1>4. /\ got \in Seq(1..MaxBytes) /\ next + Len(got) \in 0..bytesIn
      /\ Range(got) = (next + 1)..(next + Len(got))
      /\ Once(got) /\ RunFrom(got, next)
      /\ next = bytesIn => got = <<>>
      /\ Len(got) < n => next + Len(got) = bytesIn
  BY <1>2, <1>3, Kernel, Zenon DEF ReaderInv
<1>a. got = <<>> => next + Len(got) = bytesIn
  BY <1>2, <1>4
<1>5. /\ next' = next + Len(got) /\ fly' = [fly EXCEPT ![r] = got]
      /\ \E l \in IF got # <<>> THEN {"complete"}
                 ELSE IF eof THEN {"complete", "failed"} ELSE Waiting(r) : ReadAt(r, l)
  BY <1>2, <1>3, Zenon DEF PlainRead
<1>b. PICK l \in {"complete", "failed", "armed", "unarmed"} :
          /\ ReadAt(r, l) /\ (got # <<>> => l = "complete")
          /\ l = "failed" => eof /\ got = <<>>
          /\ l = "unarmed" => at[r] = "first"
  BY <1>5 DEF Waiting
<1>6. /\ fly' \in [Reads -> Seq(1..MaxBytes)] /\ fly'[r] = got
      /\ \A x \in Reads \ {r} : fly'[x] = fly[x]
  BY <1>4, <1>5, Zenon DEF ReaderInv, Types
<1>7. /\ at' \in [Reads -> Stages] /\ at'[r] = l
      /\ \A x \in Reads \ {r} : at'[x] = at[x]
      /\ user' \in Users
      /\ \/ user' = user
         \/ user = "starting" /\ user' = "wait" /\ r = count /\ l # "unarmed"
  BY <1>b, ReadAtIs DEF ReaderInv, Stages, ReadAt
<1>8. fly[r] = <<>> /\ read[r].bytes = <<>> /\ ~read[r].error
  BY <1>1 DEF ReaderInv, ReadPhase
<1>9. next \in Nat /\ bytesIn \in Nat /\ Len(got) \in Nat /\ (next = bytesIn => next' = bytesIn)
  BY <1>4, <1>5 DEF ReaderInv, Types
<1>10. Types'
  BY <1>1, <1>4, <1>5, <1>6, <1>7, Zenon DEF ReaderInv, Types
<1>11. TaskPhase'
  BY <1>1, <1>7 DEF TaskPhase, ReaderInv, Active
<1>12. ASSUME NEW x \in Reads PROVE ReadPhase(x)'
  <2>1. CASE x = r
    BY <1>1, <1>a, <1>b, <1>5, <1>6, <1>7, <1>8, <2>1 DEF ReadPhase, ReaderInv, Active
  <2>2. CASE x # r
    BY <1>1, <1>6, <1>7, <1>9, <2>2, PhaseSame DEF ReaderInv, Active
  <2> QED
    BY <2>1, <2>2
<1>13. Conserved'
  <2>1. \A h \in Holders \ {<<"fly", r>>} : Held'[h] = Held[h]
    BY <1>1, <1>6, HeldSame
  <2>2. Held'[<<"fly", r>>] = Held[<<"fly", r>>] \cup (next + 1)..(next + Len(got))
    <3>1. Held[<<"fly", r>>] = {}
      BY <1>8, HeldIs, EmptyRange, Zenon
    <3>2. Held'[<<"fly", r>>] = Range(got)
      BY <1>6, HeldNext, Zenon
    <3> QED
      BY <1>4, <3>1, <3>2
  <2>3. Partition(Held', next')
    BY <1>5, <1>9, <2>1, <2>2, HeldIs, Grow, Zenon DEF ReaderInv, Conserved
  <2>4. \A x \in Reads : Once(read'[x].bytes) /\ Once(fly'[x])
    BY <1>1, <1>4, <1>6, Zenon DEF ReaderInv, Conserved
  <2>5. Once(buffer') /\ Once(stash') /\ Once(out')
    BY <1>1, Zenon DEF ReaderInv, Conserved
  <2> QED
    BY <2>3, <2>4, <2>5, Zenon DEF Conserved, Once, Partition
<1>14. Order'
  <2> SUFFICES ASSUME NoPlainCancelled PROVE Lined'
    BY <1>1, Zenon DEF Order, NoPlainCancelled
  <2>1. Lined /\ ~read[r].canceled
    BY <1>1, Zenon DEF ReaderInv, Order, NoPlainCancelled
  <2>2. /\ r = count /\ pendingRead = r /\ stash = <<>> /\ count # 0 /\ Expecting
        /\ Mine = <<>> /\ InHand = <<>>
    BY <1>1, <1>8, <2>1, AtWork
  <2>3. buffer = <<>> /\ Mine' = <<>> /\ InHand' = got
    BY <1>1, <1>6, <1>8, <2>1, <2>2, Zenon DEF Lined, Mine, InHand
  <2>4. CASE lost = {}
    <3>1. next = Len(out)
      BY <2>1, <2>2, <2>3, <2>4 DEF Lined, InLine, ReaderInv, Types
    <3>2. InLine'
      BY <1>1, <1>4, <1>5, <2>2, <2>3, <3>1, EmptyRange DEF InLine, ReaderInv, Types, RunFrom
    <3> QED
      BY <1>1, <1>6, <2>1, <2>2, <2>3, <2>4, <3>2, Zenon DEF Lined, RunFrom
  <2>5. CASE lost # {}
    <3>1. Drained
      BY <2>1, <2>5, Zenon DEF Lined
    <3>2. got = <<>>
      BY <1>4, <3>1, Zenon DEF Drained
    <3>3. Drained'
      BY <1>1, <1>9, <2>3, <3>1, <3>2, Zenon DEF Drained
    <3> QED
      BY <1>1, <1>6, <2>1, <2>2, <2>3, <2>5, <3>3, Zenon DEF Lined, RunFrom
  <2> QED
    BY <2>4, <2>5
<1> QED
  BY <1>10, <1>11, <1>12, <1>13, <1>14, Zenon DEF ReaderInv

LEMMA PlainCompleteKeeps ==
    ASSUME ReaderAssumption, ReaderInv, NEW r \in Reads, PlainComplete(r)
    PROVE  ReaderInv'
<1>1. /\ UNCHANGED <<bytesIn, eof, next, stash, out, lost, count, half>>
      /\ read[r].mode = "plain" /\ at[r] \in {"complete", "failed"} /\ pendingRead' = Free(r)
  BY Zenon DEF PlainComplete, taskVars, socketVars
<1>2. /\ at' \in [Reads -> Stages] /\ at'[r] = "done"
      /\ \A x \in Reads \ {r} : at'[x] = at[x]
      /\ user' \in Users
      /\ user' = user \/ (user = "starting" /\ user' = "wait" /\ r = count)
  BY ReadAtIs DEF PlainComplete, ReaderInv, Stages
<1>3. /\ read[r].bytes = <<>> /\ ~read[r].error /\ ~read[r].complete
      /\ fly[r] \in Seq(1..MaxBytes) /\ Once(fly[r]) /\ read[r].len \in Nat
  BY <1>1 DEF ReaderInv, ReadPhase, Types, Conserved, ReadRecords
<1>4. PICK keep : keep = IF read[r].canceled THEN <<>> ELSE Upto(fly[r], read[r].len)
  OBVIOUS
<1>5. PICK over : over = IF read[r].canceled THEN fly[r] ELSE Beyond(fly[r], read[r].len)
  OBVIOUS
<1>6. /\ keep \in Seq(1..MaxBytes) /\ over \in Seq(1..MaxBytes) /\ Once(keep) /\ Once(over)
      /\ Range(keep) \cap Range(over) = {} /\ Range(keep) \cup Range(over) = Range(fly[r])
      /\ read[r].canceled => keep = <<>>
  <2>1. CASE read[r].canceled
    BY <1>3, <1>4, <1>5, <2>1, EmptyRange
  <2>2. CASE ~read[r].canceled
    <3>1. keep = Upto(fly[r], read[r].len) /\ over = Beyond(fly[r], read[r].len)
      BY <1>4, <1>5, <2>2, Zenon
    <3>2. keep \in Seq(1..MaxBytes) /\ over \in Seq(1..MaxBytes)
      BY <1>3, <3>1, Cut, Zenon
    <3> QED
      BY <1>3, <2>2, <3>1, <3>2, CutOnce, Zenon
  <2> QED
    BY <2>1, <2>2
<1>7. buffer' = buffer \o over /\ fly' = [fly EXCEPT ![r] = <<>>]
  BY <1>5, Zenon DEF PlainComplete, Appended
<1>a. PICK failed \in BOOLEAN : failed = (at[r] = "failed" /\ ~read[r].canceled)
  BY Zenon
<1>8. PICK v : v = [read[r] EXCEPT !.complete = TRUE, !.error = failed, !.bytes = keep]
  OBVIOUS
<1>9. /\ v \in ReadRecords /\ v.complete /\ v.mode = "plain"
      /\ v.canceled = read[r].canceled /\ v.error = failed /\ v.bytes = keep
  BY <1>1, <1>3, <1>6, <1>8, ZenonT(30) DEF ReadRecords, ReaderInv, Types
<1>b. failed => eof /\ next = bytesIn /\ fly[r] = <<>>
  BY <1>a DEF ReaderInv, ReadPhase
<1>10. read' = [read EXCEPT ![r] = v]
  BY <1>3, <1>4, <1>8, <1>a, Zenon DEF PlainComplete
<1>11. /\ read' \in [Reads -> ReadRecords] /\ read'[r] = v
       /\ \A x \in Reads \ {r} : read'[x] = read[x]
  BY <1>9, <1>10, ReadChange, Zenon DEF ReaderInv
<1>12. /\ fly' \in [Reads -> Seq(1..MaxBytes)] /\ fly'[r] = <<>>
       /\ \A x \in Reads \ {r} : fly'[x] = fly[x]
  BY <1>7 DEF ReaderInv, Types
<1>13. /\ pendingRead' \in {NoOp, count}
       /\ pendingRead' # NoOp => pendingRead' # r /\ pendingRead' = pendingRead
       /\ \A x \in Reads \ {r} : pendingRead = x => pendingRead' = x
  BY <1>1, Zenon DEF Free, ReaderInv, Types
<1>14. Types'
  <2>1. buffer' \in Seq(1..MaxBytes)
    BY <1>6, <1>7 DEF ReaderInv, Types
  <2> QED
    BY <1>1, <1>2, <1>11, <1>12, <1>13, <2>1, Zenon DEF ReaderInv, Types
<1>15. TaskPhase'
  <2>1. pendingRead' # NoOp => pendingRead' \in Reads \ {r}
    BY <1>13 DEF ReaderInv, Types, TaskPhase, NoOp, Reads
  <2>2. \A x \in Reads : read'[x].canceled = read[x].canceled
    BY <1>9, <1>11, Zenon
  <2> QED
    BY <1>1, <1>2, <1>11, <1>13, <2>1, <2>2 DEF TaskPhase, ReaderInv, Active
<1>16. ASSUME NEW x \in Reads PROVE ReadPhase(x)'
  <2>1. CASE x = r
    BY <1>1, <1>2, <1>6, <1>9, <1>b, <1>11, <1>12, <2>1, ZenonT(30) DEF ReadPhase, ReaderInv, Active
  <2>2. CASE x # r
    <3>1. x = count => user' = user
      BY <1>2, <2>2, Zenon
    <3> QED
      BY <1>1, <1>2, <1>11, <1>12, <1>13, <2>2, <3>1, PhaseSame, Zenon DEF ReaderInv
  <2> QED
    BY <2>1, <2>2
<1>17. Conserved'
  <2>1. ASSUME NEW h \in Holders \ {<<"fly", r>>, <<"read", r>>, <<"buffer", 0>>}
        PROVE  Held'[h] = Held[h]
    <3>1. \A x \in Reads : /\ h = <<"read", x>> => read'[x].bytes = read[x].bytes
                           /\ h = <<"fly", x>> => fly'[x] = fly[x]
      BY <1>11, <1>12, Zenon
    <3> QED
      BY <1>1, <3>1, HeldSame, Zenon
  <2>2. /\ Held'[<<"fly", r>>] = {} /\ Held[<<"fly", r>>] = Range(keep) \cup Range(over)
        /\ Held'[<<"read", r>>] = Held[<<"read", r>>] \cup Range(keep)
    BY <1>3, <1>6, <1>9, <1>11, <1>12, HeldIs, HeldNext, EmptyRange, SMTT(30)
  <2>3. Held'[<<"buffer", 0>>] = Held[<<"buffer", 0>>] \cup Range(over)
    BY <1>6, <1>7, HeldIs, HeldNext, RangeConcat DEF ReaderInv, Types
  <2>4. Partition(Held', next)
    <3>1. <<"fly", r>> # <<"read", r>> /\ <<"read", r>> # <<"buffer", 0>> /\ <<"fly", r>> # <<"buffer", 0>>
      OBVIOUS
    <3>2. Range(keep) \subseteq Held[<<"fly", r>>] /\ Range(over) = Held[<<"fly", r>>] \ Range(keep)
      BY <1>6, <2>2, Zenon
    <3>3. Held'[<<"buffer", 0>>] = Held[<<"buffer", 0>>] \cup (Held[<<"fly", r>>] \ Range(keep))
      BY <2>3, <3>2, Zenon
    <3>4. <<"fly", r>> \in Holders /\ <<"read", r>> \in Holders /\ <<"buffer", 0>> \in Holders
      BY HeldIs, Zenon
    <3>5. Partition(Held, next)
      BY Zenon DEF ReaderInv, Conserved
    <3> QED
      BY <2>1, <2>2, <3>1, <3>2, <3>3, <3>4, <3>5, Spread, Zenon
  <2>5. Once(buffer')
    <3>1. Range(buffer) \cap Range(fly[r]) = {}
      BY HeldIs, Zenon DEF ReaderInv, Conserved, Partition
    <3>2. Range(buffer) \cap Range(over) = {}
      BY <1>6, <3>1, Zenon
    <3> QED
      BY <1>6, <1>7, <3>2, OnceConcat, Zenon DEF ReaderInv, Conserved, Types
  <2>6. \A x \in Reads : Once(read'[x].bytes) /\ Once(fly'[x])
    BY <1>6, <1>9, <1>11, <1>12, EmptyRange, Zenon DEF ReaderInv, Conserved
  <2> QED
    BY <1>1, <2>4, <2>5, <2>6, Zenon DEF ReaderInv, Conserved, Once, Partition
<1>18. Order'
  <2>1. ASSUME NoPlainCancelled' PROVE NoPlainCancelled
    BY <1>1, <1>9, <1>11, <2>1, Zenon DEF NoPlainCancelled
  <2> SUFFICES ASSUME NoPlainCancelled PROVE Lined'
    BY <2>1, Zenon DEF Order
  <2>2. Lined /\ ~read[r].canceled
    BY <1>1, Zenon DEF ReaderInv, Order, NoPlainCancelled
  <2>3. /\ r = count /\ pendingRead = r /\ stash = <<>> /\ count # 0 /\ Expecting /\ Active
        /\ Mine = <<>> /\ InHand = fly[r] /\ buffer = <<>>
    BY <1>1, <1>3, <2>2, AtWork DEF Lined
  <2>4. Mine' = keep /\ InHand' = <<>> /\ buffer' = over
    <3>1. buffer' = over
      BY <1>6, <1>7, <2>3
    <3> QED
      BY <1>1, <1>9, <1>11, <1>12, <2>3, <3>1, Zenon DEF Mine, InHand
  <2>5. keep = Upto(fly[r], read[r].len) /\ over = Beyond(fly[r], read[r].len)
    BY <1>4, <1>5, <2>2, Zenon
  <2>6. Len(keep) + Len(over) = Len(fly[r])
    BY <1>3, <2>5, Cut, Zenon
  <2>7. (lost = {} /\ InLine') \/ (lost # {} /\ Drained')
    <3>1. CASE lost = {}
      <4>1. RunFrom(fly[r], Len(out)) /\ next = Len(out) + Len(fly[r]) /\ Len(out) \in Nat
        BY <2>2, <2>3, <3>1 DEF Lined, InLine, ReaderInv, Types
      <4>2. fly[r] \in Seq(Nat)
        BY <1>3
      <4>3. RunFrom(keep, Len(out)) /\ RunFrom(over, Len(out) + Len(keep))
        BY <1>3, <2>5, <4>1, <4>2, RunCut, Zenon
      <4>4. /\ Len(keep) \in Nat /\ Len(over) \in Nat /\ Len(stash') = 0 /\ Len(InHand') = 0
            /\ Len(Mine') = Len(keep) /\ Len(buffer') = Len(over)
        BY <1>1, <1>6, <2>3, <2>4
      <4>5. next' = Len(out') + Len(keep) + Len(over) /\ out' = out
        BY <1>1, <2>6, <4>1, <4>4
      <4> QED
        BY <1>1, <1>6, <2>3, <2>4, <3>1, <4>1, <4>3, <4>4, <4>5 DEF InLine, RunFrom
    <3>2. CASE lost # {}
      <4>1. Drained
        BY <2>2, <3>2, Zenon DEF Lined
      <4>2. keep = <<>> /\ over = <<>>
        BY <1>6, <2>3, <2>6, <4>1 DEF Drained
      <4> QED
        BY <1>1, <2>4, <3>2, <4>1, <4>2, Zenon DEF Drained
    <3> QED
      BY <3>1, <3>2
  <2>8. Expecting' => buffer' = <<>>
    <3>1. pendingRead' = NoOp /\ ~half
      BY <1>13, <2>3 DEF ReaderInv, TaskPhase, Active
    <3>2. Expecting' => failed
      BY <1>1, <1>9, <1>11, <2>3, <3>1, Zenon DEF Expecting
    <3>3. failed => over = <<>>
      BY <1>6, <1>b, <2>6
    <3> QED
      BY <2>4, <3>2, <3>3, Zenon
  <2> QED
    BY <1>1, <1>12, <2>2, <2>7, <2>8, Zenon DEF Lined, RunFrom
<1> QED
  BY <1>14, <1>15, <1>16, <1>17, <1>18, Zenon DEF ReaderInv

LEMMA ExactReadKeeps ==
    ASSUME ReaderAssumption, ReaderInv, NEW r \in Reads, ExactRead(r)
    PROVE  ReaderInv'
<1>1. /\ UNCHANGED <<bytesIn, eof, buffer, stash, out, lost, pendingRead, fly, count, half>>
      /\ read[r].mode = "exact" /\ at[r] \in {"first", "read"}
  BY Zenon DEF ExactRead, taskVars, socketVars
<1>2. CASE read[r].canceled
  <2>1. next' = next /\ read' = read /\ ReadAt(r, "armed")
    BY <1>2, Zenon DEF ExactRead
  <2>2. /\ at' \in [Reads -> Stages] /\ at'[r] = "armed"
        /\ \A x \in Reads \ {r} : at'[x] = at[x]
        /\ user' = user
    <3>1. ~(Active /\ r = count)
      BY <1>2 DEF ReaderInv, TaskPhase
    <3> QED
      BY <2>1, <3>1, ReadAtIs DEF ReaderInv, Stages, Active
  <2>3. Types'
    BY <1>1, <2>1, <2>2, Zenon DEF ReaderInv, Types
  <2>4. TaskPhase'
    BY <1>1, <2>1, <2>2, Zenon DEF TaskPhase, ReaderInv, Active
  <2>5. ASSUME NEW x \in Reads PROVE ReadPhase(x)'
    <3>1. CASE x = r
      BY <1>1, <1>2, <2>1, <2>2, <3>1 DEF ReadPhase, ReaderInv, Active
    <3>2. CASE x # r
      BY <1>1, <2>1, <2>2, <3>2, PhaseSame, Zenon DEF ReaderInv, Active
    <3> QED
      BY <3>1, <3>2
  <2>6. Conserved'
    BY <1>1, <2>1, ConservedSame, Zenon DEF ReaderInv
  <2>7. Order'
    BY <1>1, <2>1, <2>2, OrderSame, Zenon DEF ReaderInv, NoPlainCancelled, Expecting
  <2> QED
    BY <2>3, <2>4, <2>5, <2>6, <2>7, Zenon DEF ReaderInv
<1>3. CASE ~read[r].canceled
  <2>1. /\ r = count /\ pendingRead = r /\ Active /\ stash = <<>> /\ count # 0
        /\ Mine = read[r].bytes /\ InHand = fly[r] /\ Expecting /\ ~read[r].complete
        /\ fly[r] = <<>>
    <3>1. fly[r] = <<>>
      BY <1>1 DEF ReaderInv, ReadPhase
    <3> QED
      BY <1>1, <1>3, <3>1, AtWork
  <2>2. /\ read[r].bytes \in Seq(1..MaxBytes) /\ Len(read[r].bytes) <= read[r].len
        /\ read[r].len \in Nat /\ Once(read[r].bytes)
    BY <1>1 DEF ReaderInv, ReadPhase, Types, ReadRecords, Conserved
  <2>3. PICK n \in Nat : n = read[r].len - Len(read[r].bytes)
    BY <2>2
  <2>4. PICK got : got = KernelBytes(n)
    OBVIOUS
  <2>5. /\ got \in Seq(1..MaxBytes) /\ Len(got) <= n /\ next + Len(got) \in 0..bytesIn
        /\ Range(got) = (next + 1)..(next + Len(got))
        /\ Once(got) /\ RunFrom(got, next)
        /\ Len(got) < n => next + Len(got) = bytesIn
        /\ next = bytesIn => got = <<>>
    BY <2>3, <2>4, Kernel, Zenon DEF ReaderInv
  <2>6. PICK all : all = read[r].bytes \o got
    BY Zenon
  <2>7. all \in Seq(1..MaxBytes) /\ Len(all) = Len(read[r].bytes) + Len(got)
    BY <2>2, <2>5, <2>6
  <2>8. PICK ended \in BOOLEAN : ended = (Len(all) < read[r].len /\ eof)
    BY Zenon
  <2>9. /\ next' = next + Len(got)
        /\ read' = [read EXCEPT ![r].bytes = all, ![r].error = ended]
        /\ \E l \in IF Len(all) = read[r].len \/ ended THEN {"complete"} ELSE Waiting(r) :
               ReadAt(r, l)
    BY <1>3, <2>3, <2>4, <2>6, <2>8, Zenon DEF ExactRead
  <2>a. PICK l \in {"complete", "armed", "unarmed"} :
            /\ ReadAt(r, l) /\ (ended => l = "complete") /\ (l = "unarmed" => at[r] = "first")
    BY <2>9 DEF Waiting
  <2>10. PICK v : v = [read[r] EXCEPT !.bytes = all, !.error = ended]
    OBVIOUS
  <2>11. /\ v \in ReadRecords /\ v.complete = read[r].complete /\ v.mode = "exact"
         /\ v.canceled = read[r].canceled /\ v.error = ended /\ v.bytes = all
         /\ v.len = read[r].len
    BY <1>1, <2>7, <2>10, ZenonT(30) DEF ReadRecords, ReaderInv, Types
  <2>12. read' = [read EXCEPT ![r] = v]
    BY <2>9, <2>10, Zenon DEF ReaderInv, Types
  <2>13. /\ read' \in [Reads -> ReadRecords] /\ read'[r] = v
         /\ \A x \in Reads \ {r} : read'[x] = read[x]
    BY <2>11, <2>12, ReadChange, Zenon DEF ReaderInv
  <2>14. /\ at' \in [Reads -> Stages] /\ at'[r] = l
         /\ \A x \in Reads \ {r} : at'[x] = at[x]
         /\ user' \in Users
         /\ \/ user' = user
            \/ user = "starting" /\ user' = "wait" /\ l # "unarmed"
    BY <2>a, ReadAtIs DEF ReaderInv, Stages, ReadAt
  <2>15. next \in Nat /\ bytesIn \in Nat /\ Len(got) \in Nat /\ (next = bytesIn => next' = bytesIn)
    BY <2>5, <2>9 DEF ReaderInv, Types
  <2>16. ended => eof /\ next' = bytesIn
    <3> SUFFICES ASSUME ended PROVE eof /\ next' = bytesIn
      BY Zenon
    <3>1. Len(all) < read[r].len /\ eof
      BY <2>8, Zenon
    <3>2. Len(got) < n
      <4>1. Len(got) \in Nat /\ Len(read[r].bytes) \in Nat
        BY <2>2, <2>5, SMTT(30)
      <4> QED
        BY <2>2, <2>3, <2>7, <3>1, <4>1
    <3> QED
      BY <2>5, <2>9, <3>1, <3>2, Zenon
  <2>17. Types'
    BY <1>1, <2>5, <2>9, <2>13, <2>14, Zenon DEF ReaderInv, Types
  <2>18. TaskPhase'
    <3>1. \A x \in Reads : /\ read'[x].canceled = read[x].canceled
                           /\ read'[x].complete = read[x].complete
      BY <2>11, <2>13, Zenon
    <3> QED
      BY <1>1, <2>1, <2>14, <3>1 DEF TaskPhase, ReaderInv, Active
  <2>19. ASSUME NEW x \in Reads PROVE ReadPhase(x)'
    <3>1. CASE x = r
      <4>1. Len(all) <= read[r].len
        <5>1. Len(got) \in Nat /\ Len(read[r].bytes) \in Nat /\ Len(got) <= n
          BY <2>2, <2>5
        <5> QED
          BY <2>2, <2>3, <2>7, <5>1
      <4>2. ~(r > count) /\ Active'
        BY <2>1, <2>14 DEF Active, ReaderInv, Types
      <4> QED
        BY <1>1, <1>3, <2>1, <2>a, <2>11, <2>13, <2>14, <2>16, <3>1, <4>1, <4>2
           DEF ReadPhase, ReaderInv
    <3>2. CASE x # r
      BY <1>1, <2>1, <2>13, <2>14, <2>15, <3>2, PhaseSame DEF ReaderInv
    <3> QED
      BY <3>1, <3>2
  <2>20. Conserved'
    <3>1. \A h \in Holders \ {<<"read", r>>} : Held'[h] = Held[h]
      BY <1>1, <2>13, HeldSame, SMTT(30)
    <3>2. Held'[<<"read", r>>] = Held[<<"read", r>>] \cup (next + 1)..(next + Len(got))
        <4>1. Held[<<"read", r>>] = Range(read[r].bytes) /\ Held'[<<"read", r>>] = Range(all)
        BY <2>11, <2>13, HeldIs, HeldNext, Zenon
      <4>2. Range(all) = Range(read[r].bytes) \cup Range(got)
        <5>1. Range(read[r].bytes \o got) = Range(read[r].bytes) \cup Range(got)
          <6>1. read[r].bytes \in Seq(1..MaxBytes) /\ got \in Seq(1..MaxBytes)
            BY <2>2, <2>5, Zenon
          <6> QED
            BY <6>1, RangeConcat, ZenonT(30)
        <5> QED
          BY <2>6, <5>1, Zenon
      <4> QED
        BY <2>5, <4>1, <4>2, SMTT(30)
    <3>3. Partition(Held', next')
      BY <2>9, <2>15, <3>1, <3>2, HeldIs, Grow, Zenon DEF ReaderInv, Conserved
    <3>4. Once(all)
      <4>1. Range(read[r].bytes) \subseteq 1..next
        <5>1. Held[<<"read", r>>] \subseteq 1..next
          BY HeldIs, Zenon DEF ReaderInv, Conserved, Partition
        <5>2. Held[<<"read", r>>] = Range(read[r].bytes)
          BY HeldIs, Zenon
        <5> QED
          BY <5>1, <5>2, Zenon
      <4>2. Range(read[r].bytes) \cap Range(got) = {}
        BY <2>5, <2>15, <4>1
      <4> QED
        BY <2>2, <2>5, <2>6, <4>2, OnceConcat, Zenon
    <3>5. \A x \in Reads : Once(read'[x].bytes) /\ Once(fly'[x])
      BY <1>1, <2>11, <2>13, <3>4, Zenon DEF ReaderInv, Conserved
    <3> QED
      BY <1>1, <3>3, <3>5, ZenonT(30) DEF ReaderInv, Conserved, Once, Partition
  <2>21. Order'
    <3>1. ASSUME NoPlainCancelled' PROVE NoPlainCancelled
      BY <1>1, <2>11, <2>13, <3>1, Zenon DEF NoPlainCancelled
    <3> SUFFICES ASSUME NoPlainCancelled PROVE Lined'
      BY <3>1, Zenon DEF Order
    <3>2. Lined /\ buffer = <<>>
      BY <2>1, Zenon DEF ReaderInv, Order, Lined
    <3>3. Mine' = all /\ InHand' = <<>>
      BY <1>1, <2>1, <2>11, <2>13, Zenon DEF Mine, InHand
    <3>4. (lost = {} /\ InLine') \/ (lost # {} /\ Drained')
      <4>1. CASE lost = {}
        <5>1. /\ RunFrom(read[r].bytes, Len(out)) /\ next = Len(out) + Len(read[r].bytes)
              /\ Len(out) \in Nat
          BY <2>1, <3>2, <4>1 DEF Lined, InLine, ReaderInv, Types
        <5>2. RunFrom(all, Len(out))
          BY <2>2, <2>5, <2>6, <5>1, RunConcat, Zenon
        <5>3. /\ Len(stash') = 0 /\ Len(InHand') = 0 /\ Len(buffer') = 0 /\ Len(Mine') = Len(all)
              /\ out' = out /\ lost' = lost /\ next' = Len(out) + Len(all) /\ Len(all) \in Nat
          BY <1>1, <2>1, <2>2, <2>5, <2>7, <2>9, <3>2, <3>3, <5>1
        <5>4. InLine'
          BY <3>3, <5>1, <5>2, <5>3 DEF InLine, RunFrom
        <5> QED
          BY <4>1, <5>3, <5>4
      <4>2. CASE lost # {}
        <5>1. Drained
          BY <3>2, <4>2, Zenon DEF Lined
        <5>2. got = <<>> /\ read[r].bytes = <<>>
          BY <2>1, <2>5, <5>1, Zenon DEF Drained
        <5>3. all = <<>>
          BY <2>6, <5>2
        <5> QED
          BY <1>1, <2>15, <3>3, <4>2, <5>1, <5>3, Zenon DEF Drained
      <4> QED
        BY <4>1, <4>2
    <3> QED
      BY <1>1, <3>2, <3>4, Zenon DEF Lined, RunFrom
  <2> QED
    BY <2>17, <2>18, <2>19, <2>20, <2>21, Zenon DEF ReaderInv
<1> QED
  BY <1>2, <1>3

LEMMA StartKeeps ==
    ASSUME ReaderAssumption, ReaderInv, NEW m \in Modes, NEW n \in Lengths, Start(m, n)
    PROVE  ReaderInv'
<1>0. n \in Nat /\ m \in {"plain", "exact"}
  BY DEF ReaderAssumption
<1>1. PICK r : r = count + 1
  OBVIOUS
<1>2. PICK k : k = Least(n, Len(buffer))
  OBVIOUS
<1>3. PICK full \in BOOLEAN : full = IF m = "plain" THEN n = 0 \/ buffer # <<>> ELSE k = n
  BY Zenon
<1>4. PICK head : head = Upto(buffer, k)
  OBVIOUS
<1>5. PICK tail : tail = Beyond(buffer, k)
  OBVIOUS
<1>6. PICK v : v = [NewRead(m, n) EXCEPT !.complete = full, !.bytes = head]
  OBVIOUS
<1>7. /\ user = "idle" /\ ~half /\ count < MaxReads /\ pendingRead = NoOp
      /\ count' = r /\ user' = (IF full THEN "wait" ELSE "starting")
      /\ read' = [read EXCEPT ![r] = v]
      /\ buffer' = tail
      /\ pendingRead' = (IF full THEN NoOp ELSE r)
      /\ at' = [at EXCEPT ![r] = IF full THEN "done" ELSE "first"]
      /\ UNCHANGED <<bytesIn, eof, next, fly, stash, out, lost, half>>
  BY <1>1, <1>2, <1>3, <1>4, <1>5, <1>6, Zenon DEF Start, Taken, socketVars
<1>8. r \in Reads /\ r \in 0..MaxReads /\ r # 0 /\ count \in Nat /\ r > count
      /\ \A x \in Reads : x > r => x > count
  BY <1>1, <1>7 DEF ReaderInv, Types, Reads, ReaderAssumption
<1>9. k \in Nat /\ k <= n /\ (k # n => k = Len(buffer)) /\ k <= Len(buffer)
  BY <1>0, <1>2 DEF Least, ReaderInv, Types
<1>10. /\ head \in Seq(1..MaxBytes) /\ tail \in Seq(1..MaxBytes) /\ Once(head) /\ Once(tail)
       /\ Range(head) \cap Range(tail) = {} /\ Range(head) \cup Range(tail) = Range(buffer)
  BY <1>4, <1>5, <1>9, Cut, CutOnce, Zenon DEF ReaderInv, Types, Conserved
<1>11. Len(head) = k /\ Len(head) + Len(tail) = Len(buffer)
  <2>1. Len(head) = Least(k, Len(buffer)) /\ Len(head) + Len(tail) = Len(buffer)
    BY <1>4, <1>5, <1>9, Cut, Zenon DEF ReaderInv, Types
  <2> QED
    BY <1>9, <2>1 DEF Least, ReaderInv, Types
<1>12. /\ v \in ReadRecords /\ v.complete = full /\ v.mode = m /\ v.len = n
       /\ ~v.canceled /\ ~v.error /\ v.bytes = head
  BY <1>0, <1>6, <1>10, Zenon DEF ReadRecords, NewRead
<1>13. /\ read' \in [Reads -> ReadRecords] /\ read'[r] = v
       /\ \A x \in Reads \ {r} : read'[x] = read[x]
  BY <1>7, <1>8, <1>12, ReadChange, Zenon DEF ReaderInv
<1>14. /\ at' \in [Reads -> Stages] /\ at'[r] = (IF full THEN "done" ELSE "first")
       /\ \A x \in Reads \ {r} : at'[x] = at[x]
  BY <1>7, <1>8 DEF ReaderInv, Types, Stages
<1>15. fly[r] = <<>> /\ read[r].bytes = <<>> /\ ~read[r].canceled /\ ~Active
  BY <1>7, <1>8 DEF ReaderInv, ReadPhase, Active
<1>16. ~full => buffer' = <<>> /\ (m = "plain" => head = <<>>)
  <2> SUFFICES ASSUME ~full PROVE Len(tail) = 0 /\ (m = "plain" => Len(head) = 0)
    BY <1>7, <1>10
  <2>0. Len(head) \in Nat /\ Len(tail) \in Nat
    BY <1>10
  <2>1. CASE m = "plain"
    <3>1. buffer = <<>>
      BY <1>3, <2>1, Zenon
    <3>2. Len(buffer) = 0
      BY <3>1
    <3> QED
      BY <1>11, <2>0, <3>2
  <2>2. CASE m # "plain"
    <3>1. k = Len(buffer)
      BY <1>3, <1>9, <2>2, Zenon
    <3> QED
      BY <1>11, <2>0, <2>2, <3>1
  <2> QED
    BY <2>1, <2>2
<1>17. Types'
  BY <1>7, <1>8, <1>10, <1>13, <1>14, SMTT(30) DEF ReaderInv, Types, Users
<1>18. TaskPhase'
  BY <1>7, <1>8, <1>12, <1>13 DEF ReaderInv, TaskPhase, Active, NoOp
<1>19. ASSUME NEW x \in Reads PROVE ReadPhase(x)'
  <2>1. CASE x = r
    <3>1. Active' /\ ~(r > count') /\ fly'[r] = <<>> /\ Len(v.bytes) <= v.len
      BY <1>0, <1>7, <1>8, <1>9, <1>11, <1>12, <1>15 DEF Active
    <3>2. CASE full
      BY <1>7, <1>12, <1>13, <1>14, <2>1, <3>1, <3>2, Zenon DEF ReadPhase
    <3>3. CASE ~full
      BY <1>7, <1>12, <1>13, <1>14, <1>16, <2>1, <3>1, <3>3, Zenon DEF ReadPhase
    <3> QED
      BY <3>2, <3>3
  <2>2. CASE x # r
    BY <1>7, <1>8, <1>13, <1>14, <1>15, <2>2 DEF ReadPhase, ReaderInv
  <2> QED
    BY <2>1, <2>2, SMTT(30)
<1>20. Conserved'
  <2>1. \A h \in Holders \ {<<"buffer", 0>>, <<"read", r>>} : Held'[h] = Held[h]
    BY <1>7, <1>13, HeldSame, SMTT(30)
  <2>2. /\ Held'[<<"buffer", 0>>] = Range(tail) /\ Held[<<"buffer", 0>>] = Range(buffer)
        /\ Held'[<<"read", r>>] = Held[<<"read", r>>] \cup Range(head)
    <3>1. Held'[<<"buffer", 0>>] = Range(tail) /\ Held[<<"buffer", 0>>] = Range(buffer)
      BY <1>7, HeldIs, HeldNext, Zenon
    <3>2. Held[<<"read", r>>] = {}
      BY <1>8, <1>15, HeldIs, EmptyRange, Zenon
    <3>3. Held'[<<"read", r>>] = Range(head)
      BY <1>8, <1>12, <1>13, HeldNext, Zenon
    <3> QED
      BY <3>1, <3>2, <3>3
  <2>3. Partition(Held', next)
    <3>1. <<"buffer", 0>> # <<"read", r>>
      OBVIOUS
    <3>2. <<"buffer", 0>> \in Holders /\ <<"read", r>> \in Holders
      BY <1>8, HeldIs, Zenon
    <3>3. /\ Held'[<<"buffer", 0>>] \subseteq Held[<<"buffer", 0>>]
          /\ Range(head) = Held[<<"buffer", 0>>] \ Held'[<<"buffer", 0>>]
      BY <1>10, <2>2, ZenonT(30)
    <3>4. Held'[<<"read", r>>] = Held[<<"read", r>>] \cup (Held[<<"buffer", 0>>] \ Held'[<<"buffer", 0>>])
      BY <2>2, <3>3, Zenon
    <3>5. Partition(Held, next)
      BY Zenon DEF ReaderInv, Conserved
    <3> QED
      BY <2>1, <3>1, <3>2, <3>3, <3>4, <3>5, Split, Zenon
  <2>4. \A x \in Reads : Once(read'[x].bytes)
    BY <1>10, <1>12, <1>13, Zenon DEF ReaderInv, Conserved
  <2> QED
    BY <1>7, <1>10, <2>3, <2>4, ZenonT(30) DEF ReaderInv, Conserved, Once, Partition
<1>21. Order'
  <2>1. ASSUME NoPlainCancelled' PROVE NoPlainCancelled
    BY <1>13, <1>15, <2>1, Zenon DEF NoPlainCancelled
  <2> SUFFICES ASSUME NoPlainCancelled PROVE Lined'
    BY <2>1, Zenon DEF Order
  <2>2. Lined /\ stash = <<>>
    BY <1>7 DEF ReaderInv, Order, TaskPhase
  <2>3. Mine = <<>> /\ InHand = <<>> /\ \A x \in Reads : fly[x] = <<>>
    BY <1>15, NothingInHand, Zenon
  <2>4. Mine' = head /\ InHand' = <<>>
    BY <1>7, <1>8, <1>12, <1>13, <1>15, Zenon DEF Mine, InHand
  <2>5. (lost = {} /\ InLine') \/ (lost # {} /\ Drained')
    <3>1. CASE lost = {}
      <4>1. RunFrom(buffer, Len(out)) /\ next = Len(out) + Len(buffer) /\ Len(out) \in Nat
        BY <2>2, <2>3, <3>1 DEF Lined, InLine, ReaderInv, Types
      <4>2. RunFrom(head, Len(out)) /\ RunFrom(tail, Len(out) + Len(head))
        BY <1>4, <1>5, <1>9, <4>1, RunCut, Zenon DEF ReaderInv, Types
      <4>3. /\ Len(stash') = 0 /\ Len(InHand') = 0 /\ Len(buffer') = Len(tail)
            /\ Len(Mine') = Len(head) /\ Len(tail) \in Nat /\ Len(head) \in Nat
            /\ out' = out /\ lost' = lost /\ next' = Len(out) + Len(head) + Len(tail)
        <5>1. Len(tail) \in Nat /\ Len(head) \in Nat
          BY <1>10
        <5>2. Len(stash') = 0 /\ Len(InHand') = 0
          BY <1>7, <2>2, <2>4
        <5>3. next' = Len(out) + Len(head) + Len(tail)
          BY <1>7, <1>11, <4>1, <5>1, SMTT(30)
        <5> QED
          BY <1>7, <2>4, <5>1, <5>2, <5>3, Zenon
      <4>4. InLine'
        BY <1>7, <2>4, <4>1, <4>2, <4>3 DEF InLine, RunFrom
      <4> QED
        BY <3>1, <4>3, <4>4
    <3>2. CASE lost # {}
      <4>1. Drained
        BY <2>2, <3>2, Zenon DEF Lined
      <4>2. head = <<>> /\ tail = <<>>
        BY <1>10, <1>11, <4>1 DEF Drained
      <4> QED
        BY <1>7, <2>4, <3>2, <4>1, <4>2, Zenon DEF Drained
    <3> QED
      BY <3>1, <3>2
  <2>6. Expecting' => buffer' = <<>>
    BY <1>7, <1>8, <1>12, <1>13, <1>16, Zenon DEF Expecting, NoOp
  <2> QED
    BY <1>7, <2>2, <2>3, <2>5, <2>6, Zenon DEF Lined, RunFrom
<1> QED
  BY <1>17, <1>18, <1>19, <1>20, <1>21, Zenon DEF ReaderInv

LEMMA FinishReadKeeps ==
    ASSUME ReaderAssumption, ReaderInv, FinishRead
    PROVE  ReaderInv'
<1>1. PICK r : r = count
  OBVIOUS
<1>2. /\ user = "wait" /\ read[r].complete /\ user' = "idle"
      /\ UNCHANGED <<bytesIn, eof, next, buffer, pendingRead, at, fly, count, stash, half>>
      /\ read' = [read EXCEPT ![r].bytes = <<>>]
      /\ \/ /\ read[r].error /\ lost' = lost \cup Range(read[r].bytes) /\ out' = out
         \/ /\ ~read[r].error /\ out' = out \o read[r].bytes /\ lost' = lost
  BY <1>1, Zenon DEF FinishRead, socketVars
<1>3. /\ r \in Reads /\ r # 0 /\ at[r] = "done" /\ fly[r] = <<>> /\ pendingRead = NoOp
      /\ stash = <<>> /\ Active /\ ~half
  BY <1>1, <1>2 DEF ReaderInv, TaskPhase, ReadPhase, Types, Active, Reads
<1>4. /\ read[r].bytes \in Seq(1..MaxBytes) /\ out \in Seq(1..MaxBytes) /\ Once(read[r].bytes)
      /\ Once(out)
  BY <1>3 DEF ReaderInv, Types, ReadRecords, Conserved
<1>5. PICK v : v = [read[r] EXCEPT !.bytes = <<>>]
  BY Zenon
<1>6. /\ v \in ReadRecords /\ v.complete = read[r].complete /\ v.mode = read[r].mode
      /\ v.len = read[r].len /\ v.canceled = read[r].canceled /\ v.error = read[r].error
      /\ v.bytes = <<>>
  BY <1>3, <1>5, Zenon DEF ReadRecords, ReaderInv, Types
<1>7. read' = [read EXCEPT ![r] = v]
  BY <1>2, <1>5
<1>8. /\ read' \in [Reads -> ReadRecords] /\ read'[r] = v
      /\ \A x \in Reads \ {r} : read'[x] = read[x]
  BY <1>3, <1>6, <1>7, ReadChange, Zenon DEF ReaderInv
<1>9. Range(read[r].bytes) \subseteq 1..MaxBytes
  BY <1>4 DEF Range
<1>10. Types'
  <2>0. lost \in SUBSET (1..MaxBytes) /\ out \o read[r].bytes \in Seq(1..MaxBytes)
    BY <1>4 DEF ReaderInv, Types
  <2>1. out' \in Seq(1..MaxBytes) /\ lost' \in SUBSET (1..MaxBytes)
    BY <1>2, <1>4, <1>9, <2>0, Zenon
  <2> QED
    BY <1>2, <1>8, <2>1 DEF ReaderInv, Types, Users
<1>11. TaskPhase'
  BY <1>2, <1>3, Zenon DEF TaskPhase, Active
<1>12. ASSUME NEW x \in Reads PROVE ReadPhase(x)'
  <2>1. CASE x = r
    <3>1. ReadPhase(r) /\ Len(<<>>) <= v.len
      BY <1>3, <1>6 DEF ReaderInv, ReadRecords
    <3> QED
      BY <1>1, <1>2, <1>3, <1>6, <1>8, <2>1, <3>1 DEF ReadPhase
  <2>2. CASE x # r
    BY <1>1, <1>2, <1>8, <2>2, PhaseSame, Zenon DEF ReaderInv
  <2> QED
    BY <2>1, <2>2
<1>13. Conserved'
  <2>1. CASE read[r].error
    <3>1. \A h \in Holders \ {<<"lost", 0>>, <<"read", r>>} : Held'[h] = Held[h]
      BY <1>2, <1>8, <2>1, HeldSame
    <3>2. /\ Held'[<<"read", r>>] = {} /\ Held[<<"read", r>>] = Range(read[r].bytes)
          /\ Held'[<<"lost", 0>>] = Held[<<"lost", 0>>] \cup Range(read[r].bytes)
      BY <1>2, <1>3, <1>6, <1>8, <2>1, HeldIs, HeldNext, EmptyRange, ZenonT(30)
    <3>3. Partition(Held', next)
      <4>1. <<"lost", 0>> # <<"read", r>>
        OBVIOUS
      <4>2. <<"lost", 0>> \in Holders /\ <<"read", r>> \in Holders
        BY <1>3, HeldIs, Zenon
      <4>3. Held'[<<"lost", 0>>] = Held[<<"lost", 0>>] \cup Held[<<"read", r>>]
        BY <3>2, Zenon
      <4>4. Partition(Held, next)
        BY Zenon DEF ReaderInv, Conserved
      <4> QED
        BY <3>1, <3>2, <4>1, <4>2, <4>3, <4>4, Move, Zenon
    <3>4. \A x \in Reads : Once(read'[x].bytes)
      BY <1>6, <1>8, EmptyRange, Zenon DEF ReaderInv, Conserved
    <3> QED
      BY <1>2, <2>1, <3>3, <3>4, Zenon DEF ReaderInv, Conserved, Once, Partition
  <2>2. CASE ~read[r].error
    <3>1. \A h \in Holders \ {<<"out", 0>>, <<"read", r>>} : Held'[h] = Held[h]
      BY <1>2, <1>8, <2>2, HeldSame
    <3>2. /\ Held'[<<"read", r>>] = {} /\ Held[<<"read", r>>] = Range(read[r].bytes)
          /\ Held'[<<"out", 0>>] = Held[<<"out", 0>>] \cup Range(read[r].bytes)
      <4>1. Held'[<<"read", r>>] = {} /\ Held[<<"read", r>>] = Range(read[r].bytes)
        BY <1>3, <1>6, <1>8, HeldIs, HeldNext, EmptyRange, Zenon
      <4>2. Held'[<<"out", 0>>] = Range(out') /\ Held[<<"out", 0>>] = Range(out)
        BY HeldIs, HeldNext, Zenon
      <4>3. Range(out') = Range(out) \cup Range(read[r].bytes)
        <5>1. Range(out \o read[r].bytes) = Range(out) \cup Range(read[r].bytes)
          BY <1>4, RangeConcat DEF ReaderInv, Types
        <5> QED
          BY <1>2, <2>2, <5>1, Zenon
      <4> QED
        BY <4>1, <4>2, <4>3, Zenon
    <3>3. Partition(Held', next)
      <4>1. <<"out", 0>> # <<"read", r>>
        OBVIOUS
      <4>2. <<"out", 0>> \in Holders /\ <<"read", r>> \in Holders
        BY <1>3, HeldIs, Zenon
      <4>3. Held'[<<"out", 0>>] = Held[<<"out", 0>>] \cup Held[<<"read", r>>]
        BY <3>2, Zenon
      <4>4. Partition(Held, next)
        BY Zenon DEF ReaderInv, Conserved
      <4> QED
        BY <3>1, <3>2, <4>1, <4>2, <4>3, <4>4, Move, Zenon
    <3>4. \A x \in Reads : Once(read'[x].bytes)
      BY <1>6, <1>8, EmptyRange, Zenon DEF ReaderInv, Conserved
    <3>5. Once(out')
      <4>1. Range(out) \cap Range(read[r].bytes) = {}
        BY <1>3, HeldIs, ZenonT(30) DEF ReaderInv, Conserved, Partition
      <4> QED
        BY <1>2, <1>4, <2>2, <4>1, OnceConcat, Zenon
    <3> QED
      BY <1>2, <2>2, <3>3, <3>4, <3>5, Zenon DEF ReaderInv, Conserved, Once, Partition
  <2> QED
    BY <2>1, <2>2
<1>14. Order'
  <2>1. ASSUME NoPlainCancelled' PROVE NoPlainCancelled
    BY <1>6, <1>8, <2>1, Zenon DEF NoPlainCancelled
  <2> SUFFICES ASSUME NoPlainCancelled PROVE Lined'
    BY <2>1, Zenon DEF Order
  <2>2. Lined
    BY Zenon DEF ReaderInv, Order
  <2>3. /\ Mine = read[r].bytes /\ InHand = <<>> /\ Mine' = <<>> /\ InHand' = <<>>
    BY <1>1, <1>2, <1>3, <1>6, <1>8, Zenon DEF Mine, InHand
  <2>4. ~Expecting'
    BY <1>2, <1>3, Zenon DEF Expecting
  <2>5. lost # {} => read[r].bytes = <<>>
    BY <2>2, <2>3, Zenon DEF Lined, Drained
  <2>6. CASE read[r].error
    <3>1. buffer = <<>> /\ eof /\ next = bytesIn
      BY <1>1, <1>2, <1>3, <2>2, <2>6 DEF Lined, Expecting, ReaderInv, ReadPhase
    <3>2. CASE lost' = {}
      <4>1. lost = {} /\ read[r].bytes = <<>>
        <5>1. lost \cup Range(read[r].bytes) = {}
          BY <1>2, <2>6, <3>2, Zenon
        <5>2. lost = {} /\ Range(read[r].bytes) = {}
          BY <5>1, Zenon
        <5> QED
          BY <1>4, <5>2, NoBytes, Zenon
      <4>2. InLine'
        BY <1>2, <2>2, <2>3, <2>6, <4>1 DEF Lined, InLine
      <4> QED
        BY <1>2, <2>2, <2>4, <2>6, <3>2, <4>2, Zenon DEF Lined, RunFrom
    <3>3. CASE lost' # {}
      <4>1. Drained'
        BY <1>2, <1>3, <2>3, <3>1, Zenon DEF Drained
      <4> QED
        BY <1>2, <2>2, <2>4, <2>6, <3>3, <4>1, Zenon DEF Lined, RunFrom
    <3> QED
      BY <3>2, <3>3
  <2>7. CASE ~read[r].error
    <3>1. out' = out \o read[r].bytes /\ lost' = lost /\ Len(out') = Len(out) + Len(read[r].bytes)
      BY <1>2, <1>4, <2>7
    <3>2. CASE lost = {}
      <4>1. /\ RunFrom(read[r].bytes, Len(out)) /\ RunFrom(buffer, Len(out) + Len(read[r].bytes))
            /\ next = Len(out) + Len(read[r].bytes) + Len(buffer)
        BY <1>3, <1>4, <2>2, <2>3, <3>2 DEF Lined, InLine, ReaderInv, Types
      <4>2. RunFrom(out', 0)
        <5>1. RunFrom(out, 0) /\ RunFrom(read[r].bytes, 0 + Len(out))
          BY <1>4, <2>2, <4>1 DEF Lined
        <5> QED
          BY <1>4, <3>1, <5>1, RunConcat
      <4>3. InLine'
        BY <1>2, <1>3, <1>4, <2>3, <3>1, <4>1, EmptyRange DEF InLine, RunFrom, ReaderInv, Types
      <4> QED
        BY <1>2, <2>2, <2>4, <3>1, <3>2, <4>2, <4>3, Zenon DEF Lined, RunFrom
    <3>3. CASE lost # {}
      <4>1. out' = out
        BY <1>4, <2>5, <3>1, <3>3
      <4>2. Drained'
        BY <1>2, <2>2, <2>3, <3>3, Zenon DEF Lined, Drained
      <4> QED
        BY <1>2, <2>2, <2>4, <3>1, <3>3, <4>1, <4>2, Zenon DEF Lined, RunFrom
    <3> QED
      BY <3>2, <3>3
  <2> QED
    BY <2>6, <2>7
<1> QED
  BY <1>10, <1>11, <1>12, <1>13, <1>14, Zenon DEF ReaderInv

LEMMA CancelReadKeeps ==
    ASSUME ReaderAssumption, ReaderInv, CancelRead
    PROVE  ReaderInv'
<1>1. PICK r : r = count
  OBVIOUS
<1>2. /\ user = "wait" /\ user' = "cancel" /\ stash' = read[r].bytes
      /\ UNCHANGED <<bytesIn, eof, next, buffer, pendingRead, at, fly, count, out, lost, half>>
      /\ read' = [read EXCEPT ![r].canceled = TRUE, ![r].bytes = <<>>]
  BY <1>1, Zenon DEF CancelRead, socketVars
<1>3. r \in Reads /\ r # 0 /\ stash = <<>> /\ Active /\ ~half
  BY <1>1, <1>2 DEF ReaderInv, TaskPhase, Types, Active, Reads
<1>4. read[r].bytes \in Seq(1..MaxBytes) /\ Once(read[r].bytes)
  BY <1>3 DEF ReaderInv, Types, ReadRecords, Conserved
<1>5. PICK v : v = [read[r] EXCEPT !.canceled = TRUE, !.bytes = <<>>]
  OBVIOUS
<1>6. /\ v \in ReadRecords /\ v.complete = read[r].complete /\ v.mode = read[r].mode
      /\ v.len = read[r].len /\ v.canceled /\ v.error = read[r].error /\ v.bytes = <<>>
  BY <1>3, <1>5, Zenon DEF ReadRecords, ReaderInv, Types
<1>7. read' = [read EXCEPT ![r] = v]
  BY <1>2, <1>5, Zenon
<1>8. /\ read' \in [Reads -> ReadRecords] /\ read'[r] = v
      /\ \A x \in Reads \ {r} : read'[x] = read[x]
  BY <1>3, <1>6, <1>7, ReadChange, Zenon DEF ReaderInv
<1>9. Types'
  BY <1>2, <1>4, <1>8 DEF ReaderInv, Types, Users
<1>10. TaskPhase'
  <2>1. \A x \in Reads : read'[x].complete = read[x].complete
    BY <1>6, <1>8, Zenon
  <2> QED
    BY <1>1, <1>2, <1>3, <2>1 DEF TaskPhase, ReaderInv, Active, Types
<1>11. ASSUME NEW x \in Reads PROVE ReadPhase(x)'
  <2>1. CASE x = r
    BY <1>1, <1>2, <1>3, <1>6, <1>8, <2>1 DEF ReadPhase, ReaderInv, Types, ReadRecords
  <2>2. CASE x # r
    BY <1>1, <1>2, <1>8, <2>2, PhaseSame, Zenon DEF ReaderInv
  <2> QED
    BY <2>1, <2>2
<1>12. Conserved'
  <2>1. \A h \in Holders \ {<<"stash", 0>>, <<"read", r>>} : Held'[h] = Held[h]
    BY <1>2, <1>8, HeldSame
  <2>2. /\ Held'[<<"read", r>>] = {} /\ Held[<<"read", r>>] = Range(read[r].bytes)
        /\ Held'[<<"stash", 0>>] = Held[<<"stash", 0>>] \cup Range(read[r].bytes)
    <3>1. Held'[<<"read", r>>] = {} /\ Held[<<"read", r>>] = Range(read[r].bytes)
      BY <1>3, <1>6, <1>8, HeldIs, HeldNext, EmptyRange, Zenon
    <3>2. Held'[<<"stash", 0>>] = Range(read[r].bytes) /\ Held[<<"stash", 0>>] = {}
      BY <1>2, <1>3, HeldIs, HeldNext, EmptyRange, Zenon
    <3> QED
      BY <3>1, <3>2
  <2>3. Partition(Held', next)
    <3>1. <<"stash", 0>> # <<"read", r>>
      OBVIOUS
    <3>2. <<"stash", 0>> \in Holders /\ <<"read", r>> \in Holders
      BY <1>3, HeldIs, Zenon
    <3>3. Held'[<<"stash", 0>>] = Held[<<"stash", 0>>] \cup Held[<<"read", r>>]
      BY <2>2, Zenon
    <3>4. Partition(Held, next)
      BY Zenon DEF ReaderInv, Conserved
    <3> QED
      BY <2>1, <2>2, <3>1, <3>2, <3>3, <3>4, Move, Zenon
  <2>4. \A x \in Reads : Once(read'[x].bytes)
    BY <1>6, <1>8, EmptyRange, Zenon DEF ReaderInv, Conserved
  <2> QED
    BY <1>2, <1>4, <2>3, <2>4, ZenonT(30) DEF ReaderInv, Conserved, Once, Partition
<1>13. Order'
  <2>1. ASSUME NoPlainCancelled' PROVE NoPlainCancelled /\ read[r].mode # "plain"
    <3>1. read[r].mode # "plain"
      BY <1>3, <1>6, <1>8, <2>1, Zenon DEF NoPlainCancelled
    <3> QED
      BY <1>8, <2>1, <3>1, Zenon DEF NoPlainCancelled
  <2> SUFFICES ASSUME NoPlainCancelled, read[r].mode # "plain" PROVE Lined'
    BY <2>1, Zenon DEF Order
  <2>2. Lined /\ fly[r] = <<>>
    BY <1>3, Zenon DEF ReaderInv, Order, ReadPhase
  <2>3. /\ Mine = read[r].bytes /\ InHand = <<>> /\ Mine' = <<>> /\ InHand' = <<>>
    BY <1>1, <1>2, <1>3, <1>6, <1>8, <2>2, Zenon DEF Mine, InHand
  <2>4. ~Expecting'
    BY <1>1, <1>2, <1>3, <1>6, <1>8 DEF Expecting
  <2>5. (lost = {} /\ InLine') \/ (lost # {} /\ Drained')
    <3>1. CASE lost = {}
      <4>1. /\ RunFrom(read[r].bytes, Len(out)) /\ RunFrom(buffer, Len(out) + Len(read[r].bytes))
            /\ next = Len(out) + Len(read[r].bytes) + Len(buffer)
        BY <1>3, <1>4, <2>2, <2>3, <3>1 DEF Lined, InLine, ReaderInv, Types
      <4> QED
        BY <1>2, <1>4, <2>3, <3>1, <4>1, EmptyRange DEF InLine, RunFrom, ReaderInv, Types
    <3>2. CASE lost # {}
      BY <1>2, <2>2, <2>3, <3>2, Zenon DEF Lined, Drained
    <3> QED
      BY <3>1, <3>2
  <2> QED
    BY <1>2, <2>2, <2>4, <2>5, Zenon DEF Lined, RunFrom
<1> QED
  BY <1>9, <1>10, <1>11, <1>12, <1>13, Zenon DEF ReaderInv

LEMMA CancelReaderKeeps ==
    ASSUME ReaderAssumption, ReaderInv, CancelReader
    PROVE  ReaderInv'
<1>1. /\ user = "cancel" /\ user' = "stop" /\ pendingRead' = Free(count)
      /\ buffer' = stash \o buffer /\ stash' = <<>>
      /\ UNCHANGED <<bytesIn, eof, next, read, at, fly, count, out, lost, half>>
  BY Zenon DEF CancelReader, socketVars, Prepended
<1>2. pendingRead' = NoOp /\ ~Active /\ ~half
  BY <1>1 DEF Free, ReaderInv, Types, TaskPhase, Active
<1>3. /\ stash \in Seq(1..MaxBytes) /\ buffer \in Seq(1..MaxBytes) /\ buffer' \in Seq(1..MaxBytes)
      /\ Once(stash) /\ Once(buffer)
  BY <1>1 DEF ReaderInv, Types, Conserved
<1>4. Types'
  BY <1>1, <1>2, <1>3 DEF ReaderInv, Types, Users
<1>5. TaskPhase'
  BY <1>1, <1>2 DEF ReaderInv, TaskPhase, Active
<1>6. \A x \in Reads : ReadPhase(x)'
  BY <1>1, <1>2, PhaseSame, Zenon DEF ReaderInv
<1>7. Conserved'
  <2>1. \A h \in Holders \ {<<"stash", 0>>, <<"buffer", 0>>} : Held'[h] = Held[h]
    BY <1>1, HeldSame
  <2>2. /\ Held'[<<"stash", 0>>] = {} /\ Held[<<"stash", 0>>] = Range(stash)
        /\ Held'[<<"buffer", 0>>] = Held[<<"buffer", 0>>] \cup Range(stash)
    BY <1>1, <1>3, HeldIs, HeldNext, EmptyRange, RangeConcat
  <2>3. Partition(Held', next)
    <3>1. <<"stash", 0>> # <<"buffer", 0>>
      OBVIOUS
    <3>2. <<"stash", 0>> \in Holders /\ <<"buffer", 0>> \in Holders
      BY HeldIs, Zenon
    <3>3. Held'[<<"buffer", 0>>] = Held[<<"buffer", 0>>] \cup Held[<<"stash", 0>>]
      BY <2>2, Zenon
    <3>4. Partition(Held, next)
      BY Zenon DEF ReaderInv, Conserved
    <3> QED
      BY <2>1, <2>2, <3>1, <3>2, <3>3, <3>4, Move, Zenon
  <2>4. Once(buffer')
    <3>1. Range(stash) \cap Range(buffer) = {}
      BY HeldIs DEF ReaderInv, Conserved, Partition
    <3> QED
      BY <1>1, <1>3, <3>1, OnceConcat, Zenon
  <2> QED
    BY <1>1, <2>3, <2>4, EmptyRange, ZenonT(30) DEF ReaderInv, Conserved, Once, Partition
<1>8. Order'
  <2> SUFFICES ASSUME NoPlainCancelled PROVE Lined'
    BY <1>1, Zenon DEF Order, NoPlainCancelled
  <2>1. Lined
    BY Zenon DEF ReaderInv, Order
  <2>2. /\ Mine = <<>> /\ InHand = <<>> /\ Mine' = <<>> /\ InHand' = <<>>
    BY <1>1, <1>2, NothingInHand, Zenon DEF Mine, InHand
  <2>3. ~Expecting'
    BY <1>1, <1>2, Zenon DEF Expecting
  <2>4. (lost = {} /\ InLine') \/ (lost # {} /\ Drained')
    <3>1. CASE lost = {}
      <4>1. /\ RunFrom(stash, Len(out)) /\ RunFrom(buffer, Len(out) + Len(stash))
            /\ next = Len(out) + Len(stash) + Len(buffer) /\ Len(out) \in Nat
        BY <1>3, <2>1, <2>2, <3>1 DEF Lined, InLine, ReaderInv, Types
      <4>2. RunFrom(buffer', Len(out)) /\ Len(buffer') = Len(stash) + Len(buffer)
        BY <1>1, <1>3, <4>1, RunConcat
      <4> QED
        BY <1>1, <1>3, <2>2, <3>1, <4>1, <4>2, EmptyRange DEF InLine, RunFrom
    <3>2. CASE lost # {}
      <4>1. Drained
        BY <2>1, <3>2, Zenon DEF Lined
      <4>2. buffer' = <<>>
        BY <1>1, <4>1 DEF Drained
      <4> QED
        BY <1>1, <2>2, <3>2, <4>1, <4>2, Zenon DEF Drained
    <3> QED
      BY <3>1, <3>2
  <2> QED
    BY <1>1, <2>1, <2>3, <2>4, Zenon DEF Lined, RunFrom
<1> QED
  BY <1>4, <1>5, <1>6, <1>7, <1>8, Zenon DEF ReaderInv

LEMMA StopReadSourceKeeps ==
    ASSUME ReaderAssumption, ReaderInv, StopReadSource
    PROVE  ReaderInv'
<1>1. /\ user = "stop" /\ user' = "idle"
      /\ UNCHANGED <<bytesIn, eof, next, buffer, stash, out, lost, pendingRead, read, at, fly, count,
                     half>>
  BY Zenon DEF StopReadSource, taskVars, socketVars
<1>2. ~Active
  BY <1>1 DEF Active
<1>3. pendingRead = NoOp
  BY <1>1 DEF ReaderInv, TaskPhase
<1>4. Types'
  BY <1>1 DEF ReaderInv, Types, Users
<1>5. TaskPhase'
  BY <1>1, <1>3 DEF ReaderInv, TaskPhase, Active
<1>6. \A x \in Reads : ReadPhase(x)'
  BY <1>1, <1>2, PhaseSame, Zenon DEF ReaderInv
<1>7. Conserved'
  BY <1>1, ConservedSame, Zenon DEF ReaderInv
<1>8. Order'
  BY <1>1, OrderSame DEF ReaderInv, NoPlainCancelled, Expecting
<1> QED
  BY <1>4, <1>5, <1>6, <1>7, <1>8, Zenon DEF ReaderInv

LEMMA StartFailsKeeps ==
    ASSUME ReaderAssumption, ReaderInv, NEW r \in Reads, StartFails(r)
    PROVE  ReaderInv'
<1>1. /\ at[r] \in {"first", "unarmed"} /\ user' = "idle" /\ pendingRead' = Free(r)
      /\ at' = [at EXCEPT ![r] = "done"] /\ read' = [read EXCEPT ![r].bytes = <<>>]
      /\ buffer' = read[r].bytes \o buffer
      /\ UNCHANGED <<bytesIn, eof, next, fly, count, stash, out, lost, half>>
  BY Zenon DEF StartFails, Prepended, taskVars, socketVars
<1>2. user = "starting" /\ ~read[r].canceled
  BY <1>1 DEF ReaderInv, ReadPhase
<1>3. /\ r = count /\ pendingRead = r /\ Active /\ stash = <<>> /\ count # 0
      /\ Mine = read[r].bytes /\ InHand = fly[r] /\ Expecting /\ ~read[r].complete
  BY <1>1, <1>2, AtWork
<1>4. fly[r] = <<>> /\ ~read[r].error /\ pendingRead' = NoOp /\ ~half
  BY <1>1, <1>2, <1>3 DEF ReaderInv, ReadPhase, TaskPhase, Free
<1>5. PICK v : v = [read[r] EXCEPT !.bytes = <<>>]
  BY Zenon
<1>6. /\ v \in ReadRecords /\ v.complete = read[r].complete /\ v.mode = read[r].mode
      /\ v.len = read[r].len /\ v.canceled = read[r].canceled /\ v.error = read[r].error
      /\ v.bytes = <<>>
  BY <1>4, <1>5, Zenon DEF ReadRecords, ReaderInv, Types
<1>7. read' = [read EXCEPT ![r] = v]
  BY <1>1, <1>5
<1>8. /\ read' \in [Reads -> ReadRecords] /\ read'[r] = v
      /\ \A x \in Reads \ {r} : read'[x] = read[x]
  BY <1>6, <1>7, ReadChange, Zenon DEF ReaderInv
<1>9. /\ at' \in [Reads -> Stages] /\ at'[r] = "done"
      /\ \A x \in Reads \ {r} : at'[x] = at[x]
  BY <1>1 DEF ReaderInv, Types, Stages
<1>10. /\ read[r].bytes \in Seq(1..MaxBytes) /\ buffer \in Seq(1..MaxBytes)
       /\ buffer' \in Seq(1..MaxBytes) /\ Once(read[r].bytes) /\ Once(buffer)
  BY <1>1 DEF ReaderInv, Types, ReadRecords, Conserved
<1>11. Types'
  BY <1>1, <1>4, <1>8, <1>9, <1>10 DEF ReaderInv, Types, Users
<1>12. TaskPhase'
  BY <1>1, <1>3, <1>4 DEF TaskPhase, Active
<1>13. ASSUME NEW x \in Reads PROVE ReadPhase(x)'
  <2>1. CASE x = r
    <3>1. Len(<<>>) <= v.len
      BY <1>6 DEF ReadRecords
    <3>2. ~(r > count)
      BY <1>3 DEF Reads, ReaderInv, Types
    <3> QED
      BY <1>1, <1>2, <1>3, <1>4, <1>6, <1>8, <1>9, <2>1, <3>1, <3>2, Zenon DEF ReadPhase
  <2>2. CASE x # r
    BY <1>1, <1>3, <1>8, <1>9, <2>2, PhaseSame, Zenon DEF ReaderInv
  <2> QED
    BY <2>1, <2>2
<1>14. Conserved'
  <2>1. \A h \in Holders \ {<<"read", r>>, <<"buffer", 0>>} : Held'[h] = Held[h]
    BY <1>1, <1>8, HeldSame, SMTT(30)
  <2>2. Held'[<<"read", r>>] = {} /\ Held[<<"read", r>>] = Range(read[r].bytes)
    BY <1>6, <1>8, HeldIs, HeldNext, EmptyRange, Zenon
  <2>3. Held'[<<"buffer", 0>>] = Held[<<"buffer", 0>>] \cup Held[<<"read", r>>]
    <3>1. Range(buffer') = Range(read[r].bytes) \cup Range(buffer)
      <4>1. Range(read[r].bytes \o buffer) = Range(read[r].bytes) \cup Range(buffer)
        BY <1>10, RangeConcat, ZenonT(30)
      <4> QED
        BY <1>1, <4>1, Zenon
    <3> QED
      BY <2>2, <3>1, HeldIs, HeldNext, Zenon
  <2>4. Partition(Held', next)
    <3>1. <<"read", r>> # <<"buffer", 0>>
      OBVIOUS
    <3>2. <<"read", r>> \in Holders /\ <<"buffer", 0>> \in Holders
      BY HeldIs, Zenon
    <3>3. Partition(Held, next)
      BY Zenon DEF ReaderInv, Conserved
    <3> QED
      BY <2>1, <2>2, <2>3, <3>1, <3>2, <3>3, Move, Zenon
  <2>5. Once(buffer')
    <3>1. Range(read[r].bytes) \cap Range(buffer) = {}
      <4>1. <<"read", r>> # <<"buffer", 0>> /\ <<"read", r>> \in Holders /\ <<"buffer", 0>> \in Holders
        BY HeldIs
      <4> QED
        BY <4>1, HeldIs, Zenon DEF ReaderInv, Conserved, Partition
    <3> QED
      BY <1>1, <1>10, <3>1, OnceConcat, Zenon
  <2>6. \A x \in Reads : Once(read'[x].bytes)
    BY <1>6, <1>8, EmptyRange, Zenon DEF ReaderInv, Conserved
  <2> QED
    BY <1>1, <2>4, <2>5, <2>6, ZenonT(30) DEF ReaderInv, Conserved, Once, Partition
<1>15. Order'
  <2>1. ASSUME NoPlainCancelled' PROVE NoPlainCancelled
    BY <1>6, <1>8, <2>1, Zenon DEF NoPlainCancelled
  <2> SUFFICES ASSUME NoPlainCancelled PROVE Lined'
    BY <2>1, Zenon DEF Order
  <2>2. Lined /\ buffer = <<>>
    BY <1>3, Zenon DEF ReaderInv, Order, Lined
  <2>3. Mine' = <<>> /\ InHand' = <<>> /\ buffer' = read[r].bytes
    <3>1. buffer' = read[r].bytes
      BY <1>1, <1>10, <2>2
    <3> QED
      BY <1>1, <1>3, <1>4, <1>6, <1>8, <3>1, Zenon DEF Mine, InHand
  <2>4. ~Expecting'
    BY <1>1, <1>4 DEF Expecting
  <2>5. (lost = {} /\ InLine') \/ (lost # {} /\ Drained')
    <3>1. CASE lost = {}
      <4>1. /\ RunFrom(read[r].bytes, Len(out)) /\ next = Len(out) + Len(read[r].bytes)
            /\ Len(out) \in Nat
        BY <1>3, <1>4, <2>2, <3>1 DEF Lined, InLine, ReaderInv, Types
      <4>2. /\ Len(stash') = 0 /\ Len(Mine') = 0 /\ Len(InHand') = 0
            /\ Len(buffer') = Len(read[r].bytes) /\ out' = out /\ next' = next
            /\ Len(read[r].bytes) \in Nat
        <5>1. /\ stash' = <<>> /\ Mine' = <<>> /\ InHand' = <<>> /\ buffer' = read[r].bytes
              /\ out' = out /\ next' = next
          BY <1>1, <1>3, <2>3, Zenon
        <5>2. Len(<<>>) = 0 /\ Len(read[r].bytes) \in Nat
          BY <1>10
        <5> QED
          BY <5>1, <5>2, Zenon
      <4>3. InLine'
        BY <2>3, <4>1, <4>2 DEF InLine, RunFrom
      <4> QED
        BY <3>1, <4>3
    <3>2. CASE lost # {}
      <4>1. Drained
        BY <2>2, <3>2, Zenon DEF Lined
      <4> QED
        BY <1>1, <1>3, <2>3, <3>2, <4>1, Zenon DEF Drained
    <3> QED
      BY <3>1, <3>2
  <2> QED
    BY <1>1, <2>2, <2>4, <2>5, Zenon DEF Lined, RunFrom
<1> QED
  BY <1>11, <1>12, <1>13, <1>14, <1>15, Zenon DEF ReaderInv

LEMMA HalfReadKeeps ==
    ASSUME ReaderAssumption, ReaderInv, HalfRead
    PROVE  ReaderInv'
<1>1. /\ half /\ Available > 0 /\ next' = bytesIn /\ out' = out \o KernelBytes(Available)
      /\ UNCHANGED <<bytesIn, eof, buffer, pendingRead, read, at, fly, count, user, stash, lost, half>>
  BY Zenon DEF HalfRead, socketVars
<1>2. Available \in Nat /\ next \in Nat /\ bytesIn \in Nat /\ next < bytesIn
      /\ Available = bytesIn - next /\ bytesIn <= MaxBytes
  BY <1>1 DEF Available, ReaderInv, Types, ReaderAssumption
<1>3. PICK got : got = KernelBytes(Available)
  OBVIOUS
<1>4. /\ got \in Seq(1..MaxBytes) /\ next + Len(got) \in 0..bytesIn
      /\ Range(got) = (next + 1)..(next + Len(got))
      /\ Once(got) /\ RunFrom(got, next) /\ Len(got) <= Available
      /\ Len(got) < Available => next + Len(got) = bytesIn
  BY <1>2, <1>3, Kernel, Zenon DEF ReaderInv
<1>5. next' = next + Len(got) /\ Len(got) \in Nat /\ out' = out \o got /\ out \in Seq(1..MaxBytes)
  <2>1. Len(got) \in Nat /\ out \in Seq(1..MaxBytes)
    BY <1>4 DEF ReaderInv, Types
  <2>2. next + Len(got) = bytesIn
    <3>1. Len(got) = Available => next + Len(got) = bytesIn
      BY <1>2
    <3>2. Len(got) <= Available /\ (Len(got) < Available => next + Len(got) = bytesIn)
      BY <1>4, Zenon
    <3>3. Len(got) < Available \/ Len(got) = Available
      <4>1. \A a, b \in Nat : a <= b => a < b \/ a = b
        OBVIOUS
      <4> QED
        BY <1>2, <2>1, <3>2, <4>1, Zenon
    <3> QED
      BY <3>1, <3>2, <3>3, Zenon
  <2> QED
    BY <1>1, <1>3, <2>1, <2>2
<1>6. user = "idle" /\ stash = <<>> /\ ~Active
  BY <1>1 DEF ReaderInv, TaskPhase, Active
<1>7. Types'
  <2>1. out' \in Seq(1..MaxBytes) /\ next' \in 0..bytesIn
    <3>1. out \o got \in Seq(1..MaxBytes)
      BY <1>4, <1>5
    <3> QED
      BY <1>4, <1>5, <3>1, Zenon
  <2> QED
    BY <1>1, <2>1, Zenon DEF ReaderInv, Types
<1>8. TaskPhase'
  BY <1>1, Zenon DEF TaskPhase, ReaderInv, Active
<1>9. \A x \in Reads : ReadPhase(x)'
  BY <1>1, <1>2, <1>6, PhaseSame DEF ReaderInv
<1>10. Conserved'
  <2>1. \A h \in Holders \ {<<"out", 0>>} : Held'[h] = Held[h]
    BY <1>1, HeldSame
  <2>2. Held'[<<"out", 0>>] = Held[<<"out", 0>>] \cup (next + 1)..(next + Len(got))
    <3>1. Held'[<<"out", 0>>] = Range(out') /\ Held[<<"out", 0>>] = Range(out)
      BY HeldIs, HeldNext, Zenon
    <3>2. Range(out') = Range(out) \cup Range(got)
      <4>1. Range(out \o got) = Range(out) \cup Range(got)
        <5>1. out \in Seq(1..MaxBytes) /\ got \in Seq(1..MaxBytes)
          BY <1>4, <1>5, Zenon
        <5> QED
          BY <5>1, RangeConcat, ZenonT(30)
      <4> QED
        BY <1>5, <4>1, Zenon
    <3> QED
      BY <1>4, <3>1, <3>2
  <2>3. Partition(Held', next')
    BY <1>2, <1>5, <2>1, <2>2, HeldIs, Grow, Zenon DEF ReaderInv, Conserved
  <2>4. Once(out')
    <3>1. Range(out) \subseteq 1..next
      BY HeldIs DEF ReaderInv, Conserved, Partition
    <3>2. Range(out) \cap Range(got) = {}
      BY <1>2, <1>4, <1>5, <3>1
    <3> QED
      BY <1>4, <1>5, <3>2, OnceConcat, Zenon DEF ReaderInv, Conserved
  <2> QED
    BY <1>1, <2>3, <2>4, ZenonT(30) DEF ReaderInv, Conserved, Once, Partition
<1>11. Order'
  <2> SUFFICES ASSUME NoPlainCancelled PROVE Lined'
    BY <1>1, Zenon DEF Order, NoPlainCancelled
  <2>1. Lined /\ buffer = <<>>
    BY <1>1, Zenon DEF ReaderInv, Order, Lined, Expecting
  <2>2. /\ Mine = <<>> /\ InHand = <<>> /\ Mine' = <<>> /\ InHand' = <<>>
    BY <1>1, <1>6, NothingInHand, Zenon DEF Mine, InHand
  <2>3. lost = {} /\ next = Len(out)
    <3>1. ~Drained
      BY <1>2 DEF Drained
    <3> QED
      BY <1>5, <1>6, <2>1, <2>2, <3>1 DEF Lined, InLine
  <2>4. RunFrom(out', 0) /\ Len(out') = next'
    <3>1. RunFrom(out, 0) /\ RunFrom(got, 0 + Len(out))
      BY <1>4, <1>5, <2>1, <2>3 DEF Lined
    <3> QED
      BY <1>4, <1>5, <2>3, <3>1, RunConcat
  <2>5. InLine'
    BY <1>1, <1>2, <1>6, <2>1, <2>2, <2>4, EmptyRange DEF InLine, RunFrom
  <2> QED
    BY <1>1, <2>1, <2>3, <2>4, <2>5, Zenon DEF Lined, RunFrom
<1> QED
  BY <1>7, <1>8, <1>9, <1>10, <1>11, Zenon DEF ReaderInv
-----------------------------------------------------------------------------
(* The theorem.                                                            *)

LEMMA InitHolds == ReaderAssumption /\ ReaderInit => ReaderInv
<1> SUFFICES ASSUME ReaderAssumption, ReaderInit PROVE ReaderInv
  OBVIOUS
<1>1. PICK v : v = NewRead("plain", 0)
  OBVIOUS
<1>2. /\ v \in ReadRecords /\ ~v.complete /\ ~v.canceled /\ ~v.error /\ v.bytes = <<>>
      /\ v.mode = "plain"
  BY <1>1 DEF NewRead, ReadRecords
<1>3. /\ read \in [Reads -> ReadRecords] /\ \A r \in Reads : read[r] = v
      /\ at \in [Reads -> Stages] /\ \A r \in Reads : at[r] = "none"
      /\ fly \in [Reads -> Seq(1..MaxBytes)] /\ \A r \in Reads : fly[r] = <<>>
  BY <1>1, <1>2 DEF ReaderInit, Stages
<1>4. Types
  <2>1. bytesIn \in 0..MaxBytes /\ next \in 0..bytesIn /\ count \in 0..MaxReads
    BY Constants DEF ReaderInit
  <2>2. buffer \in Seq(1..MaxBytes) /\ stash \in Seq(1..MaxBytes) /\ out \in Seq(1..MaxBytes)
    BY DEF ReaderInit
  <2>3. /\ eof \in BOOLEAN /\ half \in BOOLEAN /\ lost \in SUBSET (1..MaxBytes)
        /\ pendingRead \in {NoOp, count} /\ user \in Users
    BY Zenon DEF ReaderInit, Users
  <2> QED
    BY <1>3, <2>1, <2>2, <2>3, Zenon DEF Types
<1>5. TaskPhase
  BY DEF ReaderInit, TaskPhase, Active, NoOp
<1>6. \A r \in Reads : ReadPhase(r)
  BY <1>2, <1>3, SMTT(30) DEF ReaderInit, ReadPhase, ReadRecords
<1>7. Conserved
  <2>1. \A h \in Holders : Held[h] = {}
    BY <1>2, <1>3, EmptyRange DEF Held, Holders, ReaderInit
  <2>2. Partition(Held, next)
    BY <2>1 DEF ReaderInit, Partition
  <2> QED
    BY <1>2, <1>3, <2>2, EmptyRange DEF Conserved, ReaderInit
<1>8. Order
  <2>1. Mine = <<>> /\ InHand = <<>>
    BY DEF ReaderInit, Mine, InHand
  <2>2. InLine
    BY <2>1, EmptyRange DEF ReaderInit, InLine
  <2> QED
    BY <1>3, <2>2, EmptyRange DEF ReaderInit, Order, Lined
<1> QED
  BY <1>4, <1>5, <1>6, <1>7, <1>8, Zenon DEF ReaderInv

LEMMA StutterKeeps == ReaderInv /\ UNCHANGED readerVars => ReaderInv'
<1> SUFFICES ASSUME ReaderInv, UNCHANGED readerVars PROVE ReaderInv'
  OBVIOUS
<1>1. UNCHANGED <<bytesIn, eof, next, buffer, pendingRead, read, at, fly, count, user, stash, out,
                  lost, half>>
  BY Zenon DEF readerVars
<1>2. Types' /\ TaskPhase'
  BY <1>1, Zenon DEF ReaderInv, Types, TaskPhase, Active
<1>3. \A r \in Reads : ReadPhase(r)'
  BY <1>1, PhaseSame, Zenon DEF ReaderInv, Active
<1>4. Conserved'
  BY <1>1, ConservedSame, Zenon DEF ReaderInv
<1>5. Order'
  BY <1>1, OrderSame, Zenon DEF ReaderInv, NoPlainCancelled, Expecting
<1> QED
  BY <1>2, <1>3, <1>4, <1>5, Zenon DEF ReaderInv

LEMMA NextKeeps == ReaderAssumption /\ ReaderInv /\ [ReaderNext]_readerVars => ReaderInv'
BY EnvironmentKeeps, SourceFiresKeeps, PlainReadKeeps, PlainCompleteKeeps, ExactReadKeeps,
   ExactCompleteKeeps, StartKeeps, FinishReadKeeps, CancelReadKeeps, CancelReaderKeeps,
   StopReadSourceKeeps, StartFailsKeeps, HalfReadKeeps, StutterKeeps, Zenon DEF ReaderNext, Work

\* A sequence without repetition has a byte once or not at all.
LEMMA OccursOnce ==
    ASSUME NEW S, NEW s \in Seq(S), Once(s), NEW b
    PROVE  Occurs(b, s) = IF b \in Range(s) THEN 1 ELSE 0
<1>1. CASE b \in Range(s)
  <2>1. PICK i \in DOMAIN s : s[i] = b
    BY <1>1, Zenon DEF Range
  <2>2. {j \in DOMAIN s : s[j] = b} = {i}
    BY <2>1 DEF Once
  <2> QED
    BY <1>1, <2>2, FS_Singleton, Zenon DEF Occurs
<1>2. CASE b \notin Range(s)
  <2>1. {j \in DOMAIN s : s[j] = b} = {}
    BY <1>2, Zenon DEF Range
  <2> QED
    BY <1>2, <2>1, FS_EmptySet, Zenon DEF Occurs
<1> QED
  BY <1>1, <1>2

\* Sets of reads of which at most one has a byte.
LEMMA CountOne ==
    ASSUME NEW P, NEW Q, Q \subseteq P, \A r, x \in Q : r = x
    PROVE  Cardinality(Q) = IF Q = {} THEN 0 ELSE 1
<1>1. CASE Q = {}
  BY <1>1, FS_EmptySet
<1>2. CASE Q # {}
  <2>1. PICK r \in Q : TRUE
    BY <1>2
  <2>2. Q = {r}
    BY <2>1, Zenon
  <2> QED
    BY <1>2, <2>2, FS_Singleton
<1> QED
  BY <1>1, <1>2

\* The invariant gives the property.
LEMMA InvGives == ReaderInv => BytesKept
<1> SUFFICES ASSUME ReaderInv PROVE BytesKept
  OBVIOUS
<1>1. ReaderTypeOK
  BY DEF ReaderInv, Types, TaskPhase, ReaderTypeOK, Users
<1>2. ASSUME NEW b \in 1..next PROVE Times(b) = 1
  <2> DEFINE InRead == {r \in Reads : b \in Range(read[r].bytes)}
             InFly == {r \in Reads : b \in Range(fly[r])}
             N(h) == IF b \in Held[h] THEN 1 ELSE 0
  <2>1. PICK h \in Holders : b \in Held[h] /\ \A g \in Holders : b \in Held[g] => g = h
    BY <1>2, Zenon DEF ReaderInv, Conserved, Partition
  <2>2. /\ Occurs(b, buffer) = (IF b \in Range(buffer) THEN 1 ELSE 0)
        /\ Occurs(b, stash) = (IF b \in Range(stash) THEN 1 ELSE 0)
        /\ Occurs(b, out) = (IF b \in Range(out) THEN 1 ELSE 0)
    BY OccursOnce, Zenon DEF ReaderInv, Conserved, Types
  <2>3. \A r, x \in InRead : r = x
    <3>1. \A r \in InRead : <<"read", r>> = h
      BY <2>1, HeldIs, Zenon
    <3> QED
      BY <3>1
  <2>4. \A r, x \in InFly : r = x
    <3>1. \A r \in InFly : <<"fly", r>> = h
      BY <2>1, HeldIs, Zenon
    <3> QED
      BY <3>1
  <2>5. /\ Cardinality(InRead) = (IF InRead = {} THEN 0 ELSE 1)
        /\ Cardinality(InFly) = (IF InFly = {} THEN 0 ELSE 1)
    BY <2>3, <2>4, CountOne, Zenon
  <2>6. /\ b \in Range(buffer) <=> h = <<"buffer", 0>>
        /\ b \in Range(stash) <=> h = <<"stash", 0>>
        /\ b \in Range(out) <=> h = <<"out", 0>>
        /\ b \in lost <=> h = <<"lost", 0>>
        /\ InRead # {} <=> \E r \in Reads : h = <<"read", r>>
        /\ InFly # {} <=> \E r \in Reads : h = <<"fly", r>>
    <3>1. /\ b \in Range(buffer) <=> h = <<"buffer", 0>>
          /\ b \in Range(stash) <=> h = <<"stash", 0>>
          /\ b \in Range(out) <=> h = <<"out", 0>>
          /\ b \in lost <=> h = <<"lost", 0>>
      BY <2>1, HeldIs, Zenon
    <3>2. InRead # {} <=> \E r \in Reads : h = <<"read", r>>
      BY <2>1, HeldIs, ZenonT(30)
    <3>3. InFly # {} <=> \E r \in Reads : h = <<"fly", r>>
      BY <2>1, HeldIs, ZenonT(30)
    <3> QED
      BY <3>1, <3>2, <3>3, Zenon
  <2>7. \/ h = <<"buffer", 0>> \/ h = <<"stash", 0>> \/ h = <<"out", 0>> \/ h = <<"lost", 0>>
        \/ \E r \in Reads : h = <<"read", r>> \/ \E x \in Reads : h = <<"fly", x>>
    BY DEF Holders
  <2>8. Times(b) = Occurs(b, buffer) + Occurs(b, stash) + Occurs(b, out)
                   + (IF b \in lost THEN 1 ELSE 0) + Cardinality(InRead) + Cardinality(InFly)
    BY DEF Times
  <2> HIDE DEF InRead, InFly
  <2>9. CASE h \in {<<"buffer", 0>>, <<"stash", 0>>, <<"out", 0>>, <<"lost", 0>>}
    BY <2>2, <2>5, <2>6, <2>8, <2>9
  <2>10. CASE \E r \in Reads : h = <<"read", r>>
    BY <2>2, <2>5, <2>6, <2>8, <2>10
  <2>11. CASE \E r \in Reads : h = <<"fly", r>>
    BY <2>2, <2>5, <2>6, <2>8, <2>11
  <2> QED
    BY <2>7, <2>9, <2>10, <2>11, Zenon
<1>3. OrderKept
  <2>1. NoPlainCancelled => \A i \in 1..Len(out) : out[i] = 0 + i
    BY Zenon DEF ReaderInv, Order, Lined, RunFrom
  <2>2. DOMAIN out = 1..Len(out) /\ \A i \in 1..Len(out) : 0 + i = i
    BY DEF ReaderInv, Types
  <2> QED
    BY <2>1, <2>2, Zenon DEF OrderKept, StreamOrder
<1> QED
  BY <1>1, <1>2, <1>3, Zenon DEF BytesKept, BytesConserved

\* For any capacity, lengths and numbers of bytes and reads: whatever is read, finished
\* or cancelled, a byte taken from the socket is in exactly one place and never twice
\* (ciel_async_cancel, the completion of a late read; finish drops those of a read that
\* failed), and the task gets the bytes in order unless it cancels a plain read.
THEOREM BytesTheorem == ReaderSpec => []BytesKept
<1>1. ReaderInit => ReaderInv
  BY ReaderAssumption, InitHolds
<1>2. ReaderInv /\ [ReaderNext]_readerVars => ReaderInv'
  BY ReaderAssumption, NextKeeps
<1>3. ReaderInv => BytesKept
  BY InvGives
<1> QED
  BY <1>1, <1>2, <1>3, PTL DEF ReaderSpec
=============================================================================
