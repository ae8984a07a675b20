--------------------------- MODULE ConsoleProofs ----------------------------
(***************************************************************************)
(* Proofs about the logger and the live log, for every number of threads,  *)
(* every number of lines and every size of the text buffer.                *)
(***************************************************************************)
EXTENDS Console, SequenceTheorems, TLAPS

\* Where a thread is in bd_log and what is posted and appended.
ConsoleTypes ==
  /\ at \in [Threads -> {"out", "print", "sink"}]
  /\ calls \in [Threads -> 0 .. MaxCalls]
  /\ idle \in Seq(Lines) /\ shown \in Seq(Lines) /\ logbuf \in Seq(Lines)

\* The thread whose call is on its way has numbered its line; every line that
\* was posted is an earlier one.
CallNumbered == \A t \in Threads : at[t] # "out" => calls[t] >= 1

Earlier(line) ==
  /\ line.n <= calls[line.from]
  /\ at[line.from] # "out" => line.n < calls[line.from]

LinesEarlier ==
  /\ \A i \in DOMAIN shown : Earlier(shown[i])
  /\ \A i \in DOMAIN idle : Earlier(idle[i])

\* Posted lines of one thread are in order, and behind the appended ones.
IdleInOrder ==
  \A i, j \in DOMAIN idle :
    i < j /\ idle[i].from = idle[j].from => idle[i].n < idle[j].n

ShownFirst ==
  \A i \in DOMAIN shown, j \in DOMAIN idle :
    shown[i].from = idle[j].from => shown[i].n < idle[j].n

OrderInv ==
  /\ ConsoleTypes /\ CallNumbered /\ LinesEarlier
  /\ IdleInOrder /\ ShownFirst /\ ThreadOrderKept

-----------------------------------------------------------------------------
(* The order of one thread's lines.                                        *)

LEMMA OrderInit == Init => OrderInv
BY ConsoleAssumption DEF Init, OrderInv, ConsoleTypes, CallNumbered, LinesEarlier,
   IdleInOrder, ShownFirst, ThreadOrderKept, Lines

\* A new call gets a number above all lines of its thread.
LEMMA LogOrder ==
  ASSUME OrderInv, NEW t \in Threads, NEW level, Log(t, level)
  PROVE  OrderInv'
<1> USE DEF OrderInv
<1>1. /\ at[t] = "out" /\ calls[t] < MaxCalls
      /\ at' = [at EXCEPT ![t] = "print"] /\ calls' = [calls EXCEPT ![t] = @ + 1]
      /\ UNCHANGED <<idle, logbuf, shown>>
  BY DEF Log
<1>2. ConsoleTypes' /\ CallNumbered'
  BY <1>1, ConsoleAssumption DEF ConsoleTypes, CallNumbered
<1>3. ASSUME NEW line \in Lines, Earlier(line) PROVE Earlier(line)'
  <2>1. line.from \in Threads /\ line.n \in Nat
    BY DEF Lines
  <2>2. calls[line.from] \in Nat /\ calls'[line.from] \in Nat
    BY <1>2, <2>1 DEF ConsoleTypes
  <2>3. CASE line.from = t
    BY <1>1, <1>3, <2>1, <2>2, <2>3 DEF Earlier, ConsoleTypes
  <2>4. CASE line.from # t
    BY <1>1, <1>3, <2>1, <2>2, <2>4 DEF Earlier, ConsoleTypes
  <2> QED BY <2>3, <2>4
<1>4. LinesEarlier'
  <2>1. \A i \in DOMAIN shown : shown[i] \in Lines
    BY DEF ConsoleTypes
  <2>2. \A i \in DOMAIN idle : idle[i] \in Lines
    BY DEF ConsoleTypes
  <2> QED BY <1>1, <1>3, <2>1, <2>2 DEF LinesEarlier
<1>5. IdleInOrder' /\ ShownFirst' /\ ThreadOrderKept'
  BY <1>1 DEF IdleInOrder, ShownFirst, ThreadOrderKept
<1> QED BY <1>2, <1>4, <1>5

\* The section under g_lock numbers nothing and posts nothing.
LEMMA PrintOrder ==
  ASSUME OrderInv, NEW t \in Threads, PrintLine(t)
  PROVE  OrderInv'
<1> USE DEF OrderInv
<1>1. /\ at[t] = "print" /\ at' = [at EXCEPT ![t] = "sink"]
      /\ UNCHANGED <<calls, idle, logbuf, shown>>
  BY DEF PrintLine
<1>2. \A u \in Threads : at'[u] # "out" => at[u] # "out"
  BY <1>1 DEF ConsoleTypes
<1>3. ConsoleTypes' /\ CallNumbered'
  BY <1>1, <1>2 DEF ConsoleTypes, CallNumbered
<1>4. LinesEarlier'
  <2>0. \A line \in Lines : line.from \in Threads
    BY DEF Lines
  <2>1. \A i \in DOMAIN shown : shown[i].from \in Threads
    BY <2>0 DEF ConsoleTypes
  <2>2. \A i \in DOMAIN idle : idle[i].from \in Threads
    BY <2>0 DEF ConsoleTypes
  <2> QED BY <1>1, <1>2, <2>1, <2>2 DEF LinesEarlier, Earlier
<1>5. IdleInOrder' /\ ShownFirst' /\ ThreadOrderKept'
  BY <1>1 DEF IdleInOrder, ShownFirst, ThreadOrderKept
<1> QED BY <1>3, <1>4, <1>5

\* The sink is called without the lock, but before the thread's next call:
\* what it posts is newer than every line of the thread.
LEMMA SinkOrder ==
  ASSUME OrderInv, NEW t \in Threads, CallSink(t)
  PROVE  OrderInv'
<1> USE DEF OrderInv
<1>1. /\ at[t] = "sink" /\ at' = [at EXCEPT ![t] = "out"]
      /\ UNCHANGED <<calls, logbuf, shown>>
  BY DEF CallSink
<1>2. \A u \in Threads : at'[u] # "out" => at[u] # "out"
  BY <1>1 DEF ConsoleTypes
<1>3. \A i \in DOMAIN shown : shown[i] \in Lines
  BY DEF ConsoleTypes
<1>4. \A i \in DOMAIN idle : idle[i] \in Lines
  BY DEF ConsoleTypes
<1>5. \A line \in Lines : Earlier(line) => Earlier(line)'
  BY <1>1, <1>2 DEF Lines, Earlier
<1>6. CASE UNCHANGED idle
  <2>1. ConsoleTypes' /\ CallNumbered'
    BY <1>1, <1>2, <1>6 DEF ConsoleTypes, CallNumbered
  <2>2. LinesEarlier'
    BY <1>1, <1>3, <1>4, <1>5, <1>6 DEF LinesEarlier
  <2> QED BY <1>1, <1>6, <2>1, <2>2 DEF IdleInOrder, ShownFirst, ThreadOrderKept
<1>7. CASE idle' = Append(idle, Line(t))
  <2>1. Line(t) \in Lines /\ Line(t).from = t /\ Line(t).n = calls[t]
    <3>1. calls[t] \in 1 .. MaxCalls
      BY <1>1, ConsoleAssumption DEF ConsoleTypes, CallNumbered
    <3> QED BY <3>1 DEF Line, Lines
  <2>2. at'[t] = "out" /\ calls'[t] = calls[t] /\ calls[t] \in Nat
    BY <1>1, ConsoleAssumption DEF ConsoleTypes
  <2>3. /\ idle' \in Seq(Lines) /\ Len(idle') = Len(idle) + 1
        /\ DOMAIN idle' = 1 .. Len(idle) + 1 /\ DOMAIN idle = 1 .. Len(idle)
        /\ Len(idle) \in Nat
        /\ \A i \in 1 .. Len(idle) : idle'[i] = idle[i]
        /\ idle'[Len(idle) + 1] = Line(t)
    BY <1>7, <2>1 DEF ConsoleTypes
  <2>4. ConsoleTypes' /\ CallNumbered'
    BY <1>1, <1>2, <2>3 DEF ConsoleTypes, CallNumbered
  <2>5. LinesEarlier'
    <3>1. \A i \in DOMAIN shown' : Earlier(shown[i])'
      BY <1>1, <1>3, <1>5 DEF LinesEarlier
    <3>2. ASSUME NEW i \in DOMAIN idle' PROVE Earlier(idle[i])'
      <4>1. CASE i = Len(idle) + 1
        <5>1. idle'[i].from = t /\ idle'[i].n = calls[t]
          BY <2>1, <2>3, <4>1
        <5> QED BY <2>2, <5>1 DEF Earlier
      <4>2. CASE i # Len(idle) + 1
        <5>1. i \in DOMAIN idle /\ idle'[i] = idle[i]
          BY <2>3, <4>2
        <5>2. Earlier(idle[i]) /\ idle[i] \in Lines
          BY <1>4, <5>1 DEF LinesEarlier
        <5>3. idle[i].from \in Threads
          BY <5>2 DEF Lines
        <5> QED BY <1>1, <1>2, <5>1, <5>2, <5>3 DEF Earlier
      <4> QED BY <4>1, <4>2
    <3> QED BY <3>1, <3>2 DEF LinesEarlier
  <2>6. \A i \in DOMAIN idle : idle[i].from = t => idle[i].n < calls[t]
    BY <1>1 DEF LinesEarlier, Earlier
  <2>7. \A i \in DOMAIN shown : shown[i].from = t => shown[i].n < calls[t]
    BY <1>1 DEF LinesEarlier, Earlier
  <2>8. IdleInOrder'
    <3> SUFFICES ASSUME NEW i \in DOMAIN idle', NEW j \in DOMAIN idle', i < j,
                        idle'[i].from = idle'[j].from
                 PROVE  idle'[i].n < idle'[j].n
      BY DEF IdleInOrder
    <3>1. i \in DOMAIN idle /\ idle'[i] = idle[i]
      BY <2>3
    <3>2. CASE j = Len(idle) + 1
      BY <2>1, <2>3, <2>6, <3>1, <3>2
    <3>3. CASE j # Len(idle) + 1
      <4>1. j \in DOMAIN idle /\ idle'[j] = idle[j]
        BY <2>3, <3>3
      <4> QED BY <3>1, <4>1 DEF IdleInOrder
    <3> QED BY <3>2, <3>3
  <2>9. ShownFirst'
    <3> SUFFICES ASSUME NEW i \in DOMAIN shown, NEW j \in DOMAIN idle',
                        shown[i].from = idle'[j].from
                 PROVE  shown[i].n < idle'[j].n
      BY <1>1 DEF ShownFirst
    <3>1. CASE j = Len(idle) + 1
      BY <2>1, <2>3, <2>7, <3>1
    <3>2. CASE j # Len(idle) + 1
      <4>1. j \in DOMAIN idle /\ idle'[j] = idle[j]
        BY <2>3, <3>2
      <4> QED BY <4>1 DEF ShownFirst
    <3> QED BY <3>1, <3>2
  <2>10. ThreadOrderKept'
    BY <1>1 DEF ThreadOrderKept
  <2> QED BY <2>4, <2>5, <2>8, <2>9, <2>10
<1> QED BY <1>6, <1>7 DEF CallSink, Post

\* append_log_idle moves the oldest posted line behind all appended ones.
LEMMA AppendOrder == ASSUME OrderInv, AppendLogIdle PROVE OrderInv'
<1> USE DEF OrderInv
<1>1. /\ idle # <<>> /\ idle' = Tail(idle) /\ shown' = Append(shown, Head(idle))
      /\ logbuf' = Append(Trimmed(logbuf), Head(idle))
      /\ UNCHANGED <<at, calls>>
  BY DEF AppendLogIdle
<1>2. /\ idle \in Seq(Lines) /\ shown \in Seq(Lines) /\ logbuf \in Seq(Lines)
      /\ Len(idle) \in Nat \ {0} /\ DOMAIN idle = 1 .. Len(idle)
      /\ Len(shown) \in Nat /\ DOMAIN shown = 1 .. Len(shown)
  BY <1>1 DEF ConsoleTypes
<1>3. /\ Head(idle) = idle[1] /\ Head(idle) \in Lines
      /\ idle' \in Seq(Lines) /\ DOMAIN idle' = 1 .. Len(idle) - 1
      /\ \A i \in 1 .. Len(idle) - 1 : idle'[i] = idle[i + 1]
  BY <1>1, <1>2
<1>4. /\ shown' \in Seq(Lines) /\ DOMAIN shown' = 1 .. Len(shown) + 1
      /\ \A i \in 1 .. Len(shown) : shown'[i] = shown[i]
      /\ shown'[Len(shown) + 1] = idle[1]
  BY <1>1, <1>2, <1>3
<1>5. logbuf' \in Seq(Lines)
  <2>1. Trimmed(logbuf) \in Seq(Lines)
    <3> DEFINE m == LineCount(logbuf) - BD_LOG_MAX_LINES + 1
    <3>1. CASE LineCount(logbuf) > BD_LOG_MAX_LINES
      <4>1. Len(logbuf) \in Nat /\ m \in Int /\ m >= 1
        BY <1>2, <3>1, ConsoleAssumption DEF LineCount
      <4>2. \A i \in m .. Len(logbuf) : logbuf[i] \in Lines
        BY <1>2, <4>1
      <4>3. Trimmed(logbuf) = SubSeq(logbuf, m, Len(logbuf))
        BY <3>1 DEF Trimmed
      <4> HIDE DEF m
      <4> QED BY <4>1, <4>2, <4>3, SubSeqProperties
    <3>2. CASE ~(LineCount(logbuf) > BD_LOG_MAX_LINES)
      BY <1>2, <3>2 DEF Trimmed
    <3> QED BY <3>1, <3>2
  <2> QED BY <1>1, <1>3, <2>1
<1>6. ConsoleTypes' /\ CallNumbered'
  BY <1>1, <1>3, <1>4, <1>5 DEF ConsoleTypes, CallNumbered
<1>7. 1 \in DOMAIN idle
  BY <1>2
<1>8. LinesEarlier'
  <2>1. \A line : Earlier(line) => Earlier(line)'
    BY <1>1 DEF Earlier
  <2>2. ASSUME NEW i \in DOMAIN shown' PROVE Earlier(shown'[i])
    <3>1. CASE i = Len(shown) + 1
      BY <1>4, <1>7, <3>1 DEF LinesEarlier
    <3>2. CASE i # Len(shown) + 1
      <4>1. i \in DOMAIN shown /\ shown'[i] = shown[i]
        BY <1>2, <1>4, <3>2
      <4> QED BY <4>1 DEF LinesEarlier
    <3> QED BY <3>1, <3>2
  <2>3. ASSUME NEW i \in DOMAIN idle' PROVE Earlier(idle'[i])
    <3>1. i + 1 \in DOMAIN idle /\ idle'[i] = idle[i + 1]
      BY <1>2, <1>3
    <3> QED BY <3>1 DEF LinesEarlier
  <2> QED BY <1>1, <2>2, <2>3 DEF LinesEarlier, Earlier
<1>9. IdleInOrder'
  <2> SUFFICES ASSUME NEW i \in DOMAIN idle', NEW j \in DOMAIN idle', i < j,
                      idle'[i].from = idle'[j].from
               PROVE  idle'[i].n < idle'[j].n
    BY DEF IdleInOrder
  <2>1. /\ i + 1 \in DOMAIN idle /\ idle'[i] = idle[i + 1]
        /\ j + 1 \in DOMAIN idle /\ idle'[j] = idle[j + 1] /\ i + 1 < j + 1
    BY <1>2, <1>3
  <2> QED BY <2>1 DEF IdleInOrder
<1>10. ShownFirst'
  <2> SUFFICES ASSUME NEW i \in DOMAIN shown', NEW j \in DOMAIN idle',
                      shown'[i].from = idle'[j].from
               PROVE  shown'[i].n < idle'[j].n
    BY DEF ShownFirst
  <2>1. j + 1 \in DOMAIN idle /\ idle'[j] = idle[j + 1] /\ 1 < j + 1
    BY <1>2, <1>3
  <2>2. CASE i = Len(shown) + 1
    <3>1. shown'[i] = idle[1]
      BY <1>4, <2>2
    <3> QED BY <1>7, <2>1, <3>1 DEF IdleInOrder
  <2>3. CASE i # Len(shown) + 1
    <3>1. i \in DOMAIN shown /\ shown'[i] = shown[i]
      BY <1>2, <1>4, <2>3
    <3> QED BY <2>1, <3>1 DEF ShownFirst
  <2> QED BY <2>2, <2>3
<1>11. ThreadOrderKept'
  <2> SUFFICES ASSUME NEW i \in DOMAIN shown', NEW j \in DOMAIN shown', i < j,
                      shown'[i].from = shown'[j].from
               PROVE  shown'[i].n < shown'[j].n
    BY DEF ThreadOrderKept
  <2>1. i \in DOMAIN shown /\ shown'[i] = shown[i]
    BY <1>2, <1>4
  <2>2. CASE j = Len(shown) + 1
    <3>1. shown'[j] = idle[1]
      BY <1>4, <2>2
    <3> QED BY <1>7, <2>1, <3>1 DEF ShownFirst
  <2>3. CASE j # Len(shown) + 1
    <3>1. j \in DOMAIN shown /\ shown'[j] = shown[j]
      BY <1>2, <1>4, <2>3
    <3> QED BY <2>1, <3>1 DEF ThreadOrderKept
  <2> QED BY <2>2, <2>3
<1> QED BY <1>6, <1>8, <1>9, <1>10, <1>11

LEMMA OrderNext == OrderInv /\ [Next]_vars => OrderInv'
<1> SUFFICES ASSUME OrderInv, [Next]_vars PROVE OrderInv'
  OBVIOUS
<1>1. CASE UNCHANGED <<at, calls, idle, logbuf, shown>>
  BY <1>1 DEF OrderInv, ConsoleTypes, CallNumbered, LinesEarlier, Earlier, IdleInOrder,
              ShownFirst, ThreadOrderKept
<1>2. OnVerboseToggled \/ GuiRun \/ UNCHANGED vars
        => UNCHANGED <<at, calls, idle, logbuf, shown>>
  BY DEF OnVerboseToggled, GuiRun, vars
<1> QED BY <1>1, <1>2, LogOrder, PrintOrder, SinkOrder, AppendOrder DEF Next, Logging

LEMMA OrderInductive == Spec => []OrderInv
BY OrderInit, OrderNext, PTL DEF Spec

\* For every number of threads: the live log shows the lines of one thread
\* in the order it logged them, each at most once, though bd_log calls the
\* sink after it has given the lock back.
THEOREM ThreadOrderCorrect == Spec => []ThreadOrderKept
BY OrderInductive, PTL DEF OrderInv

-----------------------------------------------------------------------------
(* The newest lines.                                                       *)

\* What append_log_idle drops is exactly what no longer fits: the empty line
\* after the last line end is counted on both sides.
LEMMA AppendNewest == ASSUME OrderInv, NewestKept, AppendLogIdle PROVE NewestKept'
<1> DEFINE M == BD_LOG_MAX_LINES
           L == Len(shown)
           e == Head(idle)
<1>1. /\ idle # <<>> /\ shown' = Append(shown, e) /\ logbuf' = Append(Trimmed(logbuf), e)
  BY DEF AppendLogIdle
<1>2. /\ shown \in Seq(Lines) /\ logbuf \in Seq(Lines) /\ L \in Nat /\ M \in Nat \ {0}
      /\ e \in Lines
  BY <1>1, ConsoleAssumption DEF OrderInv, ConsoleTypes
<1>3. /\ shown' \in Seq(Lines) /\ Len(shown') = L + 1
      /\ \A i \in 1 .. L : shown'[i] = shown[i]
      /\ shown'[L + 1] = e
  BY <1>1, <1>2, AppendProperties
<1> HIDE DEF e
<1>4. CASE L < M
  <2>1. logbuf = shown
    <3>1. logbuf = SubSeq(shown, L - L + 1, L)
      BY <1>4 DEF NewestKept
    <3>2. L - L + 1 = 1
      BY <1>2
    <3> QED BY <1>2, <3>1, <3>2, SubSeqFull
  <2>2. Trimmed(logbuf) = shown
    <3>1. ~(LineCount(logbuf) > M)
      BY <1>2, <1>4, <2>1 DEF LineCount
    <3> QED BY <2>1, <3>1 DEF Trimmed
  <2>3. logbuf' = SubSeq(shown', 1, L + 1)
    BY <1>1, <1>3, <2>2, SubSeqFull
  <2>4. (IF L + 1 < M THEN L + 1 ELSE M) = L + 1 /\ L + 1 - (L + 1) + 1 = 1
    BY <1>2, <1>4
  <2> HIDE DEF M, L
  <2> QED BY <1>3, <2>3, <2>4 DEF NewestKept, M
<1>5. CASE ~(L < M)
  <2>1. logbuf = SubSeq(shown, L - M + 1, L)
    BY <1>5 DEF NewestKept
  <2>2. L - M + 1 \in Int /\ L - M + 1 >= 1 /\ L \in Int /\ L - M + 1 <= L
    BY <1>2, <1>5
  <2>3. /\ Len(logbuf) = M
        /\ \A i \in 1 .. M : logbuf[i] = shown[L - M + i]
    <3>1. \A i \in L - M + 1 .. L : shown[i] \in Lines
      BY <1>2, <2>2
    <3>2. /\ Len(logbuf) = IF L - M + 1 <= L THEN L - (L - M + 1) + 1 ELSE 0
          /\ \A i \in 1 .. L - (L - M + 1) + 1 : logbuf[i] = shown[L - M + 1 + i - 1]
      BY <2>1, <2>2, <3>1, SubSeqProperties
    <3>3. L - (L - M + 1) + 1 = M /\ \A i \in 1 .. M : L - M + 1 + i - 1 = L - M + i
      BY <1>2
    <3> QED BY <2>2, <3>2, <3>3
  <2> DEFINE b == Trimmed(logbuf)
  <2>4. b = SubSeq(logbuf, 2, M)
    <3>1. LineCount(logbuf) > M /\ LineCount(logbuf) - M + 1 = 2
      BY <1>2, <2>3 DEF LineCount
    <3> QED BY <2>3, <3>1 DEF Trimmed
  <2>5. b \in Seq(Lines) /\ Len(b) = M - 1 /\ \A i \in 1 .. M - 1 : b[i] = logbuf[i + 1]
    <3>1. \A i \in 2 .. M : logbuf[i] \in Lines
      BY <1>2, <2>3
    <3>2. /\ b \in Seq(Lines) /\ Len(b) = IF 2 <= M THEN M - 2 + 1 ELSE 0
          /\ \A i \in 1 .. M - 2 + 1 : b[i] = logbuf[2 + i - 1]
      BY <1>2, <2>4, <3>1, SubSeqProperties
    <3>3. M - 2 + 1 = M - 1 /\ \A i \in 1 .. M - 1 : 2 + i - 1 = i + 1
      BY <1>2
    <3> QED BY <1>2, <3>2, <3>3
  <2> HIDE DEF b
  <2>6. /\ logbuf' \in Seq(Lines) /\ Len(logbuf') = M /\ logbuf'[M] = e
        /\ \A i \in 1 .. M - 1 : logbuf'[i] = b[i]
    <3>1. logbuf' = Append(b, e)
      BY <1>1 DEF b
    <3>2. /\ logbuf' \in Seq(Lines) /\ Len(logbuf') = Len(b) + 1
          /\ \A i \in 1 .. Len(b) : logbuf'[i] = b[i]
          /\ logbuf'[Len(b) + 1] = e
      BY <1>2, <2>5, <3>1, AppendProperties
    <3> QED BY <1>2, <2>5, <3>2
  <2> DEFINE c == SubSeq(shown', L + 1 - M + 1, L + 1)
  <2>7. /\ c \in Seq(Lines) /\ Len(c) = M
        /\ \A i \in 1 .. M : c[i] = shown'[L + 1 - M + i]
    <3>1. L + 1 - M + 1 \in Int /\ L + 1 \in Int /\ L + 1 - M + 1 >= 1
          /\ L + 1 - M + 1 <= L + 1
      BY <1>2, <1>5
    <3>2. \A i \in L + 1 - M + 1 .. L + 1 : shown'[i] \in Lines
      BY <1>2, <1>3, <3>1
    <3>3. /\ c \in Seq(Lines)
          /\ Len(c) = IF L + 1 - M + 1 <= L + 1 THEN L + 1 - (L + 1 - M + 1) + 1 ELSE 0
          /\ \A i \in 1 .. L + 1 - (L + 1 - M + 1) + 1 :
               c[i] = shown'[L + 1 - M + 1 + i - 1]
      BY <3>1, <3>2, SubSeqProperties
    <3>4. /\ L + 1 - (L + 1 - M + 1) + 1 = M
          /\ \A i \in 1 .. M : L + 1 - M + 1 + i - 1 = L + 1 - M + i
      BY <1>2
    <3> QED BY <3>1, <3>3, <3>4
  <2> HIDE DEF c
  <2>8. ASSUME NEW i \in 1 .. M PROVE logbuf'[i] = c[i]
    <3>1. CASE i = M
      <4>1. L + 1 - M + i = L + 1
        BY <1>2, <3>1
      <4> QED BY <1>3, <2>6, <2>7, <3>1, <4>1
    <3>2. CASE i # M
      <4>1. i \in 1 .. M - 1 /\ i + 1 \in 1 .. M /\ L - M + (i + 1) = L + 1 - M + i
        BY <1>2, <3>2
      <4>2. logbuf'[i] = shown[L + 1 - M + i]
        BY <2>3, <2>5, <2>6, <4>1
      <4>3. L + 1 - M + i \in 1 .. L
        BY <1>2, <1>5, <4>1
      <4> QED BY <1>3, <2>7, <4>2, <4>3
    <3> QED BY <3>1, <3>2
  <2>9. logbuf' = c
    BY <2>6, <2>7, <2>8, SeqEqual
  <2>10. (IF L + 1 < M THEN L + 1 ELSE M) = M
    BY <1>2, <1>5
  <2>11. NewestKept' <=>
           logbuf' = SubSeq(shown', Len(shown') - (IF Len(shown') < M THEN Len(shown') ELSE M)
                                      + 1, Len(shown'))
    BY DEF NewestKept
  <2>12. (IF Len(shown') < M THEN Len(shown') ELSE M) = M
    BY <1>3, <2>10
  <2>13. logbuf' = SubSeq(shown', Len(shown') - M + 1, Len(shown'))
    <3>1. Len(shown') = L + 1 /\ Len(shown') - M + 1 = L + 1 - M + 1
      BY <1>2, <1>3
    <3> QED BY <2>9, <3>1 DEF c
  <2> QED BY <2>11, <2>12, <2>13, Zenon
<1> QED BY <1>4, <1>5

\* For every size of the buffer: it holds the newest lines without a gap, as
\* many as it may.
THEOREM NewestCorrect == Spec => []NewestKept
<1>1. Init => NewestKept
  <2> SUFFICES ASSUME Init PROVE NewestKept
    OBVIOUS
  <2>1. shown = <<>> /\ logbuf = <<>> /\ Len(shown) = 0
    BY DEF Init
  <2>2. SubSeq(shown, 0 - 0 + 1, 0) = <<>>
    BY SubSeqEmpty
  <2> QED BY <2>1, <2>2, ConsoleAssumption DEF NewestKept
<1>2. OrderInv /\ NewestKept /\ [Next]_vars => NewestKept'
  <2> SUFFICES ASSUME OrderInv, NewestKept, [Next]_vars PROVE NewestKept'
    OBVIOUS
  <2>1. CASE UNCHANGED <<logbuf, shown>>
    BY <2>1 DEF NewestKept
  <2>2. OnVerboseToggled \/ GuiRun \/ UNCHANGED vars => UNCHANGED <<logbuf, shown>>
    BY DEF OnVerboseToggled, GuiRun, vars
  <2>3. ASSUME NEW t \in Threads,
               Logging(t) \/ \E level \in {BD_LOG_WARN, BD_LOG_DEBUG} : Log(t, level)
        PROVE  UNCHANGED <<logbuf, shown>>
    BY <2>3 DEF Logging, PrintLine, CallSink, Log
  <2> QED BY <2>1, <2>2, <2>3, AppendNewest DEF Next
<1> QED BY <1>1, <1>2, OrderInductive, PTL DEF Spec

=============================================================================
