--------------------------- MODULE TcpPathProofs ----------------------------
(***************************************************************************)
(* Proofs about one intercepted connection, for every stream length, every *)
(* segment size, every initial sequence number and every mixture of lost,  *)
(* repeated and reordered frames and failing sends.                        *)
(***************************************************************************)
EXTENDS TcpPath, SequenceTheorems, WellFoundedInduction, TLAPS

\* A frame carries bytes of the first n, and its sequence number is the one
\* of its first byte -- also where the number wraps.
Genuine(f, n) ==
  /\ f \in Frames
  /\ f.to - f.from \in 1 .. MaxSeg
  /\ f.to <= n
  /\ f.seq = (Isn + f.from) % SeqSpace

\* bd_tcp_handle works on a packet of what the client has written and cuts
\* it inside.
HandlingInv ==
  /\ at # "idle" => Genuine(p, nxt)
  /\ at \in {"fake", "frag1", "frag2"} => split \in 1 .. PayloadLen(p) - 1

QueueInv == \A i \in DOMAIN queue : Genuine(queue[i], nxt)

NetInv == \A f \in net : Genuine(f, nxt)

\* Every byte the server holds is the one the client wrote at that offset.
BufInv == \A k \in 0 .. StreamLen - 1 : buf[k] = Missing \/ (buf[k] = k /\ k < nxt)

IInv == TypeOK /\ HandlingInv /\ QueueInv /\ NetInv /\ BufInv

\* Byte i is out, was dropped by the full queue, or waits in it.
OnTheWay(i) == i \in left \/ InQueue(i)

\* Between the two sends the first fragment's bytes are on their way if its
\* sendto succeeded: from then on the packet in hand is needed only for the rest.
FirstSent ==
  at = "frag2" /\ rc1 => \A i \in p.from .. p.from + split - 1 : OnTheWay(i)

\* Where every byte the client sent is.
Accounted == una <= nxt /\ NothingSwallowed /\ FirstSent

-----------------------------------------------------------------------------
(* Sequence numbers.                                                       *)

LEMMA Constants ==
  /\ StreamLen \in Nat /\ MaxSeg \in Nat \ {0} /\ SeqSpace \in Nat \ {0}
  /\ 2 * StreamLen <= SeqSpace /\ Isn \in 0 .. SeqSpace - 1 /\ QueueMax \in Nat \ {0}
BY TcpAssumption

\* Arithmetic modulo the sequence number space, once around in either
\* direction and twice downwards.
LEMMA ModAround ==
  ASSUME NEW S \in Nat \ {0}, NEW y \in 0 .. S - 1
  PROVE  y % S = y /\ (y + S) % S = y /\ (y - S) % S = y /\ (y - 2 * S) % S = y
OBVIOUS

LEMMA ModType ==
  ASSUME NEW x \in Int PROVE x % SeqSpace \in 0 .. SeqSpace - 1
BY Constants

\* The sequence number of byte k.
LEMMA SeqOf ==
  ASSUME NEW k \in 0 .. StreamLen - 1
  PROVE  \/ Isn + k < SeqSpace /\ (Isn + k) % SeqSpace = Isn + k
         \/ Isn + k >= SeqSpace /\ (Isn + k) % SeqSpace = Isn + k - SeqSpace
<1>1. CASE Isn + k < SeqSpace
  <2>1. Isn + k \in 0 .. SeqSpace - 1
    BY <1>1, Constants
  <2> QED BY <1>1, <2>1, Constants, ModAround
<1>2. CASE Isn + k >= SeqSpace
  <2> DEFINE y == Isn + k - SeqSpace
  <2>1. y \in 0 .. SeqSpace - 1 /\ Isn + k = y + SeqSpace
    BY <1>2, Constants
  <2> HIDE DEF y
  <2>2. (y + SeqSpace) % SeqSpace = y
    BY <2>1, Constants, ModAround
  <2> QED BY <1>2, <2>1, <2>2 DEF y
<1> QED BY <1>1, <1>2, Constants

\* What bd_tcp_handle adds to it for the second fragment, in uint32_t
\* arithmetic, is the number of that fragment's first byte.
LEMMA SecondSeqRight ==
  ASSUME NEW k \in Nat, NEW s \in Nat, k + s \in 0 .. StreamLen - 1
  PROVE  (((Isn + k) % SeqSpace) + s) % SeqSpace = (Isn + (k + s)) % SeqSpace
<1>1. k \in 0 .. StreamLen - 1 /\ k + s < SeqSpace
  BY Constants
<1>2. CASE (Isn + k) % SeqSpace = Isn + k
  BY <1>2, Constants
<1>3. CASE (Isn + k) % SeqSpace = Isn + k - SeqSpace /\ Isn + k >= SeqSpace
  <2> DEFINE y == Isn + (k + s) - SeqSpace
  <2>1. y \in 0 .. SeqSpace - 1 /\ Isn + k - SeqSpace + s = y
        /\ Isn + (k + s) = y + SeqSpace
    BY <1>1, <1>3, Constants
  <2> HIDE DEF y
  <2>2. y % SeqSpace = y /\ (y + SeqSpace) % SeqSpace = y
    BY <2>1, Constants, ModAround
  <2>3. (((Isn + k) % SeqSpace) + s) % SeqSpace = y % SeqSpace
    BY <1>3, <2>1
  <2>4. (Isn + (k + s)) % SeqSpace = (y + SeqSpace) % SeqSpace
    BY <2>1
  <2> QED BY <2>2, <2>3, <2>4
<1> QED BY <1>1, <1>2, <1>3, SeqOf

\* The offset nearest to the first gap r for the number of byte k is k: the
\* stream is at most half of the sequence number space.
LEMMA NearestRight ==
  ASSUME NEW k \in 0 .. StreamLen - 1, NEW r \in 0 .. StreamLen,
         NEW d, d = (((Isn + k) % SeqSpace) - (Isn + r)) % SeqSpace
  PROVE  r + (IF d < SeqSpace \div 2 THEN d ELSE d - SeqSpace) = k
<1> DEFINE S == SeqSpace
<1>1. StreamLen <= S \div 2 /\ S - StreamLen >= S \div 2
  BY Constants
<1>2. PICK x \in {k - r, k - r - S} : d = x % S
  <2>1. (Isn + k) % S \in {Isn + k, Isn + k - S}
    BY SeqOf
  <2>2. \/ ((Isn + k) % S) - (Isn + r) = k - r
        \/ ((Isn + k) % S) - (Isn + r) = k - r - S
    BY <2>1, Constants
  <2> QED BY <2>2
<1>3. CASE k >= r
  <2>1. k - r \in 0 .. S - 1 /\ k - r < StreamLen
    BY <1>3, Constants
  <2>2. (k - r) % S = k - r /\ (k - r - S) % S = k - r
    BY <2>1, Constants, ModAround
  <2>3. d = k - r
    BY <1>2, <2>2
  <2> QED BY <1>1, <2>1, <2>3, Constants
<1>4. CASE k < r
  <2> DEFINE y == k - r + S
  <2>1. /\ y \in 0 .. S - 1 /\ y >= S - StreamLen
        /\ k - r = y - S /\ k - r - S = y - 2 * S
    BY <1>4, Constants
  <2> HIDE DEF y
  <2>2. (y - S) % S = y /\ (y - 2 * S) % S = y
    BY <2>1, Constants, ModAround
  <2>3. d = y
    BY <1>2, <2>1, <2>2
  <2>4. ~(d < S \div 2)
    BY <1>1, <2>1, <2>3, Constants
  <2>5. r + (d - S) = k
    BY <2>1, <2>3, Constants
  <2> QED BY <2>4, <2>5
<1> QED BY <1>3, <1>4, Constants

-----------------------------------------------------------------------------
(* Frames.                                                                 *)

\* A frame whose payload lies in the stream.
LEMMA FrameFields ==
  ASSUME NEW from \in 0 .. StreamLen, NEW to \in 0 .. StreamLen, NEW fin \in BOOLEAN,
         NEW seq \in 0 .. SeqSpace - 1, NEW ttl \in {"fake", "real"}
  PROVE  LET f == Frame(from, to, fin, seq, ttl) IN
         f \in Frames /\ f.from = from /\ f.to = to /\ f.seq = seq
BY DEF Frame, Frames

LEMMA GenuineFrame ==
  ASSUME NEW n \in 0 .. StreamLen, NEW from \in Nat, NEW to \in Nat, NEW fin \in BOOLEAN,
         NEW seq, NEW ttl \in {"fake", "real"},
         to - from \in 1 .. MaxSeg, to <= n, seq = (Isn + from) % SeqSpace
  PROVE  Genuine(Frame(from, to, fin, seq, ttl), n)
<1>1. from \in 0 .. StreamLen /\ to \in 0 .. StreamLen /\ Isn + from \in Int
  BY Constants
<1>2. seq \in 0 .. SeqSpace - 1
  BY <1>1, ModType
<1> QED BY <1>1, <1>2, FrameFields DEF Genuine

LEMMA GenuineFields ==
  ASSUME NEW n \in 0 .. StreamLen, NEW f, Genuine(f, n)
  PROVE  /\ f \in Frames /\ f.from \in Nat /\ f.to \in Nat /\ f.fin \in BOOLEAN
         /\ f.from \in 0 .. StreamLen - 1 /\ f.to \in 0 .. StreamLen
         /\ f.from < f.to /\ f.to <= n /\ f.to - f.from \in 1 .. MaxSeg
         /\ f.seq = (Isn + f.from) % SeqSpace
<1>1. /\ f \in Frames /\ f.to - f.from \in 1 .. MaxSeg /\ f.to <= n
      /\ f.seq = (Isn + f.from) % SeqSpace
  BY DEF Genuine
<1>2. f.from \in 0 .. StreamLen /\ f.to \in 0 .. StreamLen /\ f.fin \in BOOLEAN
  BY <1>1 DEF Frames
<1> QED BY <1>1, <1>2, Constants

\* The client may have written more since.
LEMMA GenuineLater ==
  ASSUME NEW n \in 0 .. StreamLen, NEW m \in 0 .. StreamLen, n <= m, NEW f, Genuine(f, n)
  PROVE  Genuine(f, m)
<1>1. f.to \in Nat /\ f.to <= n
  BY GenuineFields
<1>2. f.to <= m
  BY <1>1
<1> QED BY <1>2 DEF Genuine

\* The three frames of bd_tcp_handle: the copy with the short TTL and the two
\* fragments on either side of the split.
LEMMA CutGenuine ==
  ASSUME NEW n \in 0 .. StreamLen, NEW q, Genuine(q, n), NEW s \in 1 .. PayloadLen(q) - 1
  PROVE  /\ Genuine(Frame(q.from, q.to, q.fin, q.seq, "fake"), n)
         /\ Genuine(Frame(q.from, q.from + s, FALSE, q.seq, "real"), n)
         /\ Genuine(Frame(q.from + s, q.to, q.fin, SecondSeq(q, s), "real"), n)
<1>1. /\ q.from \in Nat /\ q.to \in Nat /\ q.fin \in BOOLEAN /\ q.to \in 0 .. StreamLen
      /\ q.to <= n /\ q.to - q.from \in 1 .. MaxSeg
      /\ q.seq = (Isn + q.from) % SeqSpace
  BY GenuineFields
<1>2. s \in Nat /\ s >= 1 /\ s < q.to - q.from
  BY <1>1 DEF PayloadLen
<1>3. Genuine(Frame(q.from, q.to, q.fin, q.seq, "fake"), n)
  BY <1>1, GenuineFrame
<1>4. Genuine(Frame(q.from, q.from + s, FALSE, q.seq, "real"), n)
  <2> DEFINE to  == q.from + s
             fin == FALSE
  <2>2. to \in Nat /\ to - q.from \in 1 .. MaxSeg /\ to <= n
    BY <1>1, <1>2, Constants
  <2>3. fin \in BOOLEAN
    OBVIOUS
  <2> HIDE DEF to, fin
  <2>4. Genuine(Frame(q.from, to, fin, q.seq, "real"), n)
    BY <1>1, <2>2, <2>3, GenuineFrame
  <2> QED BY <2>4 DEF to, fin
<1>5. Genuine(Frame(q.from + s, q.to, q.fin, SecondSeq(q, s), "real"), n)
  <2>1. q.from + s \in Nat /\ q.to - (q.from + s) \in 1 .. MaxSeg
    BY <1>1, <1>2, Constants
  <2>2. q.from + s \in 0 .. StreamLen - 1
    BY <1>1, <1>2, Constants
  <2>3. SecondSeq(q, s) = (Isn + (q.from + s)) % SeqSpace
    BY <1>1, <1>2, <2>2, SecondSeqRight DEF SecondSeq
  <2> DEFINE from == q.from + s
             seq  == SecondSeq(q, s)
  <2>4. from \in Nat /\ q.to - from \in 1 .. MaxSeg /\ seq = (Isn + from) % SeqSpace
    BY <2>1, <2>3
  <2> HIDE DEF from, seq
  <2>5. Genuine(Frame(from, q.to, q.fin, seq, "real"), n)
    BY <1>1, <2>4, GenuineFrame
  <2> QED BY <2>5 DEF from, seq
<1> QED BY <1>3, <1>4, <1>5

-----------------------------------------------------------------------------
(* The queue and the network.                                              *)

QueueType == queue \in Seq(Frames) /\ Len(queue) <= QueueMax

LEMMA EnqueueInv ==
  ASSUME QueueType, QueueInv, NEW n \in 0 .. StreamLen, nxt \in 0 .. StreamLen, nxt <= n,
         nxt' = n, NEW f, Genuine(f, n), Enqueue(f)
  PROVE  QueueType' /\ QueueInv'
<1>1. \A i \in DOMAIN queue : Genuine(queue[i], n)
  BY GenuineLater DEF QueueInv
<1>2. CASE Len(queue) < QueueMax
  <2>1. queue' = Append(queue, f) /\ f \in Frames
    BY <1>2 DEF Enqueue, Genuine
  <2>2. /\ queue' \in Seq(Frames) /\ Len(queue') = Len(queue) + 1 /\ Len(queue) \in Nat
        /\ DOMAIN queue = 1 .. Len(queue) /\ DOMAIN queue' = 1 .. Len(queue) + 1
        /\ \A i \in 1 .. Len(queue) : queue'[i] = queue[i]
        /\ queue'[Len(queue) + 1] = f
    BY <2>1 DEF QueueType
  <2>3. QueueType'
    BY <1>2, <2>2, Constants DEF QueueType
  <2>4. ASSUME NEW i \in DOMAIN queue' PROVE Genuine(queue'[i], n)
    <3>1. CASE i = Len(queue) + 1
      BY <2>2, <3>1
    <3>2. CASE i # Len(queue) + 1
      <4>1. i \in DOMAIN queue /\ queue'[i] = queue[i]
        BY <2>2, <3>2
      <4> QED BY <1>1, <4>1
    <3> QED BY <3>1, <3>2
  <2> QED BY <2>3, <2>4 DEF QueueInv
<1>3. CASE ~(Len(queue) < QueueMax)
  BY <1>1, <1>3 DEF Enqueue, QueueType, QueueInv
<1> QED BY <1>2, <1>3

\* A genuine frame carries bytes of the stream.
LEMMA CarriedType ==
  ASSUME NEW n \in 0 .. StreamLen, NEW f, Genuine(f, n)
  PROVE  Carried(f) \subseteq 0 .. StreamLen - 1 /\ Dropped(f) \subseteq 0 .. StreamLen - 1
<1>1. f.from \in 0 .. StreamLen - 1 /\ f.to \in 0 .. StreamLen
  BY GenuineFields
<1>2. f.from .. f.to - 1 \subseteq 0 .. StreamLen - 1
  BY <1>1, Constants
<1> QED BY <1>2 DEF Carried, Dropped

\* bd_send_tcp: marked frames go out, others meet the queue again.
LEMMA SendInv ==
  ASSUME TypeOK, QueueInv, NetInv, nxt' = nxt, NEW f, Genuine(f, nxt), NEW ok \in BOOLEAN,
         SendTcp(f, ok)
  PROVE  /\ QueueType' /\ QueueInv' /\ net' \subseteq Frames /\ NetInv'
         /\ left' \subseteq 0 .. StreamLen - 1
<1>1. QueueType /\ nxt \in 0 .. StreamLen /\ nxt <= nxt /\ net \subseteq Frames
  BY Constants DEF TypeOK, QueueType
<1>4. left' \subseteq 0 .. StreamLen - 1
  <2>1. left' \subseteq left \cup Carried(f) \cup Dropped(f)
    BY DEF SendTcp
  <2> QED BY <1>1, <2>1, CarriedType DEF TypeOK
<1>2. CASE UNCHANGED queue
  <2>1. QueueType' /\ QueueInv'
    BY <1>1, <1>2 DEF QueueType, QueueInv
  <2>2. net' \subseteq net \cup {f}
    BY <1>2 DEF SendTcp
  <2> QED BY <1>1, <1>4, <2>1, <2>2 DEF NetInv, Genuine
<1>3. CASE Enqueue(f) /\ UNCHANGED net
  BY <1>1, <1>3, <1>4, EnqueueInv DEF NetInv
<1> QED BY <1>2, <1>3 DEF SendTcp

-----------------------------------------------------------------------------
(* The first gap: the server's cumulative acknowledgement.                 *)

IsGap(b, n) ==
  /\ n \in 0 .. StreamLen
  /\ \A i \in 0 .. n - 1 : b[i] # Missing
  /\ n = StreamLen \/ b[n] = Missing

FirstGap(b) == CHOOSE n \in 0 .. StreamLen :
                 /\ \A i \in 0 .. n - 1 : b[i] # Missing
                 /\ n = StreamLen \/ b[n] = Missing

LEMMA RcvNxtIsFirstGap == RcvNxt = FirstGap(buf)
BY DEF RcvNxt, FirstGap

\* A non-empty set of stream offsets has a least one.
LEMMA LeastOffset ==
  ASSUME NEW T \in SUBSET Nat, T # {}
  PROVE  \E k \in T : \A i \in T : k <= i
<1> DEFINE R == OpToRel(<, Nat)
<1>1. IsWellFoundedOn(R, Nat)
  BY NatLessThanWellFounded
<1>2. R = {ss \in Nat \X Nat : ss[1] < ss[2]}
  BY Zenon DEF OpToRel
<1> HIDE DEF R
<1>3. PICK k \in T : \A i \in T : ~ (<<i, k>> \in R)
  BY <1>1, WFMin
<1>4. ASSUME NEW i \in T PROVE k <= i
  <2>1. i \in Nat /\ k \in Nat
    OBVIOUS
  <2>2. i < k => <<i, k>> \in R
    BY <1>2, <2>1
  <2> QED BY <1>3, <2>1, <2>2
<1> QED BY <1>4

\* There is one, and only one.
LEMMA GapExists == ASSUME NEW b PROVE IsGap(b, FirstGap(b))
<1> DEFINE T == {n \in 0 .. StreamLen : n = StreamLen \/ b[n] = Missing}
<1>1. T \in SUBSET Nat /\ StreamLen \in T
  BY Constants
<1>2. PICK n \in T : \A i \in T : n <= i
  BY <1>1, LeastOffset
<1>3. ASSUME NEW i \in 0 .. n - 1 PROVE b[i] # Missing
  <2>1. i \in 0 .. StreamLen /\ ~(n <= i)
    BY <1>1, Constants
  <2>2. i \notin T
    BY <1>2, <2>1
  <2> QED BY <2>1, <2>2
<1>4. \E m \in 0 .. StreamLen : /\ \A i \in 0 .. m - 1 : b[i] # Missing
                                /\ m = StreamLen \/ b[m] = Missing
  BY <1>3
<1> QED BY <1>4 DEF IsGap, FirstGap

LEMMA GapUnique ==
  ASSUME NEW b, NEW m, NEW n, IsGap(b, m), IsGap(b, n)
  PROVE  m = n
<1>1. m \in Int /\ n \in Int /\ m <= StreamLen /\ n <= StreamLen /\ m >= 0 /\ n >= 0
  BY Constants DEF IsGap
<1>2. ~(m < n)
  <2> SUFFICES ASSUME m < n PROVE FALSE
    OBVIOUS
  <2>1. m \in 0 .. n - 1 /\ m # StreamLen
    BY <1>1, Constants
  <2> QED BY <2>1 DEF IsGap
<1>3. ~(n < m)
  <2> SUFFICES ASSUME n < m PROVE FALSE
    OBVIOUS
  <2>1. n \in 0 .. m - 1 /\ n # StreamLen
    BY <1>1, Constants
  <2> QED BY <2>1 DEF IsGap
<1> QED BY <1>1, <1>2, <1>3

LEMMA RcvNxtType == RcvNxt \in 0 .. StreamLen
BY RcvNxtIsFirstGap, GapExists DEF IsGap

\* A genuine frame is put where its bytes belong, wherever the gap is.
LEMMA PlacedRight ==
  ASSUME TypeOK, BufInv, NEW f, Genuine(f, nxt)
  PROVE  /\ Placed(f) \in [0 .. StreamLen - 1 -> {Missing} \cup 0 .. StreamLen - 1]
         /\ \A k \in 0 .. StreamLen - 1 :
              /\ buf[k] # Missing => Placed(f)[k] = buf[k]
              /\ Placed(f)[k] = Missing \/ (Placed(f)[k] = k /\ k < nxt)
<1>1. nxt \in 0 .. StreamLen /\ DOMAIN buf = 0 .. StreamLen - 1
  BY DEF TypeOK
<1>2. /\ f.from \in 0 .. StreamLen - 1 /\ f.to \in 0 .. StreamLen /\ f.to <= nxt
      /\ f.from < f.to /\ f.seq = (Isn + f.from) % SeqSpace
  BY <1>1, GenuineFields
<1>3. Offset(f.seq) = f.from
  <2> DEFINE d == (((Isn + f.from) % SeqSpace) - (Isn + RcvNxt)) % SeqSpace
  <2>1. RcvNxt + (IF d < SeqSpace \div 2 THEN d ELSE d - SeqSpace) = f.from
    BY <1>2, RcvNxtType, NearestRight
  <2> QED BY <1>2, <2>1 DEF Offset
<1>4. Placed(f) =
        [k \in 0 .. StreamLen - 1 |->
           IF buf[k] = Missing /\ k - f.from \in 0 .. (f.to - f.from) - 1
           THEN f.from + (k - f.from) ELSE buf[k]]
  BY <1>1, <1>3 DEF Placed
<1>5. ASSUME NEW k \in 0 .. StreamLen - 1
      PROVE  /\ Placed(f)[k] \in {Missing} \cup 0 .. StreamLen - 1
             /\ buf[k] # Missing => Placed(f)[k] = buf[k]
             /\ Placed(f)[k] = Missing \/ (Placed(f)[k] = k /\ k < nxt)
  <2>1. buf[k] \in {Missing} \cup 0 .. StreamLen - 1
    BY DEF TypeOK
  <2>2. CASE buf[k] = Missing /\ k - f.from \in 0 .. (f.to - f.from) - 1
    <3>1. f.from \in Int /\ f.to \in Int /\ nxt \in Int /\ k \in Int
      BY <1>1, <1>2, Constants
    <3>2. f.from + (k - f.from) = k /\ k < nxt
      BY <1>2, <2>2, <3>1
    <3>3. Placed(f)[k] = f.from + (k - f.from)
      BY <1>4, <2>2
    <3> QED BY <2>2, <3>2, <3>3
  <2>3. CASE ~(buf[k] = Missing /\ k - f.from \in 0 .. (f.to - f.from) - 1)
    BY <1>4, <2>1, <2>3 DEF BufInv
  <2> QED BY <2>2, <2>3
<1>6. Placed(f) \in [0 .. StreamLen - 1 -> {Missing} \cup 0 .. StreamLen - 1]
  BY <1>4, <1>5
<1> QED BY <1>5, <1>6

-----------------------------------------------------------------------------
(* The inductive invariant.                                                *)

LEMMA InitInv == Init => IInv
<1> SUFFICES ASSUME Init PROVE IInv
  OBVIOUS
<1>0. marked \in BOOLEAN /\ rc1 \in BOOLEAN
  BY TcpAssumption DEF Init
<1>1. NoPacket \in Frames
  <2>1. 0 \in 0 .. StreamLen /\ 0 \in 0 .. SeqSpace - 1
    BY Constants
  <2> QED BY <2>1 DEF NoPacket, Frame, Frames
<1>2. /\ una = 0 /\ nxt = 0 /\ queue = <<>> /\ at = "idle" /\ p = NoPacket /\ split = 0
      /\ net = {} /\ buf = [i \in 0 .. StreamLen - 1 |-> Missing] /\ left = {}
  BY DEF Init
<1>3. TypeOK
  BY <1>0, <1>1, <1>2, Constants DEF TypeOK
<1> QED BY <1>2, <1>3, Constants
        DEF IInv, HandlingInv, QueueInv, NetInv, BufInv

\* The client writes new bytes or repeats old ones.
LEMMA ClientSendInv == IInv /\ ClientSend => IInv'
<1> SUFFICES ASSUME IInv, ClientSend PROVE IInv'
  OBVIOUS
<1> USE DEF IInv
<1>1. PICK from \in {una, nxt}, to \in 1 .. StreamLen :
        /\ to - from \in 1 .. MaxSeg
        /\ \E fin \in {FALSE} \cup {to = StreamLen} :
             LET f == Frame(from, to, fin, (Isn + from) % SeqSpace, "real") IN
             Enqueue(f) /\ left' = (left \ Carried(f)) \cup Dropped(f)
        /\ nxt' = IF to > nxt THEN to ELSE nxt
  BY DEF ClientSend
<1>2. PICK fin \in BOOLEAN :
        LET f == Frame(from, to, fin, (Isn + from) % SeqSpace, "real") IN
        Enqueue(f) /\ left' = (left \ Carried(f)) \cup Dropped(f)
  BY <1>1
<1>3. /\ from \in Nat /\ to \in Nat /\ nxt \in 0 .. StreamLen /\ nxt' \in 0 .. StreamLen
      /\ nxt <= nxt' /\ to <= nxt'
  BY <1>1, Constants DEF TypeOK
<1>4. UNCHANGED <<marked, una, at, p, split, rc1, net, buf>>
  BY DEF ClientSend
<1>5. Genuine(Frame(from, to, fin, (Isn + from) % SeqSpace, "real"), nxt')
  BY <1>1, <1>3, GenuineFrame
<1>6. QueueType' /\ QueueInv'
  BY <1>2, <1>3, <1>5, EnqueueInv DEF TypeOK, QueueType
<1>7. HandlingInv'
  BY <1>3, <1>4, GenuineLater DEF HandlingInv, PayloadLen
<1>8. NetInv'
  BY <1>3, <1>4, GenuineLater DEF NetInv
<1>9. BufInv'
  <2>1. \A k \in 0 .. StreamLen - 1 : k < nxt => k < nxt'
    BY <1>3, Constants
  <2> QED BY <1>4, <2>1 DEF BufInv
<1>10. left' \subseteq 0 .. StreamLen - 1
  BY <1>2, <1>3, <1>5, CarriedType DEF TypeOK
<1>11. TypeOK'
  BY <1>3, <1>4, <1>6, <1>10 DEF TypeOK, QueueType
<1> QED BY <1>6, <1>7, <1>8, <1>9, <1>11

\* packet_cb takes a packet and lets it through or begins to split it.
LEMMA TakeInv == IInv /\ Take => IInv'
<1> SUFFICES ASSUME IInv, Take PROVE IInv'
  OBVIOUS
<1> USE DEF IInv
<1> DEFINE q == Head(queue)
<1>1. /\ at = "idle" /\ queue # <<>> /\ queue' = Tail(queue)
      /\ UNCHANGED <<marked, una, nxt, rc1, buf>>
  BY DEF Take
<1>2. /\ queue \in Seq(Frames) /\ Len(queue) \in Nat \ {0} /\ Len(queue) <= QueueMax
      /\ DOMAIN queue = 1 .. Len(queue) /\ nxt \in 0 .. StreamLen
  BY <1>1 DEF TypeOK
<1>3. q = queue[1] /\ 1 \in DOMAIN queue
  BY <1>2
<1>4. Genuine(q, nxt)
  BY <1>3 DEF QueueInv
<1>5. QueueType' /\ QueueInv'
  <2>1. /\ queue' \in Seq(Frames) /\ Len(queue') = Len(queue) - 1
        /\ DOMAIN queue' = 1 .. Len(queue) - 1
        /\ \A i \in 1 .. Len(queue) - 1 : queue'[i] = queue[i + 1]
    BY <1>1, <1>2
  <2>2. \A i \in DOMAIN queue' : i + 1 \in DOMAIN queue /\ queue'[i] = queue[i + 1]
    BY <1>2, <2>1
  <2> QED BY <1>1, <1>2, <2>1, <2>2, Constants DEF QueueType, QueueInv
<1> HIDE DEF q
<1>6. CASE Accept(q) /\ UNCHANGED <<at, p, split>>
  <2>1. net' \subseteq Frames /\ NetInv'
    BY <1>1, <1>4, <1>6 DEF Accept, TypeOK, NetInv, Genuine
  <2>2. left' \subseteq 0 .. StreamLen - 1
    BY <1>2, <1>4, <1>6, CarriedType DEF Accept, TypeOK
  <2> QED BY <1>1, <1>5, <1>6, <2>1, <2>2 DEF TypeOK, QueueType, HandlingInv, BufInv
<1>7. ASSUME NEW s \in ParserOffsets(PayloadLen(q)),
             ~(SplitAt(s, PayloadLen(q)) >= PayloadLen(q)),
             at' = "fake", p' = q, split' = SplitAt(s, PayloadLen(q)), UNCHANGED <<net, left>>
      PROVE  IInv'
  <2>1. q \in Frames /\ q.to - q.from \in 1 .. MaxSeg
    BY <1>4 DEF Genuine
  <2> DEFINE len == PayloadLen(q)
  <2>2. len \in 1 .. MaxSeg /\ len \in Nat /\ s \in Int
    BY <2>1, Constants DEF PayloadLen, ParserOffsets
  <2> HIDE DEF len
  <2>3. SplitAt(s, len) \in Int /\ SplitAt(s, len) >= 1 /\ ~(SplitAt(s, len) >= len)
    BY <1>7, <2>2 DEF SplitAt, len
  <2>4. split' \in 1 .. len - 1 /\ split' \in 0 .. MaxSeg
    BY <1>7, <2>2, <2>3, Constants DEF len
  <2>5. HandlingInv'
    BY <1>1, <1>4, <1>7, <2>4 DEF HandlingInv, len, PayloadLen
  <2>6. NetInv' /\ BufInv'
    BY <1>1, <1>7 DEF NetInv, BufInv
  <2>7. TypeOK'
    BY <1>1, <1>5, <1>7, <2>1, <2>4 DEF TypeOK, QueueType
  <2> QED BY <1>5, <2>5, <2>6, <2>7
<1> QED BY <1>6, <1>7 DEF Take, q

\* Each of the three sends puts a genuine frame on its way, or none.
LEMMA SendingInv == IInv /\ (SendFake \/ SendFirst \/ SendSecond) => IInv'
<1> SUFFICES ASSUME IInv, SendFake \/ SendFirst \/ SendSecond PROVE IInv'
  OBVIOUS
<1> USE DEF IInv
<1>1. /\ Genuine(p, nxt) /\ split \in 1 .. PayloadLen(p) - 1 /\ nxt \in 0 .. StreamLen
  BY DEF HandlingInv, SendFake, SendFirst, SendSecond, TypeOK
<1>2. UNCHANGED <<marked, una, nxt, buf>>
  BY DEF SendFake, SendFirst, SendSecond
<1>3. BufInv'
  BY <1>2 DEF BufInv
<1>4. CASE SendFake
  <2> DEFINE f == Frame(p.from, p.to, p.fin, p.seq, "fake")
  <2>1. PICK ok \in BOOLEAN : SendTcp(f, ok)
    BY <1>4 DEF SendFake
  <2>2. Genuine(f, nxt)
    BY <1>1, CutGenuine
  <2> HIDE DEF f
  <2>3. /\ QueueType' /\ QueueInv' /\ net' \subseteq Frames /\ NetInv'
        /\ left' \subseteq 0 .. StreamLen - 1
    BY <1>2, <2>1, <2>2, SendInv
  <2>4. at' = "frag1" /\ UNCHANGED <<p, split, rc1>>
    BY <1>4 DEF SendFake
  <2>5. HandlingInv'
    BY <1>1, <1>2, <2>4 DEF HandlingInv, PayloadLen
  <2>6. TypeOK'
    BY <1>2, <2>3, <2>4 DEF TypeOK, QueueType
  <2> QED BY <1>3, <2>3, <2>5, <2>6
<1>5. CASE SendFirst
  <2> DEFINE f == Frame(p.from, p.from + split, FALSE, p.seq, "real")
  <2>1. PICK ok \in BOOLEAN : SendTcp(f, ok) /\ rc1' = ok
    BY <1>5 DEF SendFirst
  <2>2. Genuine(f, nxt)
    BY <1>1, CutGenuine
  <2> HIDE DEF f
  <2>3. /\ QueueType' /\ QueueInv' /\ net' \subseteq Frames /\ NetInv'
        /\ left' \subseteq 0 .. StreamLen - 1
    BY <1>2, <2>1, <2>2, SendInv
  <2>4. at' = "frag2" /\ UNCHANGED <<p, split>>
    BY <1>5 DEF SendFirst
  <2>5. HandlingInv'
    BY <1>1, <1>2, <2>4 DEF HandlingInv, PayloadLen
  <2>6. TypeOK'
    BY <1>2, <2>1, <2>3, <2>4 DEF TypeOK, QueueType
  <2> QED BY <1>3, <2>3, <2>5, <2>6
<1>6. CASE SendSecond
  <2> DEFINE f == Frame(p.from + split, p.to, p.fin, SecondSeq(p, split), "real")
  <2>1. PICK ok \in BOOLEAN :
          /\ SendTcp(f, ok)
          /\ IF InjectionFailed(rc1, ok)
             THEN at' = "passed" /\ UNCHANGED p
             ELSE at' = "idle" /\ p' = NoPacket
    BY <1>6 DEF SendSecond
  <2>2. Genuine(f, nxt)
    BY <1>1, CutGenuine
  <2> HIDE DEF f
  <2>3. /\ QueueType' /\ QueueInv' /\ net' \subseteq Frames /\ NetInv'
        /\ left' \subseteq 0 .. StreamLen - 1
    BY <1>2, <2>1, <2>2, SendInv
  <2>4. split' = 0 /\ rc1' = FALSE /\ split' \in 0 .. MaxSeg
    BY <1>6, Constants DEF SendSecond
  <2>5. CASE InjectionFailed(rc1, ok)
    <3>1. at' = "passed" /\ UNCHANGED p
      BY <2>1, <2>5
    <3>2. HandlingInv'
      BY <1>1, <1>2, <3>1 DEF HandlingInv
    <3>3. TypeOK'
      BY <1>2, <2>3, <2>4, <3>1 DEF TypeOK, QueueType
    <3> QED BY <1>3, <2>3, <3>2, <3>3
  <2>6. CASE ~InjectionFailed(rc1, ok)
    <3>2. at' = "idle" /\ p' = NoPacket
      BY <2>1, <2>6
    <3>3. NoPacket \in Frames
      <4>1. 0 \in 0 .. StreamLen /\ 0 \in 0 .. SeqSpace - 1
        BY Constants
      <4> QED BY <4>1 DEF NoPacket, Frame, Frames
    <3>4. HandlingInv'
      BY <3>2 DEF HandlingInv
    <3>5. TypeOK'
      BY <1>2, <2>3, <2>4, <3>2, <3>3 DEF TypeOK, QueueType
    <3> QED BY <1>3, <2>3, <3>4, <3>5
  <2> QED BY <2>5, <2>6
<1> QED BY <1>4, <1>5, <1>6

\* The original is let through after a failed injection.
LEMMA PassInv == IInv /\ PassOriginal => IInv'
<1> SUFFICES ASSUME IInv, PassOriginal PROVE IInv'
  OBVIOUS
<1> USE DEF IInv
<1>1. /\ at = "passed" /\ Accept(p) /\ at' = "idle" /\ p' = NoPacket
      /\ UNCHANGED <<marked, una, nxt, queue, split, rc1, buf>>
  BY DEF PassOriginal
<1>2. Genuine(p, nxt)
  BY <1>1 DEF HandlingInv
<1>3. net' \subseteq Frames /\ NetInv'
  BY <1>1, <1>2 DEF Accept, TypeOK, NetInv, Genuine
<1>4. NoPacket \in Frames
  <2>1. 0 \in 0 .. StreamLen /\ 0 \in 0 .. SeqSpace - 1
    BY Constants
  <2> QED BY <2>1 DEF NoPacket, Frame, Frames
<1>5. HandlingInv' /\ QueueInv' /\ BufInv'
  BY <1>1 DEF HandlingInv, QueueInv, BufInv
<1>6. left' \subseteq 0 .. StreamLen - 1
  BY <1>1, <1>2, CarriedType DEF Accept, TypeOK
<1>7. TypeOK'
  BY <1>1, <1>3, <1>4, <1>6 DEF TypeOK
<1> QED BY <1>3, <1>5, <1>7

\* Acknowledgements, arrivals and losses.
LEMMA NetworkInv == IInv /\ (ClientAck \/ Deliver \/ Lose) => IInv'
<1> SUFFICES ASSUME IInv, ClientAck \/ Deliver \/ Lose PROVE IInv'
  OBVIOUS
<1> USE DEF IInv
<1>1. UNCHANGED <<marked, nxt, queue, at, p, split, rc1, left>>
  BY DEF ClientAck, Deliver, Lose
<1>2. HandlingInv' /\ QueueInv'
  BY <1>1 DEF HandlingInv, QueueInv, PayloadLen
<1>3. una' \in 0 .. StreamLen
  BY RcvNxtType DEF ClientAck, Deliver, Lose, TypeOK
<1>4. net' \subseteq net
  BY DEF ClientAck, Deliver, Lose
<1>5. NetInv'
  BY <1>1, <1>4 DEF NetInv
<1>6. buf' \in [0 .. StreamLen - 1 -> {Missing} \cup 0 .. StreamLen - 1] /\ BufInv'
  <2>1. CASE UNCHANGED buf
    BY <1>1, <2>1 DEF TypeOK, BufInv
  <2>2. CASE Deliver
    <3>1. PICK f \in net : buf' = Placed(f)
      BY <2>2 DEF Deliver
    <3>2. Genuine(f, nxt)
      BY DEF NetInv
    <3> QED BY <1>1, <3>1, <3>2, PlacedRight DEF BufInv
  <2> QED BY <2>1, <2>2 DEF ClientAck, Lose
<1>7. TypeOK'
  BY <1>1, <1>3, <1>4, <1>6 DEF TypeOK
<1> QED BY <1>2, <1>5, <1>6, <1>7

LEMMA NextInv == IInv /\ [Next]_vars => IInv'
<1> SUFFICES ASSUME IInv, [Next]_vars PROVE IInv'
  OBVIOUS
<1>1. CASE UNCHANGED vars
  BY <1>1 DEF vars, IInv, TypeOK, HandlingInv, QueueInv, NetInv, BufInv, PayloadLen
<1> QED BY <1>1, ClientSendInv, TakeInv, SendingInv, PassInv, NetworkInv DEF Next, Handling

LEMMA Inductive == Spec => []IInv
BY InitInv, NextInv, PTL DEF Spec

\* Every variable keeps its type; in particular the split offset stays below
\* the segment size, whatever the parsers return.
THEOREM TypeCorrect == Spec => []TypeOK
BY Inductive, PTL DEF IInv

-----------------------------------------------------------------------------
(* What the server's application reads.                                    *)

\* What the server's application has read: the first bytes, in order.
ReadInv ==
  /\ RcvNxt \in 0 .. nxt
  /\ [i \in 1 .. RcvNxt |-> buf[i - 1]] = [i \in 1 .. RcvNxt |-> i - 1]

LEMMA ReadIsPrefix == IInv => ReadInv
<1> SUFFICES ASSUME IInv PROVE ReadInv
  OBVIOUS
<1>1. RcvNxt \in 0 .. StreamLen /\ \A i \in 0 .. RcvNxt - 1 : buf[i] # Missing
  BY RcvNxtIsFirstGap, GapExists DEF IsGap
<1>2. nxt \in 0 .. StreamLen
  BY DEF IInv, TypeOK
<1>3. \A i \in 0 .. RcvNxt - 1 : buf[i] = i /\ i < nxt
  <2>1. \A i \in 0 .. RcvNxt - 1 : i \in 0 .. StreamLen - 1
    BY <1>1, Constants
  <2> QED BY <1>1, <2>1 DEF IInv, BufInv
<1> DEFINE r == RcvNxt
<1> HIDE DEF r
<1>4. r \in 0 .. StreamLen /\ \A i \in 0 .. r - 1 : buf[i] = i /\ i < nxt
  BY <1>1, <1>3 DEF r
<1>5. r \in 0 .. nxt
  <2>1. CASE r = 0
    BY <1>2, <2>1, Constants
  <2>2. CASE r # 0
    <3>1. r - 1 \in 0 .. r - 1
      BY <1>4, <2>2, Constants
    <3>2. r - 1 < nxt
      BY <1>4, <3>1
    <3> QED BY <1>2, <1>4, <3>2, Constants
  <2> QED BY <2>1, <2>2
<1>6. \A i \in 1 .. r : buf[i - 1] = i - 1
  <2>1. \A i \in 1 .. r : i - 1 \in 0 .. r - 1
    BY <1>4, Constants
  <2> QED BY <1>4, <2>1
<1>7. [i \in 1 .. r |-> buf[i - 1]] = [i \in 1 .. r |-> i - 1]
  BY <1>6
<1> QED BY <1>5, <1>7 DEF r, ReadInv

-----------------------------------------------------------------------------
(* Where every byte is.                                                    *)

\* What waits in the queue stays, and a frame is dropped or waits in it.
LEMMA EnqueueKeeps ==
  ASSUME QueueType, NEW f, Enqueue(f)
  PROVE  /\ \A i : InQueue(i) => InQueue(i)'
         /\ \A i \in Carried(f) : i \in Dropped(f) \/ InQueue(i)'
<1>1. CASE Len(queue) < QueueMax
  <2>1. queue' = Append(queue, f)
    BY <1>1 DEF Enqueue
  <2>2. /\ DOMAIN queue = 1 .. Len(queue) /\ Len(queue) \in Nat
        /\ DOMAIN queue' = 1 .. Len(queue) + 1
        /\ \A k \in 1 .. Len(queue) : queue'[k] = queue[k]
        /\ queue'[Len(queue) + 1] = f
    BY <2>1 DEF QueueType
  <2>3. ASSUME NEW i, InQueue(i) PROVE InQueue(i)'
    <3>1. PICK k \in DOMAIN queue : i \in Carried(queue[k])
      BY <2>3 DEF InQueue
    <3>2. k \in DOMAIN queue' /\ queue'[k] = queue[k]
      BY <2>2
    <3> QED BY <3>1, <3>2 DEF InQueue, Carried
  <2>4. ASSUME NEW i \in Carried(f) PROVE InQueue(i)'
    <3>1. Len(queue) + 1 \in DOMAIN queue' /\ i \in Carried(queue'[Len(queue) + 1])
      BY <2>2, <2>4
    <3> QED BY <3>1 DEF InQueue, Carried
  <2> QED BY <2>3, <2>4
<1>2. CASE ~(Len(queue) < QueueMax)
  <2>1. queue' = queue /\ Dropped(f) = Carried(f)
    BY <1>2 DEF Enqueue, Dropped
  <2> QED BY <2>1 DEF InQueue, Carried
<1> QED BY <1>1, <1>2

\* bd_send_tcp takes nothing back, and what it sent is on its way.
LEMMA SendKeeps ==
  ASSUME TypeOK, NEW f, NEW ok \in BOOLEAN, SendTcp(f, ok)
  PROVE  /\ \A i : OnTheWay(i) => OnTheWay(i)'
         /\ ok => \A i \in Carried(f) : OnTheWay(i)'
<1>1. QueueType
  BY DEF TypeOK, QueueType
<1>2. CASE UNCHANGED queue /\ left' = left \cup Carried(f)
  BY <1>2 DEF OnTheWay, InQueue, Carried
<1>3. CASE Enqueue(f) /\ left' = left \cup Dropped(f)
  BY <1>1, <1>3, EnqueueKeeps DEF OnTheWay
<1>4. CASE ~ok /\ UNCHANGED <<queue, left>>
  BY <1>4 DEF OnTheWay, InQueue, Carried
<1> QED BY <1>2, <1>3, <1>4 DEF SendTcp

LEMMA SendingAccounted ==
  IInv /\ Accounted /\ (SendFake \/ SendFirst \/ SendSecond) => Accounted'
<1> SUFFICES ASSUME IInv, Accounted, SendFake \/ SendFirst \/ SendSecond PROVE Accounted'
  OBVIOUS
<1>1. /\ Genuine(p, nxt) /\ split \in 1 .. PayloadLen(p) - 1 /\ nxt \in 0 .. StreamLen
      /\ TypeOK /\ at # "idle" /\ UNCHANGED <<una, nxt>>
  BY DEF IInv, HandlingInv, SendFake, SendFirst, SendSecond, TypeOK
<1>2. \A i \in 0 .. nxt - 1 : OnTheWay(i) \/ i \in Carried(p)
  BY DEF Accounted, NothingSwallowed, InHand, OnTheWay
<1>3. CASE SendFake
  <2> DEFINE f == Frame(p.from, p.to, p.fin, p.seq, "fake")
  <2>1. PICK ok \in BOOLEAN : SendTcp(f, ok)
    BY <1>3 DEF SendFake
  <2> HIDE DEF f
  <2>2. \A i : OnTheWay(i) => OnTheWay(i)'
    BY <1>1, <2>1, SendKeeps
  <2>3. at' = "frag1" /\ p' = p
    BY <1>3 DEF SendFake
  <2> QED BY <1>1, <1>2, <2>2, <2>3
          DEF Accounted, NothingSwallowed, FirstSent, OnTheWay, InHand, Carried
<1>4. CASE SendFirst
  <2> DEFINE f == Frame(p.from, p.from + split, FALSE, p.seq, "real")
  <2>1. PICK ok \in BOOLEAN : SendTcp(f, ok) /\ rc1' = ok
    BY <1>4 DEF SendFirst
  <2>2. Carried(f) = p.from .. p.from + split - 1
    <3>1. Carried(f) = p.from .. (p.from + split) - 1
      BY Zenon DEF Carried, Frame
    <3>2. p.from \in Nat
      BY <1>1, GenuineFields
    <3>3. split \in Nat
      BY <1>1, <3>2, GenuineFields DEF PayloadLen
    <3> HIDE DEF f
    <3> QED BY <3>1, <3>2, <3>3
  <2> HIDE DEF f
  <2>3. /\ \A i : OnTheWay(i) => OnTheWay(i)'
        /\ ok => \A i \in Carried(f) : OnTheWay(i)'
    BY <1>1, <2>1, SendKeeps
  <2>4. at' = "frag2" /\ p' = p /\ split' = split
    BY <1>4 DEF SendFirst
  <2>5. FirstSent'
    BY <2>1, <2>2, <2>3, <2>4 DEF FirstSent
  <2>6. NothingSwallowed'
    BY <1>1, <1>2, <2>3, <2>4 DEF NothingSwallowed, OnTheWay, InHand, Carried
  <2> QED BY <1>1, <2>5, <2>6 DEF Accounted
<1>5. CASE SendSecond
  <2> DEFINE f == Frame(p.from + split, p.to, p.fin, SecondSeq(p, split), "real")
  <2>1. PICK ok \in BOOLEAN :
          /\ SendTcp(f, ok)
          /\ IF InjectionFailed(rc1, ok)
             THEN at' = "passed" /\ UNCHANGED p
             ELSE at' = "idle" /\ p' = NoPacket
    BY <1>5 DEF SendSecond
  <2>2. Carried(f) = p.from + split .. p.to - 1
    BY DEF Carried, Frame
  <2> HIDE DEF f
  <2>3. /\ \A i : OnTheWay(i) => OnTheWay(i)'
        /\ ok => \A i \in Carried(f) : OnTheWay(i)'
    BY <1>1, <2>1, SendKeeps
  <2>4. at' # "frag2"
    BY <2>1
  <2>5. CASE InjectionFailed(rc1, ok)
    <3>1. at' = "passed" /\ p' = p
      BY <2>1, <2>5
    <3> QED BY <1>1, <1>2, <2>3, <3>1
            DEF Accounted, NothingSwallowed, FirstSent, OnTheWay, InHand, Carried
  <2>6. CASE ~InjectionFailed(rc1, ok)
    <3>1. rc1 /\ ok
      BY <2>6 DEF InjectionFailed
    <3>2. ASSUME NEW i \in Carried(p) PROVE OnTheWay(i)'
      <4>1. i \in p.from .. p.to - 1 /\ p.from \in Nat /\ p.to \in Nat
        BY <1>1, GenuineFields DEF Carried
      <4>2. split \in Nat
        BY <1>1, <4>1 DEF PayloadLen
      <4>3. i \in p.from .. p.from + split - 1 \/ i \in p.from + split .. p.to - 1
        BY <4>1, <4>2
      <4>4. at = "frag2"
        BY <1>5 DEF SendSecond
      <4> QED BY <2>2, <2>3, <3>1, <4>3, <4>4 DEF Accounted, FirstSent
    <3>3. \A i \in 0 .. nxt - 1 : OnTheWay(i)'
      BY <1>2, <2>3, <3>2
    <3> QED BY <1>1, <2>4, <3>3 DEF Accounted, NothingSwallowed, FirstSent, OnTheWay
  <2> QED BY <2>5, <2>6
<1> QED BY <1>3, <1>4, <1>5

LEMMA ClientSendAccounted == IInv /\ Accounted /\ ClientSend => Accounted'
<1> SUFFICES ASSUME IInv, Accounted, ClientSend PROVE Accounted'
  OBVIOUS
<1>1. PICK from \in {una, nxt}, to \in 1 .. StreamLen :
        /\ to - from \in 1 .. MaxSeg
        /\ \E fin \in {FALSE} \cup {to = StreamLen} :
             LET f == Frame(from, to, fin, (Isn + from) % SeqSpace, "real") IN
             Enqueue(f) /\ left' = (left \ Carried(f)) \cup Dropped(f)
        /\ nxt' = IF to > nxt THEN to ELSE nxt
  BY DEF ClientSend
<1>2. PICK fin \in {FALSE} \cup {to = StreamLen} :
        LET f == Frame(from, to, fin, (Isn + from) % SeqSpace, "real") IN
        Enqueue(f) /\ left' = (left \ Carried(f)) \cup Dropped(f)
  BY <1>1
<1> DEFINE f == Frame(from, to, fin, (Isn + from) % SeqSpace, "real")
<1>3. Carried(f) = from .. to - 1
  BY DEF Carried, Frame
<1>4. Enqueue(f) /\ left' = (left \ Carried(f)) \cup Dropped(f)
  BY <1>2
<1> HIDE DEF f
<1>5. /\ una \in Nat /\ nxt \in Nat /\ una <= nxt /\ from \in Nat /\ from <= nxt
      /\ to \in Nat /\ nxt' = (IF to > nxt THEN to ELSE nxt)
  BY <1>1, Constants DEF IInv, TypeOK, Accounted
<1>6. UNCHANGED <<una, at, p, split, rc1>>
  BY DEF ClientSend
<1>7. QueueType
  BY DEF IInv, TypeOK, QueueType
<1>8. /\ \A i : InQueue(i) => InQueue(i)'
      /\ \A i \in Carried(f) : i \in Dropped(f) \/ InQueue(i)'
  BY <1>4, <1>7, EnqueueKeeps
<1>9. \A i : OnTheWay(i) => OnTheWay(i)'
  BY <1>4, <1>8 DEF OnTheWay
<1>10. ASSUME NEW i \in 0 .. nxt' - 1 PROVE OnTheWay(i)' \/ InHand(i)'
  <2>1. CASE i \in Carried(f)
    BY <1>4, <1>8, <2>1 DEF OnTheWay
  <2>2. CASE i \notin Carried(f)
    <3>1. i \in 0 .. nxt - 1
      BY <1>3, <1>5, <2>2
    <3>2. OnTheWay(i) \/ InHand(i)
      BY <3>1 DEF Accounted, NothingSwallowed, OnTheWay
    <3> QED BY <1>6, <1>9, <3>2 DEF InHand, Carried
  <2> QED BY <2>1, <2>2
<1>11. NothingSwallowed'
  BY <1>10 DEF NothingSwallowed, OnTheWay
<1>12. FirstSent'
  BY <1>6, <1>9 DEF Accounted, FirstSent
<1>13. (una <= nxt)'
  BY <1>5, <1>6
<1> QED BY <1>11, <1>12, <1>13 DEF Accounted

LEMMA TakeAccounted == IInv /\ Accounted /\ Take => Accounted'
<1> SUFFICES ASSUME IInv, Accounted, Take PROVE Accounted'
  OBVIOUS
<1> DEFINE q == Head(queue)
<1>1. /\ at = "idle" /\ queue # <<>> /\ queue' = Tail(queue) /\ UNCHANGED <<una, nxt>>
      /\ queue \in Seq(Frames)
  BY DEF Take, IInv, TypeOK
<1>2. \/ Accept(q) /\ at' = "idle"
      \/ at' = "fake" /\ p' = q /\ left' = left
  BY <1>1 DEF Take
<1>3. /\ Len(queue) \in Nat \ {0} /\ DOMAIN queue = 1 .. Len(queue) /\ q = queue[1]
      /\ DOMAIN queue' = 1 .. Len(queue) - 1
      /\ \A k \in 1 .. Len(queue) - 1 : queue'[k] = queue[k + 1]
  BY <1>1
<1> HIDE DEF q
<1>4. left \subseteq left'
  BY <1>2 DEF Accept
<1>5. \A i \in Carried(q) : i \in left' \/ InHand(i)'
  BY <1>2 DEF Accept, InHand, Carried
<1>6. ASSUME NEW i, InQueue(i) PROVE InQueue(i)' \/ i \in Carried(q)
  <2>1. PICK k \in DOMAIN queue : i \in Carried(queue[k])
    BY <1>6 DEF InQueue
  <2>2. CASE k = 1
    BY <1>3, <2>1, <2>2
  <2>3. CASE k # 1
    <3>1. k - 1 \in DOMAIN queue' /\ queue'[k - 1] = queue[k]
      BY <1>3, <2>3
    <3> QED BY <2>1, <3>1 DEF InQueue, Carried
  <2> QED BY <2>2, <2>3
<1>7. NothingSwallowed'
  <2> SUFFICES ASSUME NEW i \in 0 .. nxt - 1
               PROVE  i \in left' \/ InQueue(i)' \/ InHand(i)'
    BY <1>1 DEF NothingSwallowed
  <2>1. i \in left \/ InQueue(i)
    BY <1>1 DEF Accounted, NothingSwallowed, InHand
  <2> QED BY <1>4, <1>5, <1>6, <2>1
<1>8. FirstSent' /\ (una <= nxt)'
  BY <1>1, <1>2 DEF FirstSent, Accounted
<1> QED BY <1>7, <1>8 DEF Accounted

LEMMA RestAccounted ==
  IInv /\ Accounted /\ (PassOriginal \/ ClientAck \/ Deliver \/ Lose) => Accounted'
<1> SUFFICES ASSUME IInv, Accounted, PassOriginal \/ ClientAck \/ Deliver \/ Lose
             PROVE  Accounted'
  OBVIOUS
<1>1. CASE PassOriginal
  <2>1. /\ at = "passed" /\ at' = "idle" /\ left' = left \cup Carried(p)
        /\ UNCHANGED <<una, nxt, queue>>
    BY <1>1 DEF PassOriginal, Accept
  <2>2. \A i : InQueue(i) => InQueue(i)'
    BY <2>1 DEF InQueue, Carried
  <2>3. NothingSwallowed'
    BY <2>1, <2>2 DEF Accounted, NothingSwallowed, InHand
  <2> QED BY <2>1, <2>3 DEF Accounted, FirstSent
<1>2. CASE ClientAck \/ Deliver \/ Lose
  <2>1. UNCHANGED <<nxt, queue, at, p, split, rc1, left>>
    BY <1>2 DEF ClientAck, Deliver, Lose
  <2>2. (una <= nxt)'
    <3>1. una' = una \/ una' = RcvNxt
      BY <1>2 DEF ClientAck, Deliver, Lose
    <3>2. RcvNxt <= nxt
      BY ReadIsPrefix, Constants DEF ReadInv, IInv, TypeOK
    <3> QED BY <2>1, <3>1, <3>2 DEF Accounted
  <2>3. \A i : (InQueue(i) => InQueue(i)') /\ (InHand(i) => InHand(i)')
    BY <2>1 DEF InQueue, InHand, Carried
  <2>4. NothingSwallowed' /\ FirstSent'
    BY <2>1, <2>3 DEF Accounted, NothingSwallowed, FirstSent, OnTheWay
  <2> QED BY <2>2, <2>4 DEF Accounted
<1> QED BY <1>1, <1>2

LEMMA AccountedStep == IInv /\ Accounted /\ [Next]_vars => Accounted'
<1> SUFFICES ASSUME IInv, Accounted, [Next]_vars PROVE Accounted'
  OBVIOUS
<1>1. CASE UNCHANGED vars
  <2>1. UNCHANGED <<una, nxt, queue, at, p, split, rc1, left>>
    BY <1>1 DEF vars
  <2>2. \A i : (InQueue(i) => InQueue(i)') /\ (InHand(i) => InHand(i)')
    BY <2>1 DEF InQueue, InHand, Carried
  <2> QED BY <2>1, <2>2 DEF Accounted, NothingSwallowed, FirstSent, OnTheWay
<1> QED BY <1>1, ClientSendAccounted, TakeAccounted, SendingAccounted, RestAccounted
        DEF Next, Handling

\* Conservation, for every stream, queue and segment size: no byte the client
\* sends vanishes between the queue and the network, whichever sends fail and
\* whether or not the raw socket carries the mark.
THEOREM NothingSwallowedCorrect == Spec => []NothingSwallowed
<1>1. Init => Accounted
  BY Constants DEF Init, Accounted, NothingSwallowed, FirstSent
<1> QED BY <1>1, AccountedStep, Inductive, PTL DEF Spec, Accounted

-----------------------------------------------------------------------------
(* The connection is a pipe.                                               *)

\* The first gap never moves back.
LEMMA GapMonotonic ==
  ASSUME TypeOK, BufInv, NEW f, Genuine(f, nxt)
  PROVE  FirstGap(buf) <= FirstGap(Placed(f))
<1> DEFINE b == Placed(f)
           m == FirstGap(buf)
           n == FirstGap(b)
<1>1. IsGap(buf, m) /\ IsGap(b, n)
  BY GapExists
<1>2. \A k \in 0 .. StreamLen - 1 : buf[k] # Missing => b[k] = buf[k]
  BY PlacedRight
<1> HIDE DEF b, m, n
<1>3. m \in 0 .. StreamLen /\ n \in 0 .. StreamLen
  BY <1>1 DEF IsGap
<1>4. ~(n < m)
  <2> SUFFICES ASSUME n < m PROVE FALSE
    OBVIOUS
  <2>1. n \in 0 .. m - 1 /\ n \in 0 .. StreamLen - 1 /\ n # StreamLen
    BY <1>3, Constants
  <2>2. buf[n] # Missing /\ b[n] = Missing
    BY <1>1, <2>1 DEF IsGap
  <2> QED BY <1>2, <2>1, <2>2
<1>5. m <= n
  BY <1>3, <1>4, Constants
<1> QED BY <1>5 DEF b, m, n

\* A copy of the request, its two fragments, retransmissions cut elsewhere,
\* losses, repetitions and sequence numbers that wrap: for all of them the
\* server's application reads what the client wrote, in order, once.
THEOREM ImplementsPipe == Spec => PipeKept
<1> DEFINE read == [i \in 1 .. RcvNxt |-> buf[i - 1]]
<1>1. Init => StreamIn!PipeInit
  <2> SUFFICES ASSUME Init PROVE StreamIn!PipeInit
    OBVIOUS
  <2>1. nxt = 0 /\ IInv
    BY InitInv DEF Init
  <2>2. RcvNxt = 0
    BY <2>1, ReadIsPrefix DEF ReadInv
  <2>3. read = <<>>
    BY <2>2
  <2> QED BY <2>1, <2>3 DEF StreamIn!PipeInit
<1>2. ASSUME IInv, ReadInv, ReadInv', [Next]_vars
      PROVE  [StreamIn!Write \/ StreamIn!Read]_<<nxt, read>>
  <2>1. CASE UNCHANGED buf
    <3>1. RcvNxt' = RcvNxt
      BY <2>1, RcvNxtIsFirstGap DEF RcvNxt
    <3>2. read' = read
      BY <2>1, <3>1
    <3>3. nxt' = nxt \/ nxt' \in nxt + 1 .. StreamLen
      <4>1. CASE ClientSend
        <5>1. PICK to \in 1 .. StreamLen : nxt' = IF to > nxt THEN to ELSE nxt
          BY <4>1 DEF ClientSend
        <5>2. nxt \in 0 .. StreamLen
          BY <1>2 DEF IInv, TypeOK
        <5> QED BY <5>1, <5>2, Constants
      <4>2. Handling => nxt' = nxt
        BY DEF Handling, Take, SendFake, SendFirst, SendSecond, PassOriginal
      <4>3. ClientAck \/ Deliver \/ Lose \/ UNCHANGED vars => nxt' = nxt
        BY DEF ClientAck, Deliver, Lose, vars
      <4> QED BY <1>2, <4>1, <4>2, <4>3 DEF Next
    <3> HIDE DEF read
    <3> QED BY <3>2, <3>3 DEF StreamIn!Write, read
  <2>2. CASE Deliver
    <3>1. PICK f \in net : buf' = Placed(f)
      BY <2>2 DEF Deliver
    <3>2. nxt' = nxt
      BY <2>2 DEF Deliver
    <3>3. RcvNxt <= RcvNxt'
      <4>1. Genuine(f, nxt) /\ TypeOK /\ BufInv
        BY <1>2 DEF IInv, NetInv
      <4>2. RcvNxt' = FirstGap(Placed(f))
        BY <3>1 DEF RcvNxt, FirstGap
      <4> QED BY <4>1, <4>2, GapMonotonic, RcvNxtIsFirstGap
    <3>4. RcvNxt \in 0 .. nxt /\ read = [i \in 1 .. RcvNxt |-> i - 1]
      BY <1>2 DEF ReadInv
    <3>5. RcvNxt' \in 0 .. nxt' /\ read' = [i \in 1 .. RcvNxt' |-> i - 1]
      BY <1>2 DEF ReadInv
    <3>6. nxt \in Nat
      BY <1>2, Constants DEF IInv, TypeOK
    <3> DEFINE m == RcvNxt
               n == RcvNxt'
    <3>7. m \in 0 .. nxt /\ n \in 0 .. nxt /\ m <= n
      BY <3>2, <3>3, <3>4, <3>5
    <3>8. Len(read) = m
      BY <3>4, <3>6, <3>7
    <3>9. CASE m = n
      <4>1. read' = read
        BY <3>4, <3>5, <3>9
      <4> QED BY <3>2, <4>1
    <3>10. CASE m # n
      <4>1. n \in Len(read) + 1 .. nxt
        BY <3>6, <3>7, <3>8, <3>10
      <4>2. \E k \in Len(read) + 1 .. nxt : read' = [i \in 1 .. k |-> i - 1]
        BY <3>5, <4>1
      <4> QED BY <3>2, <4>2 DEF StreamIn!Read
    <3> QED BY <3>9, <3>10
  <2>3. Handling => UNCHANGED buf
    BY DEF Handling, Take, SendFake, SendFirst, SendSecond, PassOriginal
  <2>4. ClientSend \/ ClientAck \/ Lose \/ UNCHANGED vars => UNCHANGED buf
    BY DEF ClientSend, ClientAck, Lose, vars
  <2> QED BY <1>2, <2>1, <2>2, <2>3, <2>4 DEF Next
<1> QED BY <1>1, <1>2, Inductive, ReadIsPrefix, PTL DEF Spec, PipeKept, StreamIn!PipeSpec

=============================================================================
