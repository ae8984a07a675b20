------------------------------- MODULE TcpPath ------------------------------
(***************************************************************************)
(* One intercepted TCP connection, from the client's kernel to the server: *)
(* the netfilter queue, packet_cb and bd_tcp_handle (which sends a short   *)
(* lived copy and two fragments through the raw socket, one sendto at a    *)
(* time), and a network that delays, reorders, duplicates and loses.       *)
(*                                                                         *)
(* Payload bytes are numbered 0 .. StreamLen - 1 by their place in the     *)
(* client's stream, so a segment is the interval [from, to).  Sequence     *)
(* numbers are kept modulo SeqSpace, the code's uint32_t made small.       *)
(***************************************************************************)
EXTENDS Integers, Sequences, FiniteSets

CONSTANTS
  StreamLen,    \* bytes the client writes
  MaxSeg,       \* the client's largest segment
  SeqSpace,     \* size of the sequence number space
  Isn,          \* sequence number of byte 0
  MinLen,       \* shortest payload the request classifiers accept
  RequestStarts,\* stream offsets where the bytes look like a request
  FrameCap,     \* payload that fits in a frame of BD_MAX_FRAME bytes
  QueueMax,     \* bound: packets the queue holds (4096 in the code)
  NetMax,       \* bound: no new segment while more frames are under way
  FakeArrives,  \* the server is nearer than the fake's TTL
  SendMayFail,  \* a sendto on the raw socket may fail
  MarkMayFail   \* setsockopt(SO_MARK) may have failed on the raw socket

ASSUME TcpAssumption ==
  /\ StreamLen \in Nat /\ MaxSeg \in Nat \ {0} /\ MinLen \in Nat
  /\ SeqSpace \in Nat /\ 2 * StreamLen <= SeqSpace /\ Isn \in 0 .. SeqSpace - 1
  /\ RequestStarts \subseteq 0 .. StreamLen
  /\ FrameCap \in Nat /\ QueueMax \in Nat \ {0} /\ NetMax \in Nat
  /\ FakeArrives \in BOOLEAN /\ SendMayFail \in BOOLEAN
  /\ MarkMayFail \in BOOLEAN

VARIABLES
  marked,      \* what the raw socket sends carries our mark
  una, nxt,    \* client: first unacknowledged byte, next byte to send
  queue,       \* packets waiting in the netfilter queue
  at,          \* receive thread: its place in bd_tcp_handle
  p, split,    \* the packet and the split offset it works on
  rc1,         \* the first fragment was sent
  net,         \* frames under way
  buf,         \* server: bytes received so far, by stream offset
  left         \* ghost: bytes that, since the client last sent them, went out
               \* with a normal TTL or were dropped by the full queue

vars == <<marked, una, nxt, queue, at, p, split, rc1, net, buf, left>>

Frames   == [from : 0 .. StreamLen, to : 0 .. StreamLen, fin : BOOLEAN,
             seq : 0 .. SeqSpace - 1, ttl : {"fake", "real"}]
Missing  == -1

\* A frame with the payload [from, to) and that sequence number.
Frame(from, to, fin, seq, ttl) ==
  [from |-> from, to |-> to, fin |-> fin, seq |-> seq, ttl |-> ttl]

NoPacket == Frame(0, 0, FALSE, 0, "real")

TypeOK ==
  /\ marked \in BOOLEAN
  /\ una \in 0 .. StreamLen /\ nxt \in 0 .. StreamLen
  /\ queue \in Seq(Frames) /\ Len(queue) <= QueueMax
  /\ at \in {"idle", "fake", "frag1", "frag2", "passed"}
  /\ p \in Frames /\ split \in 0 .. MaxSeg /\ rc1 \in BOOLEAN
  /\ net \subseteq Frames
  /\ buf \in [0 .. StreamLen - 1 -> {Missing} \cup 0 .. StreamLen - 1]
  /\ left \subseteq 0 .. StreamLen - 1

Init ==
  /\ marked \in {TRUE, ~MarkMayFail}
  /\ una = 0 /\ nxt = 0 /\ queue = <<>>
  /\ at = "idle" /\ p = NoPacket /\ split = 0 /\ rc1 = FALSE
  /\ net = {} /\ buf = [i \in 0 .. StreamLen - 1 |-> Missing] /\ left = {}

PayloadLen(q) == q.to - q.from

\* The bytes a frame brings nearer to the server: a fake is meant to die.
Carried(f) == IF f.ttl = "real" THEN f.from .. f.to - 1 ELSE {}

\* An NFQUEUE rule; the queue drops what finds it full.
Enqueue(f) == queue' = IF Len(queue) < QueueMax THEN Append(queue, f) ELSE queue

Dropped(f) == IF Len(queue) < QueueMax THEN {} ELSE Carried(f)

-----------------------------------------------------------------------------
(* Client kernel (external): new data, or a retransmission from the first  *)
(* unacknowledged byte, cut as it likes.                                   *)

ClientSend ==
  /\ Cardinality(net) <= NetMax
  /\ \E from \in {una, nxt}, to \in 1 .. StreamLen :
       /\ to - from \in 1 .. MaxSeg
       /\ \E fin \in {FALSE} \cup {to = StreamLen} :
            LET f == Frame(from, to, fin, (Isn + from) % SeqSpace, "real") IN
            Enqueue(f) /\ left' = (left \ Carried(f)) \cup Dropped(f)
       /\ nxt' = IF to > nxt THEN to ELSE nxt
  /\ UNCHANGED <<marked, una, at, p, split, rc1, net, buf>>

\* The server's first gap: its cumulative acknowledgement.
RcvNxt == CHOOSE n \in 0 .. StreamLen :
            /\ \A i \in 0 .. n - 1 : buf[i] # Missing
            /\ n = StreamLen \/ buf[n] = Missing

ClientAck ==
  /\ una < RcvNxt
  /\ una' = RcvNxt
  /\ UNCHANGED <<marked, nxt, queue, at, p, split, rc1, net, buf, left>>

-----------------------------------------------------------------------------
(* packet_cb and bd_tcp_handle.                                            *)

\* The classifiers look at each packet by itself: any segment that starts
\* like a request is handled, unless it carries SYN, RST or FIN.
Interesting(q) == q.from \in RequestStarts /\ PayloadLen(q) >= MinLen /\ ~q.fin

\* bd_tls_split_offset / bd_http_split_offset: none found, or inside.
ParserOffsets(len) == {-1} \cup 1 .. len - 1

\* Without a boundary from the parser: split at byte 2.
SplitAt(s, len) == IF s <= 0 \/ s >= len THEN (IF len > 2 THEN 2 ELSE 1) ELSE s

\* NF_ACCEPT: the kernel sends the original on.
Accept(q) == net' = net \cup {q} /\ left' = left \cup Carried(q)

\* packet_cb takes the next packet and decides; enable_tls and enable_http
\* are read for each packet and may have been switched at any time.
Take ==
  /\ at = "idle" /\ queue # <<>>
  /\ queue' = Tail(queue)
  /\ LET q == Head(queue) IN
     \/ Accept(q) /\ UNCHANGED <<at, p, split>>  \* switched off or no request
     \/ /\ Interesting(q)
        /\ \E s \in ParserOffsets(PayloadLen(q)) :
             LET off == SplitAt(s, PayloadLen(q)) IN
             IF off >= PayloadLen(q)
             THEN Accept(q) /\ UNCHANGED <<at, p, split>>
             ELSE at' = "fake" /\ p' = q /\ split' = off /\ UNCHANGED <<net, left>>
  /\ UNCHANGED <<marked, una, nxt, rc1, buf>>

\* bd_send_tcp: -1 if the frame would not fit or sendto fails.  Without the
\* mark the frame meets the NFQUEUE rules like the client's own segments.
SendTcp(f, ok) ==
  /\ ok => f.to - f.from <= FrameCap
  /\ ~ok => SendMayFail \/ f.to - f.from > FrameCap
  /\ \/ /\ ok /\ marked
        /\ net' = net \cup {f} /\ left' = left \cup Carried(f) /\ UNCHANGED queue
     \/ /\ ok /\ ~marked
        /\ Enqueue(f) /\ left' = left \cup Dropped(f) /\ UNCHANGED net
     \/ ~ok /\ UNCHANGED <<net, queue, left>>

\* 1) the whole payload, which should die on the way; failure is ignored.
SendFake ==
  /\ at = "fake"
  /\ \E ok \in BOOLEAN :
       SendTcp(Frame(p.from, p.to, p.fin, p.seq, "fake"), ok)
  /\ at' = "frag1"
  /\ UNCHANGED <<marked, una, nxt, p, split, rc1, buf>>

\* 2) the first fragment, without PSH.
SendFirst ==
  /\ at = "frag1"
  /\ \E ok \in BOOLEAN :
       /\ SendTcp(Frame(p.from, p.from + split, FALSE, p.seq, "real"), ok)
       /\ rc1' = ok
  /\ at' = "frag2"
  /\ UNCHANGED <<marked, una, nxt, p, split, buf>>

\* mutant of SecondSeq: the second fragment keeps the first one's number
SecondSeqSame(q, off) == q.seq

\* mutant of SecondSeq: computed in a wider type than uint32_t
SecondSeqWide(q, off) == q.seq + off

SecondSeq(q, off) == (q.seq + off) % SeqSpace

\* mutant of InjectionFailed: only a failure of both counts
InjectionFailedBoth(first, second) == ~first /\ ~second

\* mutant of InjectionFailed: the results of the two sends are ignored
InjectionFailedNever(first, second) == FALSE

InjectionFailed(first, second) == ~first \/ ~second

\* The second fragment, and the verdict: if either failed the original is
\* let through (in a step of its own), else it is dropped.
SendSecond ==
  /\ at = "frag2"
  /\ \E ok \in BOOLEAN :
       /\ SendTcp(Frame(p.from + split, p.to, p.fin, SecondSeq(p, split), "real"), ok)
       /\ IF InjectionFailed(rc1, ok)
          THEN at' = "passed" /\ UNCHANGED p
          ELSE at' = "idle" /\ p' = NoPacket
  /\ split' = 0 /\ rc1' = FALSE
  /\ UNCHANGED <<marked, una, nxt, buf>>

PassOriginal ==
  /\ at = "passed"
  /\ Accept(p)
  /\ at' = "idle" /\ p' = NoPacket
  /\ UNCHANGED <<marked, una, nxt, queue, split, rc1, buf>>

-----------------------------------------------------------------------------
(* Network and server (external).                                          *)

\* Where the server puts the first byte of a frame: the stream offset its
\* sequence number stands for, taken nearest to the first gap.
Offset(seq) ==
  LET d == (seq - (Isn + RcvNxt)) % SeqSpace
  IN  RcvNxt + (IF d < SeqSpace \div 2 THEN d ELSE d - SeqSpace)

Placed(f) ==
  [k \in DOMAIN buf |->
     LET j == k - Offset(f.seq) IN
     IF buf[k] = Missing /\ j \in 0 .. (f.to - f.from) - 1
     THEN f.from + j ELSE buf[k]]

Arrives(f) == f.ttl = "real" \/ FakeArrives

\* A frame arrives, and may arrive again later.
Deliver ==
  /\ \E f \in net : Arrives(f) /\ Placed(f) # buf /\ buf' = Placed(f)
  /\ UNCHANGED <<marked, una, nxt, queue, at, p, split, rc1, net, left>>

Lose ==
  /\ \E f \in net : net' = net \ {f}
  /\ UNCHANGED <<marked, una, nxt, queue, at, p, split, rc1, buf, left>>

-----------------------------------------------------------------------------
Handling == Take \/ SendFake \/ SendFirst \/ SendSecond \/ PassOriginal

Next == ClientSend \/ ClientAck \/ Handling \/ Deliver \/ Lose

Spec == Init /\ [][Next]_vars

\* The receive thread goes on; the client retransmits what is not
\* acknowledged; the network does not lose everything for ever, and no frame
\* stays in it for ever.
Fairness ==
  /\ WF_vars(Handling)
  /\ WF_vars(ClientAck)
  /\ SF_vars(ClientSend /\ Len(queue) < QueueMax)
  /\ SF_vars(Deliver)
  /\ WF_vars(Lose)

FairSpec == Spec /\ Fairness

-----------------------------------------------------------------------------
(* Properties.                                                             *)

\* The connection is still a pipe: splitting, the fake copy (even when it
\* does arrive), retransmissions cut differently and sequence numbers that
\* wrap inside the request never put a wrong byte before the server.
StreamIn == INSTANCE Pipe WITH
  written <- nxt,
  read    <- [i \in 1 .. RcvNxt |-> buf[i - 1]]

PipeKept == StreamIn!PipeSpec

\* Real copies of byte i that the program still has: in the queue, or in the
\* packet bd_tcp_handle works on.
InQueue(i) == \E k \in DOMAIN queue : i \in Carried(queue[k])
InHand(i)  == at # "idle" /\ i \in Carried(p)

\* No byte vanishes inside the program: after each transmission by the client
\* it waits in the queue, is being worked on, went out with a normal TTL, or
\* met the full queue -- whichever of the three sends fail (so BD_VERDICT_DROP
\* only once both fragments are on their way), whatever is let through, and
\* however often an unmarked fragment comes round again.  On a marked socket
\* only the client's own segments can meet the full queue.
NothingSwallowed == \A i \in 0 .. nxt - 1 : i \in left \/ InQueue(i) \/ InHand(i)

\* Everything the client writes arrives in the end: no failing sendto and no
\* full queue stalls the connection for good.
EverythingArrives ==
  marked => [](nxt = StreamLen => <>(RcvNxt = StreamLen))

=============================================================================
