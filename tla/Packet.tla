------------------------------- MODULE Packet -------------------------------
(***************************************************************************)
(* Bytes on the wire: how net.c reads a datagram (bd_packet_parse) and how *)
(* it assembles one (build_tcp_l4, build_udp_l4, inject4, inject6 and the  *)
(* Internet checksum).  A datagram is a sequence of bytes; offsets count   *)
(* from 0 as in the code.  A uint32_t is a pair of 16-bit halves, most     *)
(* significant first.                                                      *)
(***************************************************************************)
EXTENDS Integers, Sequences

CONSTANT LittleEndian   \* byte order of the host that computes checksums

ASSUME EndianAssumption == LittleEndian \in BOOLEAN

Byte  == 0 .. 255
Word  == 0 .. 65535
IPPROTO_TCP == 6
IPPROTO_UDP == 17

\* The byte at an offset.  A read past the end has no defined value; Dissect
\* shows that there is none.
At(d, i) == IF i \in 0 .. Len(d) - 1 THEN d[i + 1] ELSE 0

\* rd16, ntohs: two bytes in network order.
Rd16(d, i) == 256 * At(d, i) + At(d, i + 1)
Rd32(d, i) == <<Rd16(d, i), Rd16(d, i + 2)>>
Slice(d, i, n) == SubSeq(d, i + 1, i + n)

\* htons and htonl into memory.
Be16(w) == <<w \div 256, w % 256>>
Be32(u) == Be16(u[1]) \o Be16(u[2])
Zeros(n) == [i \in 1 .. n |-> 0]

\* mutant of Add32: the carry out of the low half is lost
Add32NoCarry(u, n) == <<u[1], (u[2] + n) % 65536>>

\* uint32_t addition.
Add32(u, n) ==
  LET lo == u[2] + n IN <<(u[1] + lo \div 65536) % 65536, lo % 65536>>

-----------------------------------------------------------------------------
(* bd_packet_parse.                                                        *)

Version(d) == At(d, 0) \div 16
Ihl(d)     == 4 * (At(d, 0) % 16)

\* Bytes of the IP header that are looked at, and whether it is accepted.
IpReads(d) ==
  IF Version(d) = 4 /\ Len(d) >= 20 THEN 0 .. 19
  ELSE IF Version(d) = 6 /\ Len(d) >= 40 THEN 0 .. 39 ELSE {0}

IpOk(d) ==
  \/ Version(d) = 4 /\ Len(d) >= 20 /\ Ihl(d) >= 20 /\ Len(d) >= Ihl(d)
  \/ Version(d) = 6 /\ Len(d) >= 40

L4At(d)  == IF Version(d) = 4 THEN Ihl(d) ELSE 40
Proto(d) == IF Version(d) = 4 THEN At(d, 9) ELSE At(d, 6)
Doff(d)  == 4 * (At(d, L4At(d) + 12) \div 16)
L4Len(d) == Len(d) - L4At(d)

L4Need(d) == IF Proto(d) = IPPROTO_TCP THEN 20 ELSE 8

L4Reads(d) ==
  IF Proto(d) \in {IPPROTO_TCP, IPPROTO_UDP} /\ L4Len(d) >= L4Need(d)
  THEN L4At(d) .. L4At(d) + L4Need(d) - 1 ELSE {}

\* mutant of L4Ok: a data offset past the end is believed
L4OkTrustsDoff(d) ==
  /\ Proto(d) \in {IPPROTO_TCP, IPPROTO_UDP} /\ L4Len(d) >= L4Need(d)
  /\ Proto(d) = IPPROTO_TCP => Doff(d) >= 20

L4Ok(d) ==
  /\ Proto(d) \in {IPPROTO_TCP, IPPROTO_UDP} /\ L4Len(d) >= L4Need(d)
  /\ Proto(d) = IPPROTO_TCP => Doff(d) >= 20 /\ L4Len(d) >= Doff(d)

\* struct bd_packet; "at" is the offset of the payload.
Parsed(d) ==
  LET l4  == L4At(d)
      tcp == Proto(d) = IPPROTO_TCP
      at  == l4 + (IF tcp THEN Doff(d) ELSE 8)
      v4  == Version(d) = 4
  IN  [family |-> Version(d), proto |-> Proto(d),
       src    |-> IF v4 THEN Slice(d, 12, 4) ELSE Slice(d, 8, 16),
       dst    |-> IF v4 THEN Slice(d, 16, 4) ELSE Slice(d, 24, 16),
       sport  |-> Rd16(d, l4), dport |-> Rd16(d, l4 + 2),
       seq    |-> IF tcp THEN Rd32(d, l4 + 4) ELSE <<0, 0>>,
       ack    |-> IF tcp THEN Rd32(d, l4 + 8) ELSE <<0, 0>>,
       flags  |-> IF tcp THEN At(d, l4 + 13) ELSE 0,
       window |-> IF tcp THEN Rd16(d, l4 + 14) ELSE 0,
       at     |-> at, len |-> Len(d) - at]

-----------------------------------------------------------------------------
(* Checksums: words are summed and stored in the host's byte order, an odd *)
(* last byte goes first in memory.                                         *)

HostWord(d, i) ==
  IF LittleEndian THEN At(d, i) + 256 * At(d, i + 1) ELSE Rd16(d, i)
Stored(w) == IF LittleEndian THEN <<w % 256, w \div 256>> ELSE Be16(w)

csum_accumulate(d, sum) ==
  LET n == (Len(d) + 1) \div 2
      acc[i \in 0 .. n] == IF i = 0 THEN sum ELSE acc[i - 1] + HostWord(d, 2 * i - 2)
  IN  acc[n]

\* The loop runs at most twice on a uint32_t.
csum_fold(sum) ==
  LET once(s) == (s % 65536) + (s \div 65536) IN 65535 - once(once(sum))

PseudoHeader(src, dst, proto, n) ==
  src \o dst \o (IF Len(src) = 4 THEN <<0, proto>> \o Be16(n)
                 ELSE Be32(<<0, n>>) \o <<0, 0, 0, proto>>)

\* l4_checksum4 and l4_checksum6.
L4Checksum(src, dst, proto, l4) ==
  csum_fold(csum_accumulate(l4,
    csum_accumulate(PseudoHeader(src, dst, proto, Len(l4)), 0)))

-----------------------------------------------------------------------------
(* Assembly.                                                               *)

\* The header with its checksum field (the two bytes at offset "at") filled.
WithCheck(d, at, w) == Slice(d, 0, at) \o Stored(w) \o Slice(d, at + 2, Len(d) - at - 2)

build_tcp_l4(sport, dport, seq, ack, flags, window, payload) ==
  Be16(sport) \o Be16(dport) \o Be32(seq) \o Be32(ack) \o <<80, flags>>
    \o Be16(window) \o Zeros(4) \o payload

build_udp_l4(sport, dport, payload) ==
  Be16(sport) \o Be16(dport) \o Be16(8 + Len(payload)) \o Zeros(2) \o payload

IpHeader4(src, dst, proto, ttl, id, n) ==
  LET h == <<69, 0>> \o Be16(20 + n) \o Be16(id) \o Be16(16384)
             \o <<ttl, proto>> \o Zeros(2) \o src \o dst
  IN  WithCheck(h, 10, csum_fold(csum_accumulate(h, 0)))

IpHeader6(src, dst, proto, ttl, n) ==
  Be32(<<24576, 0>>) \o Be16(n) \o <<proto, ttl>> \o src \o dst

\* mutant of L4Check: a UDP checksum that comes out as zero is sent as zero
L4CheckZero(proto, w) == w

\* Zero means "no checksum" in UDP, so it is sent as its other form.
L4Check(proto, w) == IF proto = IPPROTO_UDP /\ w = 0 THEN 65535 ELSE w

\* inject4 and inject6, up to sendto.
Frame(src, dst, proto, ttl, id, l4) ==
  (IF Len(src) = 4 THEN IpHeader4(src, dst, proto, ttl, id, Len(l4))
   ELSE IpHeader6(src, dst, proto, ttl, Len(l4)))
  \o WithCheck(l4, IF proto = IPPROTO_TCP THEN 16 ELSE 6,
               L4Check(proto, L4Checksum(src, dst, proto, l4)))

=============================================================================
