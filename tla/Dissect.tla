------------------------------- MODULE Dissect ------------------------------
(***************************************************************************)
(* What the receive thread does with the bytes of one queued datagram:     *)
(* packet_cb, bd_packet_parse, the QUIC and DNS branches, the TLS and HTTP *)
(* classifiers, the walk through a ClientHello (one action per field and   *)
(* per extension), the scan for the Host header, the choice of the split   *)
(* and the frames that are sent.  TcpPath and Dns model the same handlers  *)
(* between the threads and the network, with the bytes left out.           *)
(*                                                                         *)
(* The datagram comes with what its sender meant by it: the kind of        *)
(* message, and where in the payload the name lies that must be cut (the   *)
(* host name of a ClientHello, the word Host of a request) and which       *)
(* extensions come before it.  Only the properties look at that.           *)
(***************************************************************************)
EXTENDS Packet

CONSTANTS
  Inputs,      \* datagrams: [bytes, what, from, to, exts]
  Replies,     \* payloads an upstream resolver answers with
  Ids,         \* values of rand() & 0xffff
  BD_MAX_FRAME, BD_DNS_MAX,
  FakeTtl,     \* cfg->ttl
  SendMayFail  \* a sendto may fail

BD_REAL_TTL == 64

ASSUME DissectAssumption ==
  /\ \A x \in Inputs : /\ x.bytes \in Seq(Byte)
                       /\ x.from \in Nat /\ x.to \in Nat /\ x.exts \subseteq Nat
  /\ BD_MAX_FRAME \in Word /\ BD_DNS_MAX \in Nat /\ SendMayFail \in BOOLEAN
  /\ Ids \subseteq Word /\ Replies \subseteq Seq(Byte) /\ FakeTtl \in 1 .. 10

\* "GET ", "POST ", "HEAD ", "PUT ", "DELETE ", "OPTIONS ", "PATCH ",
\* "TRACE " and "CONNECT ".
kMethods == {
  <<71, 69, 84, 32>>, <<80, 79, 83, 84, 32>>, <<72, 69, 65, 68, 32>>,
  <<80, 85, 84, 32>>, <<68, 69, 76, 69, 84, 69, 32>>,
  <<79, 80, 84, 73, 79, 78, 83, 32>>, <<80, 65, 84, 67, 72, 32>>,
  <<84, 82, 65, 67, 69, 32>>, <<67, 79, 78, 78, 69, 67, 84, 32>>}

\* What makes a message one of its kind, whoever reads it: a port and the
\* first bytes of the payload.
Says(b, i) == At(b, Parsed(b).at + i)
IsFor(b, proto, port) ==
  IpOk(b) /\ L4Ok(b) /\ Parsed(b).proto = proto /\ Parsed(b).dport = port

IsInitial(b) ==
  /\ IsFor(b, IPPROTO_UDP, 443) /\ Parsed(b).len >= 5
  /\ Says(b, 0) \in 192 .. 207 /\ \E i \in 1 .. 4 : Says(b, i) # 0
IsQuery(b) == IsFor(b, IPPROTO_UDP, 53) /\ Parsed(b).len > 0
IsHello(b) ==
  /\ IsFor(b, IPPROTO_TCP, 443) /\ Parsed(b).len >= 6
  /\ Says(b, 0) = 22 /\ Says(b, 1) = 3 /\ Says(b, 5) = 1
IsRequest(b) ==
  /\ IsFor(b, IPPROTO_TCP, 80) /\ Parsed(b).len >= 5
  /\ \E m \in kMethods :
       Parsed(b).len >= Len(m) /\ \A i \in DOMAIN m : Says(b, i - 1) = m[i]

\* The senders' kinds are these.
ASSUME KindAssumption ==
  \A x \in Inputs :
    /\ IsInitial(x.bytes) => x.what = "initial"
    /\ IsQuery(x.bytes) => x.what = "query"
    /\ IsHello(x.bytes) => x.what = "hello"
    /\ IsRequest(x.bytes) => x.what = "request"

Says16(b, i) == Rd16(b, Parsed(b).at + i)

\* Where the fields of a ClientHello lie, each behind the one before.
CiphersAt(b)     == 44 + Says(b, 43)
CompressionAt(b) == CiphersAt(b) + 2 + Says16(b, CiphersAt(b))
ExtensionsAt(b)  == CompressionAt(b) + 1 + Says(b, CompressionAt(b))

\* The name is the only one in the first server name extension, which begins
\* 9 bytes before it and is whole in this segment; exts are the offsets of
\* the extensions up to that one.
NamesServer(x) ==
  LET b     == x.bytes
      first == ExtensionsAt(b) + 2
      sni   == x.from - 9
      n     == x.to - x.from
  IN  /\ x.to <= Parsed(b).len /\ x.to <= first + Says16(b, first - 2)
      /\ Says16(b, sni) = 0 /\ Says16(b, sni + 2) = 5 + n /\ Says16(b, sni + 7) = n
      /\ first \in x.exts /\ x.exts \subseteq first .. sni
      /\ \A i \in x.exts \ {sni} :
           Says16(b, i) # 0 /\ i + 4 + Says16(b, i + 2) \in x.exts

Lower(c) == IF c \in 65 .. 90 THEN c + 32 ELSE c
Needle   == <<104, 111, 115, 116, 58>>   \* "host:"

\* A header line of the name Host, in any case, and the first such line.
HostAt(b, i) ==
  /\ i = 0 \/ Says(b, i - 1) = 10
  /\ \A k \in 1 .. 5 : Lower(Says(b, i + k - 1)) = Needle[k]
NamesHost(x) ==
  /\ x.to = x.from + 5 /\ x.to <= Parsed(x.bytes).len /\ HostAt(x.bytes, x.from)
  /\ \A i \in 0 .. x.from - 1 : ~HostAt(x.bytes, i)

\* A sender that says where its name lies has put it there.
ASSUME NameAssumption ==
  \A x \in Inputs : x.to - x.from >= 2 =>
    /\ IsHello(x.bytes) => NamesServer(x)
    /\ IsRequest(x.bytes) => NamesHost(x)

VARIABLES
  in,        \* the datagram
  pc,        \* place in the code
  p,         \* struct bd_packet
  pos, end,  \* the walk: the next field, ext_end
  split,     \* the parser's result, then the offset used
  touched,   \* offsets in the datagram that the last step read
  rc1,       \* what sending the first fragment returned
  sent,      \* frames given to the raw socket
  noted,     \* counters of bd_stats that this datagram raised
  verdict

walk == <<pos, end>>
vars == <<in, pc, p, walk, split, touched, rc1, sent, noted, verdict>>

NoPacket == [at |-> 0, len |-> 0]

Places == {"ip", "l4", "port", "tls", "sid", "ciphers", "compression", "extlen",
           "ext", "name", "http", "cut", "fake", "first", "second", "answer", "done"}

Counters == {"packets_seen", "tcp_split", "fake_sent", "dns_forwarded", "quic_handled"}

Init ==
  /\ in \in Inputs /\ pc = "ip" /\ p = NoPacket
  /\ pos = 0 /\ end = 0 /\ split = -1 /\ touched = {}
  /\ rc1 = -1 /\ sent = <<>> /\ noted = {} /\ verdict = "none"

d == in.bytes

\* A byte and a 16-bit number of the payload; the offsets of payload bytes.
Data(i)   == At(d, p.at + i)
Data16(i) == Rd16(d, p.at + i)
Reads(S)  == touched' = {p.at + i : i \in S}
NoReads   == touched' = {}

Leave(v) == pc' = "done" /\ verdict' = v
Goto(l)  == pc' = l /\ UNCHANGED verdict

-----------------------------------------------------------------------------
(* packet_cb and bd_packet_parse.                                          *)

ParseIp ==
  /\ pc = "ip"
  /\ IF Len(d) = 0
     THEN NoReads /\ Leave("accept") /\ UNCHANGED noted
     ELSE /\ touched' = IpReads(d) /\ noted' = {"packets_seen"}
          /\ IF IpOk(d) THEN Goto("l4") ELSE Leave("accept")
  /\ UNCHANGED <<in, p, walk, split, rc1, sent>>

ParseL4 ==
  /\ pc = "l4"
  /\ touched' = L4Reads(d)
  /\ IF L4Ok(d) THEN p' = Parsed(d) /\ Goto("port")
     ELSE Leave("accept") /\ UNCHANGED p
  /\ UNCHANGED <<in, walk, split, rc1, sent, noted>>

\* mutant of quic_is_initial: version negotiation counts
QuicAnyVersion == p.len >= 5 /\ Data(0) \div 16 = 12

\* Long header, fixed bit, packet type Initial, a version number.
quic_is_initial ==
  /\ p.len >= 5 /\ Data(0) \div 16 = 12
  /\ \E i \in 1 .. 4 : Data(i) # 0

bd_tls_is_clienthello ==
  p.len >= 6 /\ Data(0) = 22 /\ Data(1) = 3 /\ Data(5) = 1

Starts(m) == p.len >= Len(m) /\ \A i \in DOMAIN m : Data(i - 1) = m[i]

bd_http_is_request == p.len >= 5 /\ \E m \in kMethods : Starts(m)

\* The guards of bd_tcp_handle: a payload, and no SYN (2), RST (4) or FIN (1).
CarriesData == p.len > 0 /\ p.flags % 8 = 0

\* The dispatch on protocol and port.  The switches in cfg are live: each
\* branch may find its own off ("on" is FALSE), which lets the packet pass.
Branch(proto, port) ==
  /\ pc = "port" /\ p.proto = proto /\ p.dport = port
  /\ UNCHANGED <<in, p, walk, split, rc1, sent>>

\* The head of bd_tcp_handle.
DispatchTls ==
  /\ Branch(IPPROTO_TCP, 443) /\ UNCHANGED noted
  /\ \E on \in BOOLEAN :
       /\ Reads(IF on /\ CarriesData /\ p.len >= 6 THEN {0, 1, 5} ELSE {})
       /\ IF on /\ CarriesData /\ bd_tls_is_clienthello
          THEN Goto("tls") ELSE Leave("accept")

MethodReads == UNION {0 .. Len(m) - 1 : m \in {k \in kMethods : Len(k) <= p.len}}

DispatchHttp ==
  /\ Branch(IPPROTO_TCP, 80) /\ UNCHANGED noted
  /\ \E on \in BOOLEAN :
       /\ Reads(IF on /\ CarriesData /\ p.len >= 5 THEN MethodReads ELSE {})
       /\ IF on /\ CarriesData /\ bd_http_is_request
          THEN Goto("http") ELSE Leave("accept")

\* bd_dns_handle; a query is also let through when no worker takes it (Dns).
DispatchDns ==
  /\ Branch(IPPROTO_UDP, 53) /\ UNCHANGED noted
  /\ \E on \in BOOLEAN :
       IF on /\ p.len \in 1 .. BD_DNS_MAX
       THEN Reads(0 .. p.len - 1) /\ pc' = "answer" /\ verdict' = "drop"
       ELSE NoReads /\ Leave("accept")

DispatchQuic ==
  /\ Branch(IPPROTO_UDP, 443)
  /\ \E on \in BOOLEAN :
       /\ Reads(IF on /\ p.len >= 5 THEN 0 .. 4 ELSE {})
       /\ IF on /\ quic_is_initial
          THEN Leave("drop") /\ noted' = noted \cup {"quic_handled"}
          ELSE Leave("accept") /\ UNCHANGED noted

DispatchNone ==
  /\ pc = "port" /\ NoReads /\ Leave("accept")
  /\ <<p.proto, p.dport>> \notin {<<IPPROTO_TCP, 80>>, <<IPPROTO_TCP, 443>>,
                                  <<IPPROTO_UDP, 53>>, <<IPPROTO_UDP, 443>>}
  /\ UNCHANGED <<in, p, walk, split, rc1, sent, noted>>

Dispatch == DispatchTls \/ DispatchHttp \/ DispatchDns \/ DispatchQuic \/ DispatchNone

-----------------------------------------------------------------------------
(* bd_tls_split_offset.                                                    *)

Found(off) == split' = off /\ Goto("cut") /\ UNCHANGED walk
NotFound   == Found(-1)

\* Record header, handshake header, version and random: 43 bytes to skip.
TlsFixedPart ==
  /\ pc = "tls" /\ NoReads
  /\ IF p.len < 43 THEN NotFound
     ELSE pos' = 43 /\ Goto("sid") /\ UNCHANGED <<end, split>>
  /\ UNCHANGED <<in, p, rc1, sent, noted>>

\* A field with its length in front: w bytes of length, then that many.
Skip(here, w, next) ==
  /\ pc = here
  /\ IF pos + w > p.len THEN NoReads /\ NotFound
     ELSE LET n == IF w = 1 THEN Data(pos) ELSE Data16(pos) IN
          /\ Reads(pos .. pos + w - 1)
          /\ IF pos + w + n > p.len THEN NotFound
             ELSE pos' = pos + w + n /\ Goto(next) /\ UNCHANGED <<end, split>>
  /\ UNCHANGED <<in, p, rc1, sent, noted>>

SessionId   == Skip("sid", 1, "ciphers")
Ciphers     == Skip("ciphers", 2, "compression")
Compression == Skip("compression", 1, "extlen")

\* mutant of ExtEnd: the length field is believed
ExtEndTrusted(from, n) == from + n

\* ext_end, clamped to what this segment holds.
ExtEnd(from, n) == IF from + n > p.len THEN p.len ELSE from + n

ExtensionsLength ==
  /\ pc = "extlen"
  /\ IF pos + 2 > p.len THEN NoReads /\ NotFound
     ELSE /\ Reads(pos .. pos + 1)
          /\ end' = ExtEnd(pos + 2, Data16(pos))
          /\ pos' = pos + 2 /\ Goto("ext") /\ UNCHANGED split
  /\ UNCHANGED <<in, p, rc1, sent, noted>>

\* mutant of NextExtension: the loop forgets to advance
NextExtensionStuck(at, n) == at

NextExtension(at, n) == at + 4 + n

\* One turn of the loop: the server name, another extension, or the end.
Extension ==
  /\ pc = "ext"
  /\ IF pos + 4 > end THEN NoReads /\ NotFound
     ELSE /\ Reads(pos .. pos + 3)
          /\ IF pos + 4 + Data16(pos + 2) > end THEN NotFound
             ELSE /\ IF Data16(pos) = 0 THEN Goto("name") /\ UNCHANGED pos
                     ELSE Goto("ext") /\ pos' = NextExtension(pos, Data16(pos + 2))
                  /\ UNCHANGED <<end, split>>
  /\ UNCHANGED <<in, p, rc1, sent, noted>>

\* mutant of NameSplit: the split lies before the name
NameSplitBefore(q) == q

\* One byte into the name, or before it if it has just one.
NameSplit(q) == IF q + 1 < p.len THEN q + 1 ELSE IF q < p.len THEN q ELSE -1

\* The extension's list length, name type and name length, then the name.
ServerName ==
  /\ pc = "name"
  /\ LET elen == Data16(pos + 2)
         q    == pos + 9
         n    == Data16(pos + 7)
     IN  IF elen < 5 THEN NoReads /\ NotFound
         ELSE /\ Reads(pos + 7 .. pos + 8)
              /\ Found(IF q + n > p.len \/ n <= 0 THEN -1 ELSE NameSplit(q))
  /\ UNCHANGED <<in, p, rc1, sent, noted>>

-----------------------------------------------------------------------------
(* bd_http_split_offset.                                                   *)

LineStart(i) == i = 0 \/ Data(i - 1) = 10

\* strncasecmp, on a host in the C locale.
MatchesNeedle(i) == \A k \in 1 .. 5 : Lower(Data(i + k - 1)) = Needle[k]

\* One turn of the loop; pos is its i.
HttpScan ==
  /\ pc = "http"
  /\ IF pos + 5 > p.len THEN NoReads /\ NotFound
     ELSE /\ Reads((IF pos = 0 THEN {} ELSE {pos - 1})
                     \cup (IF LineStart(pos) THEN pos .. pos + 4 ELSE {}))
          /\ IF LineStart(pos) /\ MatchesNeedle(pos)
             THEN Found(IF pos + 2 < p.len THEN pos + 2 ELSE -1)
             ELSE pos' = pos + 1 /\ Goto("http") /\ UNCHANGED <<end, split>>
  /\ UNCHANGED <<in, p, rc1, sent, noted>>

-----------------------------------------------------------------------------
(* The rest of bd_tcp_handle.                                              *)

Fallback(n) == IF n > 2 THEN 2 ELSE 1

\* mutant of Cut: the parser's answer is used as it is
CutUnchecked ==
  /\ pc = "cut" /\ NoReads /\ Goto("fake")
  /\ UNCHANGED <<in, p, walk, split, rc1, sent, noted>>

Cut ==
  /\ pc = "cut" /\ NoReads
  /\ LET s == IF split <= 0 \/ split >= p.len THEN Fallback(p.len) ELSE split IN
     /\ split' = s
     /\ IF s >= p.len THEN Leave("accept") ELSE Goto("fake")
  /\ UNCHANGED <<in, p, walk, rc1, sent, noted>>

Psh == 8
FirstFlags(flags) == IF (flags \div Psh) % 2 = 1 THEN flags - Psh ELSE flags

IpHeaderLen == IF p.family = 4 THEN 20 ELSE 40

\* inject4 or inject6 of a packet's L4 part: -1 (~ok) if the frame is longer
\* than BD_MAX_FRAME or sendto fails.
Inject(kind, src, dst, proto, ttl, l4, ok) ==
  LET fits == IpHeaderLen + Len(l4) <= BD_MAX_FRAME IN
  /\ ok => fits
  /\ ~ok => SendMayFail \/ ~fits
  /\ IF ok
     THEN \E id \in Ids :
            sent' = Append(sent, [kind  |-> kind,
                                  bytes |-> Frame(src, dst, proto, ttl, id, l4)])
     ELSE UNCHANGED sent

\* bd_send_tcp with n bytes of the payload from offset i on.
SendTcp(kind, i, n, seq, flags, ttl, ok) ==
  /\ Reads(i .. i + n - 1)
  /\ Inject(kind, p.src, p.dst, IPPROTO_TCP, ttl,
            build_tcp_l4(p.sport, p.dport, seq, p.ack, flags, p.window,
                         Slice(d, p.at + i, n)), ok)

Rc(ok) == IF ok THEN 0 ELSE -1

SendFake ==
  /\ pc = "fake" /\ Goto("first")
  /\ \E ok \in BOOLEAN :
       /\ SendTcp("fake", 0, p.len, p.seq, p.flags, FakeTtl, ok)
       /\ noted' = IF ok THEN noted \cup {"fake_sent"} ELSE noted
  /\ UNCHANGED <<in, p, walk, split, rc1>>

SendFirst ==
  /\ pc = "first" /\ Goto("second")
  /\ \E ok \in BOOLEAN :
       /\ SendTcp("first", 0, split, p.seq, FirstFlags(p.flags), BD_REAL_TTL, ok)
       /\ rc1' = Rc(ok)
  /\ UNCHANGED <<in, p, walk, split, noted>>

Verdict(r1, r2) == IF r1 # 0 \/ r2 # 0 THEN "accept" ELSE "drop"

SendSecond ==
  /\ pc = "second"
  /\ \E ok \in BOOLEAN :
       /\ SendTcp("second", split, p.len - split, Add32(p.seq, split), p.flags,
                  BD_REAL_TTL, ok)
       /\ Leave(Verdict(rc1, Rc(ok)))
  /\ noted' = IF verdict' = "drop" THEN noted \cup {"tcp_split"} ELSE noted
  /\ UNCHANGED <<in, p, walk, split, rc1>>

\* dns_worker: the answer, if there is one, as if from where the query went.
Answer ==
  /\ pc = "answer" /\ Leave(verdict) /\ NoReads
  /\ \/ \E r \in Replies, ok \in BOOLEAN :
          /\ Inject("answer", p.dst, p.src, IPPROTO_UDP, BD_REAL_TTL,
                    build_udp_l4(p.dport, p.sport, r), ok)
          /\ noted' = IF ok THEN noted \cup {"dns_forwarded"} ELSE noted
     \/ UNCHANGED <<sent, noted>>
  /\ UNCHANGED <<in, p, walk, split, rc1>>

-----------------------------------------------------------------------------
Parsing == ParseIp \/ ParseL4 \/ Dispatch
Walking == TlsFixedPart \/ SessionId \/ Ciphers \/ Compression
             \/ ExtensionsLength \/ Extension \/ ServerName
Sending == SendFake \/ SendFirst \/ SendSecond \/ Answer

Next == Parsing \/ Walking \/ HttpScan \/ Cut \/ Sending

Spec == Init /\ [][Next]_vars

\* The thread goes on.
FairSpec == Spec /\ WF_vars(Next)

-----------------------------------------------------------------------------
(* Properties.                                                             *)

TypeOK ==
  /\ d \in Seq(Byte) /\ pc \in Places /\ pos \in Nat /\ end \in Nat
  /\ p.at \in Nat /\ p.len \in Nat /\ split \in Int /\ rc1 \in {0, -1}
  /\ verdict \in {"none", "accept", "drop"} /\ noted \subseteq Counters

\* No read leaves the datagram, whatever lengths its headers and the
\* ClientHello claim, wherever it was cut off, and whatever offset the
\* parsers return (bd_packet_parse, tls.c, http.c, bd_tcp_handle's copies).
ReadsInside == touched \subseteq 0 .. Len(d) - 1

\* Both fragments have something to carry (what TcpPath assumes of the
\* parsers).
SplitInside == pc \in {"fake", "first", "second"} => split \in 1 .. p.len - 1

\* A name of two bytes or more that lies in the segment ends up in both
\* fragments, in neither of them whole, though the ClientHello may go on in
\* the next segment, other extensions come first, or the header is in odd
\* case or not the first line.
NameCut ==
  pc = "fake" /\ in.to - in.from >= 2 => split \in in.from + 1 .. in.to - 1

\* Only what a handler stands in for is dropped: a QUIC Initial, a query
\* whose answer a worker sends, a request whose fragments both went out.  The
\* counters tell which: none is raised for a packet that was let through but
\* packets_seen and fake_sent, and fake_sent only for a fake that left.
OnlyReplacedIsDropped ==
  LET kinds    == {sent[i].kind : i \in DOMAIN sent}
      replaced == {"first", "second"} \subseteq kinds
  IN  /\ verdict = "drop" =>
           \/ in.what = "initial" /\ "quic_handled" \in noted
           \/ in.what = "query"
           \/ in.what \in {"hello", "request"} /\ replaced
      /\ pc = "done" =>
           /\ "tcp_split" \in noted <=> replaced
           /\ "fake_sent" \in noted <=> "fake" \in kinds
           /\ "dns_forwarded" \in noted <=> "answer" \in kinds
           /\ noted \ {"packets_seen", "fake_sent"} # {} => verdict = "drop"

\* What a receiver makes of a frame, and the words it sums.
Got(f) == LET q == Parsed(f) IN [q EXCEPT !.at = Slice(f, q.at, q.len), !.len = 0]
ReceiverSum(b) ==
  LET n == (Len(b) + 1) \div 2
      s[i \in 0 .. n] == IF i = 0 THEN 0 ELSE (s[i - 1] + Rd16(b, 2 * i - 2)) % 65535
  IN  s[n]

\* uint32_t subtraction.
Sub32(u, v) ==
  <<(u[1] - v[1] - (IF u[2] < v[2] THEN 1 ELSE 0)) % 65536, (u[2] - v[2]) % 65536>>

\* The fragments are read back as the request: same endpoints, the bytes in
\* order, sequence numbers that join even where they wrap, PSH only at its
\* end.  The fake is the request itself.
FramesMakeTheRequest ==
  LET orig    == Got(d)
      part(k) == {Got(sent[i].bytes) : i \in {j \in DOMAIN sent : sent[j].kind = k}}
  IN  /\ \A a \in part("fake") : a = orig
      /\ pc = "done" /\ verdict = "drop" /\ in.what \in {"hello", "request"} =>
           \E a \in part("first"), b \in part("second") :
             /\ a.at \o b.at = orig.at
             /\ a = [orig EXCEPT !.at = a.at, !.flags = FirstFlags(@)]
             /\ b = [orig EXCEPT !.at = b.at, !.seq = b.seq]
             /\ Sub32(b.seq, a.seq) = <<0, Len(a.at)>>

\* Every frame is accepted by a receiver that sums in network order, though
\* the sums are made in the host's, over odd lengths too; a UDP frame always
\* carries a checksum.
ChecksumsVerify ==
  \A i \in DOMAIN sent :
    LET f == sent[i].bytes
        l == L4At(f)
        q == Parsed(f)
    IN  /\ Version(f) = 4 => ReceiverSum(Slice(f, 0, l)) = 0
        /\ ReceiverSum(PseudoHeader(q.src, q.dst, q.proto, L4Len(f))
                         \o Slice(f, l, L4Len(f))) = 0
        /\ q.proto = IPPROTO_UDP => Rd16(f, l + 6) # 0

\* Whatever the bytes, the datagram gets its verdict: no length makes the
\* walk through the extensions stand still.
Terminates == <>(pc = "done")

=============================================================================
